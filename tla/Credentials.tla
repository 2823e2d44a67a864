---------------------------- MODULE Credentials -----------------------------
(***************************************************************************)
(* One scope of the credential store of src/src/providers.rs under         *)
(* concurrent callers: the create-only login of KeyringBackend, the        *)
(* single-flight refresh of FlightedStore, and the refresh flows of the    *)
(* login modules, which read the stored token, exchange it at the provider *)
(* and store the reply.  A refresh that finds a flight in the map joins it *)
(* and takes the leader's outcome; the leader takes the map entry away     *)
(* before it publishes.                                                    *)
(***************************************************************************)
EXTENDS Integers, Sequences, FiniteSets

CONSTANTS Caller, NoCaller, MaxToken, MaxFlights

ASSUME CredentialAssumption ==
    /\ NoCaller \notin Caller
    /\ MaxToken \in Nat \ {0} /\ MaxFlights \in Nat \ {0}

VARIABLES
    entry,          \* the keyring's entry: a token, or 0 when it is absent
    loginLock,      \* login_locks of the scope: its holder
    inMap,          \* the flight the flights map holds for the scope, or 0
    flightOutcome,  \* each flight's outcome: "none", "ok", "error"
    caller,         \* each caller's place, token, flight and what it saw there
    issued,         \* external: tokens the provider has issued
    honoured,       \* external: the refresh tokens the provider still takes
    enrolled        \* the logins that have written since the entry was last absent
credentialVars == <<entry, loginLock, inMap, flightOutcome, caller, issued, honoured, enrolled>>

Idle == [at |-> "idle", token |-> 0, flight |-> 0, saw |-> "none", wrote |-> FALSE]

CredentialInit ==
    /\ entry = 0 /\ loginLock = NoCaller /\ inMap = 0 /\ flightOutcome = <<>>
    /\ caller = [c \in Caller |-> Idle]
    /\ issued = 0 /\ honoured = {} /\ enrolled = {}

Stands(c, at) == caller[c].at = at
Goes(c, at) == caller' = [caller EXCEPT ![c] = [caller[c] EXCEPT !.at = at]]

----------------------------------------------------------------------------
(* login *)

\* External: the exchange of a login session issues a token of its own.
IssueLogin(c) ==
    /\ Stands(c, "idle") /\ issued < MaxToken
    /\ issued' = issued + 1 /\ honoured' = honoured \cup {issued + 1}
    /\ caller' = [caller EXCEPT ![c] = [caller[c] EXCEPT !.at = "login", !.token = issued + 1]]
    /\ UNCHANGED <<entry, loginLock, inMap, flightOutcome, enrolled>>

\* Mutant: two enrolments of one scope do not queue.
TakeLoginLockNever(c) == UNCHANGED loginLock

\* login_locks: the scope's mutex, held to the end of login.
TakeLoginLock(c) == loginLock = NoCaller /\ loginLock' = c

\* login: the lock, then the occupancy read.
LoginCheck(c) ==
    /\ Stands(c, "login") /\ TakeLoginLock(c)
    /\ Goes(c, IF entry # 0 THEN "occupied" ELSE "create")
    /\ UNCHANGED <<entry, inMap, flightOutcome, issued, honoured, enrolled>>

Unlocked(c) == loginLock' = IF loginLock = c THEN NoCaller ELSE loginLock

\* login: CredentialOccupied.
LoginRefused(c) ==
    /\ Stands(c, "occupied") /\ Unlocked(c) /\ caller' = [caller EXCEPT ![c] = Idle]
    /\ UNCHANGED <<entry, inMap, flightOutcome, issued, honoured, enrolled>>

\* login: set_secret, which the platform may refuse.
LoginWrite(c) ==
    /\ Stands(c, "create") /\ Unlocked(c) /\ caller' = [caller EXCEPT ![c] = Idle]
    /\ \/ entry' = caller[c].token /\ enrolled' = enrolled \cup {caller[c].token}
       \/ UNCHANGED <<entry, enrolled>>
    /\ UNCHANGED <<inMap, flightOutcome, issued, honoured>>

\* revoke and logout: the entry is deleted, with neither lock nor flight.
Revoke ==
    /\ entry # 0 /\ entry' = 0 /\ enrolled' = {}
    /\ UNCHANGED <<loginLock, inMap, flightOutcome, caller, issued, honoured>>

----------------------------------------------------------------------------
(* the refresh flows *)

\* refresh_login, refresh: the stored credential is read.
ReadStored(c) ==
    /\ Stands(c, "idle") /\ entry # 0
    /\ caller' = [caller EXCEPT ![c] = [caller[c] EXCEPT !.at = "exchange", !.token = entry]]
    /\ UNCHANGED <<entry, loginLock, inMap, flightOutcome, issued, honoured, enrolled>>

\* The exchange of a token the provider no longer takes is refused, and ends
\* the flow before the store is touched.
ExchangeRefused(c) ==
    /\ Stands(c, "exchange") /\ caller[c].token \notin honoured
    /\ caller' = [caller EXCEPT ![c] = Idle]
    /\ UNCHANGED <<entry, loginLock, inMap, flightOutcome, issued, honoured, enrolled>>

\* refresh of cursor: a reply without a refresh token keeps the stored one.
ExchangeKeeps(c) ==
    /\ Stands(c, "exchange") /\ caller[c].token \in honoured /\ Goes(c, "refresh")
    /\ UNCHANGED <<entry, loginLock, inMap, flightOutcome, issued, honoured, enrolled>>

\* refresh of gitlab: the reply's refresh token retires the one it was got for.
ExchangeRotates(c) ==
    /\ Stands(c, "exchange") /\ caller[c].token \in honoured /\ issued < MaxToken
    /\ issued' = issued + 1
    /\ honoured' = (honoured \ {caller[c].token}) \cup {issued + 1}
    /\ caller' = [caller EXCEPT ![c] = [caller[c] EXCEPT !.at = "refresh", !.token = issued + 1]]
    /\ UNCHANGED <<entry, loginLock, inMap, flightOutcome, enrolled>>

\* refresh: under the map's lock the caller joins the flight or leads a new one.
TakeSlot(c) ==
    /\ Stands(c, "refresh")
    /\ IF inMap # 0
       THEN /\ caller' = [caller EXCEPT ![c] = [caller[c] EXCEPT
                              !.at = "join", !.flight = inMap, !.saw = flightOutcome[inMap]]]
            /\ UNCHANGED <<inMap, flightOutcome>>
       ELSE /\ Len(flightOutcome) < MaxFlights
            /\ inMap' = Len(flightOutcome) + 1
            /\ flightOutcome' = Append(flightOutcome, "none")
            /\ caller' = [caller EXCEPT ![c] = [caller[c] EXCEPT !.at = "lead", !.flight = inMap']]
    /\ UNCHANGED <<entry, loginLock, issued, honoured, enrolled>>

\* The leader's inner.refresh: it writes, fails, or unwinds.
LeaderWrites(c) ==
    /\ Stands(c, "lead")
    /\ \/ /\ entry' = caller[c].token
          /\ caller' = [caller EXCEPT ![c] = [caller[c] EXCEPT !.at = "drop", !.wrote = TRUE]]
       \/ UNCHANGED entry /\ Goes(c, "drop")
    /\ UNCHANGED <<loginLock, inMap, flightOutcome, issued, honoured, enrolled>>

Published(c) == [flightOutcome EXCEPT ![caller[c].flight] = IF caller[c].wrote THEN "ok" ELSE "error"]

\* Mutant: the outcome is published while the map still holds the flight.
LeaderRemovesLast(c) ==
    /\ Stands(c, "drop") /\ flightOutcome' = Published(c) /\ UNCHANGED inMap

\* FlightLeader::drop, first: the map entry is removed.
LeaderRemoves(c) ==
    /\ Stands(c, "drop") /\ inMap' = 0 /\ UNCHANGED flightOutcome

LeaderDrops(c) ==
    /\ LeaderRemoves(c) /\ Goes(c, "publish")
    /\ UNCHANGED <<entry, loginLock, issued, honoured, enrolled>>

\* FlightLeader::drop, then: the outcome is published and the joiners woken; the
\* outcome of a leader that unwound is an error.
LeaderPublishes(c) ==
    /\ Stands(c, "publish") /\ flightOutcome' = Published(c)
    /\ inMap' = IF inMap = caller[c].flight THEN 0 ELSE inMap
    /\ caller' = [caller EXCEPT ![c] = Idle]
    /\ UNCHANGED <<entry, loginLock, issued, honoured, enrolled>>

\* join: the outcome is taken, or the bound lapses and the joiner is denied.
JoinEnds(c) ==
    /\ Stands(c, "join")
    /\ \/ flightOutcome[caller[c].flight] = "ok" /\ Goes(c, "joined")
       \/ flightOutcome[caller[c].flight] # "ok" /\ caller' = [caller EXCEPT ![c] = Idle]
    /\ UNCHANGED <<entry, loginLock, inMap, flightOutcome, issued, honoured, enrolled>>

\* The joiner's caller returns.
JoinReturns(c) ==
    /\ Stands(c, "joined") /\ caller' = [caller EXCEPT ![c] = Idle]
    /\ UNCHANGED <<entry, loginLock, inMap, flightOutcome, issued, honoured, enrolled>>

CredentialNext ==
    \/ \E c \in Caller :
        \/ IssueLogin(c) \/ LoginCheck(c) \/ LoginRefused(c) \/ LoginWrite(c)
        \/ ReadStored(c) \/ ExchangeRefused(c) \/ ExchangeKeeps(c) \/ ExchangeRotates(c)
        \/ TakeSlot(c) \/ LeaderWrites(c)
        \/ LeaderDrops(c) \/ LeaderPublishes(c) \/ JoinEnds(c) \/ JoinReturns(c)
    \/ Revoke

CredentialSpec == CredentialInit /\ [][CredentialNext]_credentialVars

----------------------------------------------------------------------------
\* However enrolments of one scope overlap, with refreshes and revocations
\* between their steps, at most one of them writes an entry nobody removed: the
\* second is refused by the check the first one's write is visible to.
OneEnrolment == Cardinality(enrolled) <= 1

\* A refresh never joins a spent flight: whoever waits on a flight came before
\* its outcome was published, so an Ok it takes is of a write no earlier caller
\* was answered for, and a flight in the map has one leader that will end it.
NoSpentFlight ==
    /\ \A c \in Caller : caller[c].at \in {"join", "joined"} => caller[c].saw = "none"
    /\ inMap # 0 => \E c \in Caller : caller[c].at \in {"lead", "drop", "publish"} /\ caller[c].flight = inMap

-----------------------------------------------------------------------------
(***************************************************************************)
(* The login sessions of src/src/providers: the browser logins (openai,    *)
(* anthropic, gitlab, devin) that end with a callback, and the polled ones *)
(* (openai's device login, copilot, cursor).  auth.login.* of              *)
(* src/src/commands.rs keeps one pending session, which a begin replaces,  *)
(* a cancel drops and every failed completion puts back.                   *)
(* Clock: a step of the runtime takes no time by itself; a request to the  *)
(* peer may take any, bounded by MaxTime.                                  *)
(***************************************************************************)

CONSTANTS
    Kinds,              \* the login kinds explored
    MaxSessions, MaxTime,
    Window,             \* expires_in of a device login
    Interval, SLOW_DOWN, MAX_INTERVAL,
    POLL_MAX_ATTEMPTS, TRANSPORT_ERROR_LIMIT

ASSUME LoginsAssumption ==
    /\ Kinds \subseteq {"openai", "anthropic", "gitlab", "devin", "device", "copilot", "cursor"}
    /\ {MaxSessions, MaxTime, Window, Interval, SLOW_DOWN, MAX_INTERVAL,
        POLL_MAX_ATTEMPTS, TRANSPORT_ERROR_LIMIT} \subseteq Nat \ {0}

VARIABLES
    clock,
    begun,          \* how many sessions began: each has its own state
    pending,        \* pending_login: the session, or NoSession
    grant,          \* external: sessions whose user approved, with the time of the grant
    account,        \* the account of the stored credential, or 0
    enrolment       \* the last enrolment: its session, its live session, when its grant was read
loginVars == <<clock, begun, pending, grant, account, enrolment>>

Browser == {"openai", "anthropic", "gitlab", "devin"}
NoSession == [kind |-> "none", state |-> 0, deadline |-> 0, next |-> 0, interval |-> 0,
              attempts |-> 0, errors |-> 0]
NoEnrolment == [session |-> 0, live |-> 0, read |-> 0, deadline |-> 0]

LoginsInit ==
    /\ clock = 0 /\ begun = 0 /\ pending = NoSession /\ grant = {}
    /\ account = 0 /\ enrolment = NoEnrolment

----------------------------------------------------------------------------
(* begin *)

\* begin_login of the four browser logins: a fresh state and verifier, no
\* deadline.
BrowserSession(kind, state) == [NoSession EXCEPT !.kind = kind, !.state = state]

\* begin_device_login: the first poll may come at once.
DeviceSession(state) ==
    [NoSession EXCEPT !.kind = "device", !.state = state, !.deadline = clock + Window,
                      !.next = clock, !.interval = Interval]

\* begin_device of copilot: the first poll is due after one interval.
CopilotSession(state) ==
    [NoSession EXCEPT !.kind = "copilot", !.state = state, !.deadline = clock + Window,
                      !.next = clock + Interval, !.interval = Interval]

\* begin_login of cursor: a number of attempts in place of a deadline.
CursorSession(state) ==
    [NoSession EXCEPT !.kind = "cursor", !.state = state, !.next = clock + Interval,
                      !.interval = Interval]

NewSession(kind, state) ==
    CASE kind \in Browser -> BrowserSession(kind, state)
      [] kind = "device" -> DeviceSession(state)
      [] kind = "copilot" -> CopilotSession(state)
      [] kind = "cursor" -> CursorSession(state)

\* auth.login.begin: the new session replaces the pending one.
AuthLoginBegin(kind) ==
    /\ begun < MaxSessions
    /\ begun' = begun + 1 /\ pending' = NewSession(kind, begun + 1)
    /\ UNCHANGED <<clock, grant, account, enrolment>>

\* auth.login.cancel.
AuthLoginCancel ==
    /\ pending # NoSession /\ pending' = NoSession
    /\ UNCHANGED <<clock, begun, grant, account, enrolment>>

\* External: the user approves a session, pending or not, at the provider.
Approve(s) ==
    /\ s \in 1..begun /\ s \notin grant /\ grant' = grant \cup {s}
    /\ UNCHANGED <<clock, begun, pending, account, enrolment>>

Passes == /\ clock < MaxTime /\ clock' = clock + 1
          /\ UNCHANGED <<begun, pending, grant, account, enrolment>>

----------------------------------------------------------------------------
(* the stored credential *)

\* enroll: another account than the stored one is refused, and so is the same
\* one, for login creates only (CredentialOccupied).
Enrols(s, read) ==
    /\ account = 0 /\ account' = s /\ pending' = NoSession
    /\ enrolment' = [session |-> s, live |-> pending.state, read |-> read,
                     deadline |-> pending.deadline]

\* A refused enrolment, a denial and a malformed reply put the session back.
PutBack(session) == pending' = session /\ UNCHANGED <<account, enrolment>>

\* revoke or logout at the store.
Forget == /\ account # 0 /\ account' = 0 /\ enrolment' = NoEnrolment
          /\ UNCHANGED <<clock, begun, pending, grant>>

----------------------------------------------------------------------------
(* browser callbacks: a callback is the sequence of its recorded parameters, *)
(* a state (a session number), a code, or an error                          *)

Param(key, value) == [key |-> key, value |-> value]
\* Where a callback has a parameter, and the value of the first one.
Places(callback, key) == {i \in DOMAIN callback : callback[i].key = key}
FirstValue(callback, key) ==
    callback[CHOOSE i \in Places(callback, key) : \A j \in Places(callback, key) : i <= j].value
OfState(callback, state) ==
    Places(callback, "state") # {} /\ FirstValue(callback, "state") = state
OnlyCode(callback) == Places(callback, "error") = {} /\ Places(callback, "code") # {}
NoneRepeated(callback) ==
    \A key \in {"state", "code", "error"} : Cardinality(Places(callback, key)) <= 1

\* Mutant: an error in the callback is answered, and a code taken, whatever
\* session the callback is of.
UniqueCallbackAnyState(callback, state) == NoneRepeated(callback) /\ OnlyCode(callback)

\* parse_callback and complete_login of openai and anthropic: a repeated
\* parameter is no redirect at all; the state is compared before anything else.
UniqueCallback(callback, state) ==
    NoneRepeated(callback) /\ OfState(callback, state) /\ OnlyCode(callback)

\* verify_callback of gitlab and devin: the first state and the first code
\* count, any error cancels.
FirstCallback(callback, state) == OfState(callback, state) /\ OnlyCode(callback)

CallbackTaken(kind, callback, state) ==
    IF kind \in {"openai", "anthropic"} THEN UniqueCallback(callback, state)
    ELSE FirstCallback(callback, state)

\* External: the provider's redirect for session s carries s as its state and
\* a code bound to it; a user may paste any earlier session's redirect, a
\* refusal, or one with a repeated parameter.
Redirects(s) ==
    {<<Param("code", s), Param("state", s)>>,
     <<Param("error", 0), Param("state", s)>>,
     <<Param("code", s), Param("state", s), Param("state", s)>>}

\* External: the token endpoint takes the code of an approved session.  That it
\* also compares the verifier is not relied on.
Exchanged(code) == code \in grant

\* auth.login.complete, browser: a taken callback's code is exchanged and the
\* reply enrolled; every other end keeps the session.
CompleteBrowser(s) ==
    /\ pending.kind \in Browser /\ s \in grant
    /\ \E callback \in Redirects(s) :
        \/ /\ CallbackTaken(pending.kind, callback, pending.state)
           /\ Exchanged(FirstValue(callback, "code"))
           /\ Enrols(s, clock)
        \/ PutBack(pending)
    /\ UNCHANGED <<clock, begun, grant>>

----------------------------------------------------------------------------
(* polled logins *)

Least(a, b) == IF a < b THEN a ELSE b
Scheduled(session, at) == [session EXCEPT !.next = at + session.interval]

\* The widened interval of a slow_down.
SlowedDown(session) ==
    [session EXCEPT !.interval = Least(session.interval + SLOW_DOWN, MAX_INTERVAL)]

\* Mutant: the deadline is checked before the poll only.
ReadInTimeBefore(read) == TRUE

\* The check after a successful reply: a slow peer does not enrol past the
\* deadline of the session.
ReadInTime(read) == read < pending.deadline

\* advance_device_login: the deadline, the schedule, then one poll that ends at
\* `read`; the exchange that follows ends at `done`.
AdvanceDevice(read, done) ==
    /\ pending.kind = "device" /\ clock < pending.deadline
    /\ IF clock < pending.next THEN read = clock /\ done = clock /\ PutBack(pending)
       ELSE \/ done = read /\ PutBack(Scheduled(pending, read))                 \* authorization_pending, 403, 404
            \/ done = read /\ PutBack(Scheduled(SlowedDown(pending), read))     \* slow_down
            \/ done = read /\ PutBack(pending)                                  \* denied, expired, transport
            \/ /\ pending.state \in grant /\ ReadInTime(read)
               /\ Enrols(pending.state, read)

\* advance of copilot: the schedule is its caller's, the check is the last step
\* before the store.
AdvanceCopilot(read, done) ==
    /\ pending.kind = "copilot" /\ clock < pending.deadline /\ done = read
    /\ \/ PutBack(Scheduled(pending, read)) \/ PutBack(Scheduled(SlowedDown(pending), read))
       \/ PutBack(pending)
       \/ pending.state \in grant /\ ReadInTime(read) /\ Enrols(pending.state, read)

\* advance of cursor counts the attempt before it is made.
Attempted(session) == [session EXCEPT !.attempts = session.attempts + 1]

\* A poll that found no peer: the limit of consecutive failures ends the login
\* (the session the caller keeps has counted it), any other is pending.
TransportFailed(session, at) ==
    LET counted == [session EXCEPT !.errors = session.errors + 1]
    IN IF counted.errors >= TRANSPORT_ERROR_LIMIT THEN counted ELSE Scheduled(counted, at)

\* advance of cursor: transport failure, 404 (pending, with a longer delay),
\* refusal, or the tokens.
AdvanceCursor(read, done) ==
    /\ pending.kind = "cursor" /\ pending.attempts < POLL_MAX_ATTEMPTS /\ done = read
    /\ LET session == Attempted(pending)
       IN \/ PutBack(TransportFailed(session, read))
          \/ PutBack(Scheduled([SlowedDown(session) EXCEPT !.errors = 0], read))
          \/ PutBack(session)
          \/ /\ pending.state \in grant
             /\ account = 0 /\ account' = pending.state /\ pending' = NoSession
             /\ enrolment' = [session |-> pending.state, live |-> pending.state, read |-> read,
                              deadline |-> 0]

\* auth.login.complete, polled: one poll, after which the clock shows its end.
CompletePolled ==
    \E read, done \in clock..MaxTime :
        /\ read <= done /\ clock' = done
        /\ AdvanceDevice(read, done) \/ AdvanceCopilot(read, done) \/ AdvanceCursor(read, done)
        /\ UNCHANGED <<begun, grant>>

LoginsNext ==
    \/ \E kind \in Kinds : AuthLoginBegin(kind)
    \/ AuthLoginCancel \/ Passes \/ Forget \/ CompletePolled
    \/ \E s \in 1..MaxSessions : Approve(s) \/ CompleteBrowser(s)

LoginsSpec == LoginsInit /\ [][LoginsNext]_loginVars

----------------------------------------------------------------------------
\* A credential is enrolled only from the session that was pending, whatever
\* redirects of replaced or cancelled sessions are delivered meanwhile.
EnrolledByLiveSession == enrolment.session = enrolment.live

\* A device login never enrols on an answer read after its window closed,
\* however slowly the peer answers a poll that was sent in time.
EnrolledInWindow == enrolment.deadline # 0 => enrolment.read < enrolment.deadline

\* Credentials as a whole: one enrolment per scope, no caller joins a spent flight,
\* and only a live login session enrols, inside its window.
CredentialsAreCurrent ==
    OneEnrolment /\ NoSpentFlight /\ EnrolledByLiveSession /\ EnrolledInWindow
=============================================================================
