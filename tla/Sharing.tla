------------------------------ MODULE Sharing ------------------------------
(***************************************************************************)
(* Scoped local sharing (src/src/sharing.rs, the sharing rows of state.rs  *)
(* and the observer boundary of commands.rs).  A grant is a durable row    *)
(* and a live surface: a listener, its connections and the attachments     *)
(* minted on them.  The runtime's one thread serves a bounded turn of      *)
(* frames before it dispatches each local request; peers, the clock and    *)
(* the process's death come between any two frames.                        *)
(***************************************************************************)
EXTENDS Naturals, FiniteSets

CONSTANTS
    Grant, Peer,
    Ttl,                    \* seconds a grant lives
    MAX_CONNECTIONS, MAX_FRAMES_PER_TURN,
    MaxTime                 \* bound: the clock
ASSUME SharingAssumption ==
    /\ {Ttl, MAX_CONNECTIONS, MAX_FRAMES_PER_TURN, MaxTime} \subseteq Nat
    /\ IsFiniteSet(Peer)

VARIABLES
    row,            \* grant -> state of its row
    surface,        \* grant -> state of its LiveGrant, "none" without one
    listening,      \* grants whose socket accepts
    expiresAt,      \* grant -> second
    now,
    peer,           \* peer -> [to, at, frame, id]: its connection
    attachments,    \* grant -> ids minted and not released
    turn,           \* [on, left, late, request, todo, accepts, pumps]: the serving turn
    leak            \* ghost: a projection was served outside its grant
sharingVars == <<row, surface, listening, expiresAt, now, peer, attachments, turn, leak>>

NoPeer == [to |-> "none", at |-> "away", frame |-> "none", id |-> 0]
Asleep == [on |-> FALSE, left |-> 0, late |-> FALSE, request |-> "none",
           todo |-> {}, accepts |-> {}, pumps |-> {}]
Frames == {"attach", "other_token", "own", "other_task", "command", "broken"}
Connected(g) == {p \in Peer : peer[p].to = g /\ peer[p].at = "accepted"}

----------------------------------------------------------------------------
(* Peers and time *)

Connect(p, g) ==
    /\ peer[p] = NoPeer /\ g \in listening
    /\ peer' = [peer EXCEPT ![p] = [to |-> g, at |-> "backlog", frame |-> "none", id |-> 0]]
    /\ UNCHANGED <<row, surface, listening, expiresAt, now, attachments, turn, leak>>
SendFrame(p, f) ==
    /\ peer[p].at \in {"backlog", "accepted"} /\ peer[p].frame = "none"
    /\ peer' = [peer EXCEPT ![p].frame = f]
    /\ UNCHANGED <<row, surface, listening, expiresAt, now, attachments, turn, leak>>
HangUp(p) ==
    /\ peer[p].at = "accepted" /\ peer[p].frame = "none"
    /\ peer' = [peer EXCEPT ![p].frame = "closed"]
    /\ UNCHANGED <<row, surface, listening, expiresAt, now, attachments, turn, leak>>
Pass == /\ now < MaxTime /\ now' = now + 1
        /\ UNCHANGED <<row, surface, listening, expiresAt, peer, attachments, turn, leak>>

----------------------------------------------------------------------------
(* Local requests *)

\* transition_sharing_grant: every transition matches an open row only.
RowMoved(g, to) == IF row[g] = "open" THEN [row EXCEPT ![g] = to] ELSE row

\* close_listener: the socket goes, and with it what it had not accepted.
Unaccepted(g) == [p \in Peer |-> IF peer[p].to = g /\ peer[p].at = "backlog" THEN NoPeer ELSE peer[p]]

\* Every request is answered after a serving turn.
Ask(request) ==
    /\ ~turn.on /\ turn.request = "none"
    /\ turn' = [on |-> TRUE, left |-> MAX_FRAMES_PER_TURN, late |-> FALSE, request |-> request,
                todo |-> {g \in Grant : surface[g] # "none"}, accepts |-> {}, pumps |-> {}]
    /\ UNCHANGED <<row, surface, listening, expiresAt, now, peer, attachments, leak>>
Answering(request) == ~turn.on /\ turn.request = request /\ turn' = Asleep

\* open_sharing_grant: the socket is bound, then the row recorded, or the socket
\* goes again.
OpenGrant(g) ==
    /\ Answering("open") /\ row[g] = "none"
    /\ \/ /\ row' = [row EXCEPT ![g] = "open"] /\ surface' = [surface EXCEPT ![g] = "open"]
          /\ listening' = listening \cup {g} /\ expiresAt' = [expiresAt EXCEPT ![g] = now + Ttl]
       \/ UNCHANGED <<row, surface, listening, expiresAt>>
    /\ UNCHANGED <<now, peer, attachments, leak>>

\* Mutant: the row is closed and the live surface left as it was.
RevokeRowOnly(g) ==
    /\ Answering("revoke") /\ row[g] # "none" /\ row' = RowMoved(g, "revoked")
    /\ UNCHANGED <<surface, listening, expiresAt, now, peer, attachments, leak>>

\* revoke_sharing_grant by the owning session: the row first, then the live grant
\* takes the state the row reports.
RevokeGrant(g) ==
    /\ Answering("revoke") /\ row[g] # "none"
    /\ row' = RowMoved(g, "revoked")
    /\ IF surface[g] = "none" THEN UNCHANGED <<surface, listening, peer>>
       ELSE /\ surface' = [surface EXCEPT ![g] = row'[g]]
            /\ listening' = listening \ {g} /\ peer' = Unaccepted(g)
    /\ UNCHANGED <<expiresAt, now, attachments, leak>>

\* Any other request, a revoke of another session's grant among them.
OtherRequest == /\ ~turn.on /\ turn.request # "none" /\ turn' = Asleep
                /\ UNCHANGED <<row, surface, listening, expiresAt, now, peer, attachments, leak>>

----------------------------------------------------------------------------
(* The serving turn *)

\* ServeTurn::available: the frame budget and the deadline of the turn.
Available == turn.left > 0 /\ ~turn.late
TurnIsLate == /\ turn.on /\ ~turn.late /\ turn' = [turn EXCEPT !.late = TRUE]
              /\ UNCHANGED <<row, surface, listening, expiresAt, now, peer, attachments, leak>>

\* SharingService::serve takes the grants one after another; one it has begun is
\* accepted on and pumped before the next.
TakeGrant(g) ==
    /\ turn.on /\ Available /\ turn.accepts = {} /\ turn.pumps = {} /\ g \in turn.todo
    /\ turn' = [turn EXCEPT !.todo = @ \ {g},
                            !.accepts = IF surface[g] = "open" /\ g \in listening THEN {g} ELSE {},
                            !.pumps = IF surface[g] = "open" /\ g \in listening THEN {} ELSE Connected(g)]
    /\ UNCHANGED <<row, surface, listening, expiresAt, now, peer, attachments, leak>>

\* accept of LiveGrant::serve: a peer past MAX_CONNECTIONS is closed and ends the
\* accepting of this turn, as does an empty backlog.
Accept(p) ==
    LET g == peer[p].to
        full == Cardinality(Connected(g)) >= MAX_CONNECTIONS
    IN  /\ turn.on /\ peer[p].at = "backlog" /\ g \in turn.accepts
        /\ peer' = IF full THEN [peer EXCEPT ![p] = NoPeer] ELSE [peer EXCEPT ![p].at = "accepted"]
        /\ turn' = IF full THEN [turn EXCEPT !.accepts = {}, !.pumps = Connected(g)] ELSE turn
        /\ UNCHANGED <<row, surface, listening, expiresAt, now, attachments, leak>>
AcceptedAll(g) ==
    /\ turn.on /\ g \in turn.accepts /\ ~\E p \in Peer : peer[p].to = g /\ peer[p].at = "backlog"
    /\ turn' = [turn EXCEPT !.accepts = {}, !.pumps = Connected(g)]
    /\ UNCHANGED <<row, surface, listening, expiresAt, now, peer, attachments, leak>>

\* A listener that cannot accept closes the grant; a failed write of the row is
\* dropped.
ListenerFails(g) ==
    /\ turn.on /\ g \in turn.accepts
    /\ surface' = [surface EXCEPT ![g] = "failed"]
    /\ listening' = listening \ {g} /\ peer' = Unaccepted(g)
    /\ \/ row' = RowMoved(g, "failed")
       \/ row' = row
    /\ turn' = [turn EXCEPT !.accepts = {}, !.pumps = Connected(g)]
    /\ UNCHANGED <<expiresAt, now, attachments, leak>>

\* Mutant: a replaced or closed attachment stays in the grant's set.
DroppedNever(p) == attachments[peer[p].to]

\* The connection's id leaves the grant's set with the connection, or with the
\* attachment that replaces it.
Dropped(p) == attachments[peer[p].to] \ {peer[p].id}
CloseConnection(p) == /\ peer' = [peer EXCEPT ![p] = NoPeer]
                      /\ attachments' = [attachments EXCEPT ![peer[p].to] = Dropped(p)]

\* Mutant: a grant is live while its surface says so.
LiveBySurface(g) == surface[g] = "open"

\* ensure_live before any method body: an open surface past its expiry is closed,
\* in memory whatever the store says.
Live(g) == surface[g] = "open" /\ now < expiresAt[g]
EnsureLive(g) ==
    IF surface[g] = "open" /\ now >= expiresAt[g]
    THEN /\ listening' = listening \ {g}
         /\ \/ row' = RowMoved(g, "expired") /\ surface' = [surface EXCEPT ![g] = row'[g]]
            \/ row' = row /\ surface' = [surface EXCEPT ![g] = "expired"]
    ELSE UNCHANGED <<row, surface, listening>>
\* The peers a closed socket had not accepted are gone as well.
Refused(p, g) == /\ EnsureLive(g)
                 /\ peer' = (IF g \in listening' THEN [peer EXCEPT ![p] = NoPeer]
                             ELSE [Unaccepted(g) EXCEPT ![p] = NoPeer])
                 /\ attachments' = [attachments EXCEPT ![g] = Dropped(p)]
                 /\ UNCHANGED leak

\* One frame is due on an accepted connection, within the turn's budget.
Due(p) == turn.on /\ Available /\ p \in turn.pumps /\ peer[p].frame # "none"

\* Mutant: a frame costs the turn nothing.
SpentNothing(p) == turn' = [turn EXCEPT !.pumps = IF peer'[p] = NoPeer THEN @ \ {p} ELSE @]

\* ServeTurn::spend
TurnSpent(p) == turn' = [turn EXCEPT !.left = @ - 1, !.pumps = IF peer'[p] = NoPeer THEN @ \ {p} ELSE @]

\* exchange_token: the grant's own token mints an attachment, any other is unknown.
Attach(p) ==
    LET g == peer[p].to
    IN  /\ Due(p) /\ peer[p].frame = "attach" /\ Live(g)
        /\ LET fresh == CHOOSE i \in 1..Cardinality(Peer) + 1 : i \notin {peer[q].id : q \in Peer}
           IN  /\ attachments' = [attachments EXCEPT ![g] = Dropped(p) \cup {fresh}]
               /\ peer' = [peer EXCEPT ![p].frame = "none", ![p].id = fresh]
        /\ TurnSpent(p)
        /\ UNCHANGED <<row, surface, listening, expiresAt, now, leak>>
AttachRefused(p) ==
    /\ Due(p)
    /\ \/ peer[p].frame = "attach" /\ ~Live(peer[p].to) /\ Refused(p, peer[p].to)
       \/ /\ peer[p].frame \in {"other_token", "broken"} /\ CloseConnection(p)
          /\ UNCHANGED <<row, surface, listening, leak>>
    /\ TurnSpent(p) /\ UNCHANGED <<expiresAt, now>>

\* Mutant: an observer may name any task.
InScopeAny(frame) == frame # "command"

\* dispatch_observer_request: an observer's method, on the granted task only.
InScope(frame) == frame = "own"

\* A method frame: the attachment is verified, and what is in scope is served; a
\* denied method keeps the connection.
Serve(p) ==
    LET g == peer[p].to
    IN  /\ Due(p) /\ peer[p].frame \in {"own", "other_task", "command"}
        /\ IF peer[p].id = 0
           THEN CloseConnection(p) /\ UNCHANGED <<row, surface, listening, leak>>
           ELSE IF Live(g) /\ peer[p].id \in attachments[g]
           THEN /\ peer' = [peer EXCEPT ![p].frame = "none"]
                /\ leak' = (leak \/ (InScope(peer[p].frame)
                                     /\ (row[g] # "open" \/ now >= expiresAt[g] \/ peer[p].frame # "own")))
                /\ UNCHANGED <<row, surface, listening, attachments>>
           ELSE Refused(p, g)
        /\ TurnSpent(p) /\ UNCHANGED <<expiresAt, now>>

\* The end of the stream is not a frame of the budget; an idle connection is passed
\* over until the next turn.
Closed(p) ==
    /\ Due(p) /\ peer[p].frame = "closed" /\ CloseConnection(p)
    /\ turn' = [turn EXCEPT !.pumps = @ \ {p}]
    /\ UNCHANGED <<row, surface, listening, expiresAt, now, leak>>
PassOver(p) ==
    /\ turn.on /\ Available /\ p \in turn.pumps /\ peer[p].frame = "none"
    /\ turn' = [turn EXCEPT !.pumps = @ \ {p}]
    /\ UNCHANGED <<row, surface, listening, expiresAt, now, peer, attachments, leak>>

\* The turn ends when its budget is gone or every grant has been served.
TurnEnds ==
    /\ turn.on /\ turn.accepts = {}
    /\ ~Available \/ (turn.todo = {} /\ turn.pumps = {})
    /\ turn' = [Asleep EXCEPT !.request = turn.request]
    /\ UNCHANGED <<row, surface, listening, expiresAt, now, peer, attachments, leak>>

----------------------------------------------------------------------------
\* The process dies and opens again: no listener survives it, and an open row fails
\* before any surface serves.
Restart ==
    /\ row' = [g \in Grant |-> IF row[g] = "open" THEN "failed" ELSE row[g]]
    /\ surface' = [g \in Grant |-> "none"] /\ listening' = {}
    /\ peer' = [p \in Peer |-> NoPeer] /\ attachments' = [g \in Grant |-> {}]
    /\ turn' = Asleep /\ UNCHANGED <<expiresAt, now, leak>>

SharingInit ==
    /\ row = [g \in Grant |-> "none"] /\ surface = row /\ listening = {}
    /\ expiresAt = [g \in Grant |-> 0] /\ now = 0
    /\ peer = [p \in Peer |-> NoPeer] /\ attachments = [g \in Grant |-> {}]
    /\ turn = Asleep /\ leak = FALSE

TurnStep == \/ \E p \in Peer : Accept(p) \/ Attach(p) \/ AttachRefused(p) \/ Serve(p) \/ Closed(p)
                              \/ PassOver(p)
            \/ (\E g \in Grant : TakeGrant(g) \/ AcceptedAll(g)) \/ TurnEnds
RequestStep == (\E g \in Grant : OpenGrant(g) \/ RevokeGrant(g)) \/ OtherRequest
SharingNext ==
    \/ \E p \in Peer : (\E g \in Grant : Connect(p, g)) \/ (\E f \in Frames : SendFrame(p, f)) \/ HangUp(p)
    \/ Pass \/ TurnIsLate \/ Restart
    \/ Ask("open") \/ Ask("revoke")
    \/ \E g \in Grant : ListenerFails(g)
    \/ TurnStep \/ RequestStep

\* The dispatch thread runs on; nothing is assumed of peers.
SharingSpec == SharingInit /\ [][SharingNext]_sharingVars
               /\ WF_sharingVars(TurnStep) /\ WF_sharingVars(RequestStep)

----------------------------------------------------------------------------
(* Properties *)

\* A projection is served only for the granted task, while the row is open and its
\* time has not passed: revoke and expiry refuse a request before any method body
\* runs (sharing.rs, its head).
NothingAfterTheGrant == ~leak

\* The live surface never outlives its row: a surface that accepts stands on an open
\* row (revoke_sharing_grant, ensure_live, LiveGrant::serve).
SurfaceStandsOnRow == \A g \in Grant : surface[g] = "open" => row[g] = "open"

\* The attachments of a grant are those its live connections hold, so the set is
\* bounded by them (pump, answer).
AttachmentsHeld ==
    \A g \in Grant : /\ attachments[g] = {peer[p].id : p \in Connected(g)} \ {0}
                     /\ Cardinality(Connected(g)) <= MAX_CONNECTIONS

\* A peer that keeps feeding frames cannot starve a queued revoke: what is asked is
\* answered (ServeTurn).
RequestsAreServed == turn.request = "revoke" ~> turn.request = "none"

\* The sharing server as a whole: nothing is served after its grant ended, a surface stands
\* on its row, and the attachments are those of live connections.
SharingIsGranted == NothingAfterTheGrant /\ SurfaceStandsOnRow /\ AttachmentsHeld
=============================================================================
