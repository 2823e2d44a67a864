---------------------------- MODULE DecisionCard ----------------------------
(***************************************************************************)
(* The terminal loop (ui.rs): one pass polls the store for the question of *)
(* the pending task, paints, reads at most one key and polls the one send  *)
(* window.  An answer is committed on a thread that takes the runtime with *)
(* it and hands it back through a channel of one place.                    *)
(*                                                                         *)
(* A key remembers which question was on the screen when it was pressed;   *)
(* the terminal queues it, so it may be read passes later.  The option     *)
(* rows are one that can be chosen, one that is disabled, and the custom   *)
(* row.  Layout, scrolling and the permission panel, which no code opens   *)
(* yet, are left out; the terminal always has room for the card.           *)
(***************************************************************************)
EXTENDS Naturals, Sequences

CONSTANTS
    MaxQuestions,           \* bound on the questions asked
    MaxKeys,                \* bound on the keys pressed
    PRE_PAINT_DRAIN_CAP     \* keys dropped after a card's first frame

ASSUME DecisionCardAssumption ==
    {MaxQuestions, MaxKeys, PRE_PAINT_DRAIN_CAP} \subseteq Nat

VARIABLES
    cardPhase,       \* "top" | "drain" | "input" | "window" | "closing" | "over"
    asking,      \* the pending question of the pending task in the store, or 0
    asked,       \* questions asked so far
    hasTask,     \* pending_task.is_some()
    keys,        \* the terminal's queue of keys
    pressed,     \* keys pressed so far
    inLoop,      \* tui_dispatch.is_some(): the loop holds the runtime
    card,        \* the decision card, or NoCard
    screen,      \* the question visible on the screen, or 0
    dismissed,   \* decision_dismissed
    composer,    \* the composer holds text
    send,        \* the send window: "none" | "committing" | "answered" | "dead"
    sending,     \* the card the send thread took, with the key that sent it
    cancelling,  \* cancel_requested
    consents     \* the questions settled or dismissed, with the keys' aims

cardVars == <<cardPhase, asking, asked, hasTask, keys, pressed, inLoop, card, screen,
              dismissed, composer, send, sending, cancelling, consents>>

Keystroke == {"enter", "esc", "ctrlc", "shift", "text"}
Rows == <<"option", "disabled", "custom">>

NoCard == [q |-> 0, row |-> 1, editing |-> FALSE, draft |-> FALSE, shown |-> "unseen"]

(* DecisionPanel::new.  `shown` is the consent clock: unseen, just painted, *)
(* or painted DECISION_CONSENT_DELAY ago.                                   *)
NewPanel(q) == [NoCard EXCEPT !.q = q]
ConsentAdmitted == card.shown = "settled"
ShiftFocus(c) == [c EXCEPT !.row = (@ % Len(Rows)) + 1]
NoteFirstPaint(c) ==
    IF c.q # 0 /\ c.shown = "unseen" THEN [c EXCEPT !.shown = "fresh"] ELSE c

CardInit ==
    /\ cardPhase = "top" /\ asking = 0 /\ asked = 0 /\ hasTask = FALSE
    /\ keys = <<>> /\ pressed = 0 /\ inLoop \in BOOLEAN
    /\ card = NoCard /\ screen = 0 /\ dismissed = 0 /\ composer = FALSE
    /\ send = "none" /\ sending = [q |-> 0, aim |-> 0] /\ cancelling = FALSE
    /\ consents = {}

-----------------------------------------------------------------------------
(* What happens around the loop.                                           *)

Press(k) ==
    /\ cardPhase # "over" /\ pressed < MaxKeys
    /\ pressed' = pressed + 1
    /\ keys' = Append(keys, [key |-> k, aim |-> screen])
    /\ UNCHANGED <<cardPhase, asking, asked, hasTask, inLoop, card, screen, dismissed,
                   composer, send, sending, cancelling, consents>>

DelayPasses ==
    /\ card.shown = "fresh"
    /\ card' = [card EXCEPT !.shown = "settled"]
    /\ UNCHANGED <<cardPhase, asking, asked, hasTask, keys, pressed, inLoop, screen,
                   dismissed, composer, send, sending, cancelling, consents>>

NextQuestion == IF asked < MaxQuestions THEN {0, asked + 1} ELSE {0}
Asks(q) == /\ asking' = q
           /\ asked' = IF q = 0 THEN asked ELSE q

(* Another surface answers the question or its task asks a newer one.      *)
QuestionMoves ==
    /\ cardPhase # "over" /\ hasTask
    /\ \E q \in NextQuestion : q # asking /\ Asks(q)
    /\ UNCHANGED <<cardPhase, hasTask, keys, pressed, inLoop, card, screen, dismissed,
                   composer, send, sending, cancelling, consents>>

(* The send thread: commit_answer pins the question the card showed; the   *)
(* resume drains the scheduler, which may ask again.                       *)
CommitAnswer ==
    /\ send = "committing"
    /\ IF asking = sending.q
       THEN /\ \E q \in NextQuestion : Asks(q)
            /\ consents' = consents \cup {sending}
       ELSE UNCHANGED <<asking, asked, consents>>
    /\ send' = "answered"
    /\ UNCHANGED <<cardPhase, hasTask, keys, pressed, inLoop, card, screen, dismissed,
                   composer, sending, cancelling>>

SendThreadDies ==
    /\ send = "committing"
    /\ send' = "dead"
    /\ UNCHANGED <<cardPhase, asking, asked, hasTask, keys, pressed, inLoop, card, screen,
                   dismissed, composer, sending, cancelling, consents>>

-----------------------------------------------------------------------------
(* One pass: the poll of the store, then the frame.                        *)

MovedWithoutRuntime == ~inLoop \/ asking # card.q
QuestionMoved == inLoop /\ asking # card.q

PollQuestion ==
    IF card.q # 0 THEN IF QuestionMoved THEN NoCard ELSE card
    ELSE IF hasTask /\ inLoop /\ asking # 0 /\ dismissed # asking
         THEN NewPanel(asking) ELSE NoCard

CardOpened == card.q = 0 /\ PollQuestion.q # 0

(* every way out of the loop that calls close_window                       *)
LeaveAtOnce == cardPhase' = "over"
Leave == cardPhase' = IF send = "none" THEN "over" ELSE "closing"

Paint ==
    /\ cardPhase = "top"
    /\ \/ /\ card' = NoteFirstPaint(PollQuestion)
          /\ screen' = PollQuestion.q
          /\ cardPhase' = IF CardOpened THEN "drain" ELSE "input"
       \/ /\ card' = PollQuestion /\ UNCHANGED screen
          /\ Leave
    /\ dismissed' = IF CardOpened THEN 0 ELSE dismissed
    /\ UNCHANGED <<asking, asked, hasTask, keys, pressed, inLoop, composer, send,
                   sending, cancelling, consents>>

DrainedNever == keys
Drained == SubSeq(keys, PRE_PAINT_DRAIN_CAP + 1, Len(keys))

DrainKeys ==
    /\ cardPhase = "drain" /\ cardPhase' = "input"
    /\ keys' = Drained
    /\ UNCHANGED <<asking, asked, hasTask, pressed, inLoop, card, screen, dismissed,
                   composer, send, sending, cancelling, consents>>

-----------------------------------------------------------------------------
(* The key read in this pass.                                              *)

SendInFlight == send # "none"
Continue == cardPhase' = "top"
Still == UNCHANGED <<asking, asked, hasTask, pressed, screen, sending>>
Reads(k) == cardPhase = "input" /\ keys # <<>> /\ Head(keys).key = k /\ keys' = Tail(keys)
Aim == Head(keys).aim

(* Esc and Ctrl-C while a send is in flight only request the cancel.       *)
CancelKey ==
    /\ SendInFlight /\ \E k \in {"esc", "ctrlc"} : Reads(k)
    /\ cancelling' = TRUE /\ Continue
    /\ Still /\ UNCHANGED <<inLoop, card, dismissed, composer, send, consents>>

(* Before the consent delay Enter and Esc settle nothing.                  *)
Unaimed(k) == k \in {"enter", "esc"} /\ ~ConsentAdmitted
CardTakes(k) == card.q # 0 /\ Reads(k) /\ ~(SendInFlight /\ k \in {"esc", "ctrlc"})

UnaimedConsent ==
    /\ \E k \in {"enter", "esc"} : CardTakes(k) /\ Unaimed(k)
    /\ Continue
    /\ Still /\ UNCHANGED <<inLoop, card, dismissed, composer, send, cancelling, consents>>

(* Focus moves, also while a send is in flight; editing takes the key.     *)
CardNavigation ==
    /\ \E k \in Keystroke :
         /\ CardTakes(k) /\ ~Unaimed(k)
         /\ (SendInFlight \/ k = "shift")
         /\ card' = IF k = "shift" /\ (SendInFlight \/ ~card.editing)
                    THEN ShiftFocus(card) ELSE card
    /\ Continue
    /\ Still /\ UNCHANGED <<inLoop, dismissed, composer, send, cancelling, consents>>

(* decision_commit: what Enter does on the focused row.                    *)
Commit == CASE Rows[card.row] = "option"   -> "send"
            [] Rows[card.row] = "disabled" -> "refused"
            [] card.draft                  -> "send"
            [] OTHER                       -> "edit"

StartSend ==
    /\ CardTakes("enter") /\ ConsentAdmitted /\ ~SendInFlight /\ ~card.editing
    /\ Commit = "send"
    /\ inLoop' = FALSE
    /\ \/ send' = "committing" /\ Continue
       \/ send' = send /\ LeaveAtOnce         \* the thread could not start
    /\ sending' = [q |-> card.q, aim |-> Aim]
    /\ UNCHANGED <<asking, asked, hasTask, pressed, screen, card, dismissed, composer,
                   cancelling, consents>>

HandleDecisionEnter ==
    /\ CardTakes("enter") /\ ConsentAdmitted /\ ~SendInFlight
    /\ (card.editing \/ Commit # "send")
    /\ card' = IF ~card.editing /\ Commit = "edit" THEN [card EXCEPT !.editing = TRUE] ELSE card
    /\ Continue
    /\ Still /\ UNCHANGED <<inLoop, dismissed, composer, send, cancelling, consents>>

HandleDecisionEsc ==
    /\ CardTakes("esc") /\ ConsentAdmitted /\ ~SendInFlight
    /\ IF card.editing
       THEN card' = [card EXCEPT !.editing = FALSE] /\ UNCHANGED <<dismissed, consents>>
       ELSE /\ card' = NoCard /\ dismissed' = card.q
            /\ consents' = consents \cup {[q |-> card.q, aim |-> Aim]}
    /\ Continue
    /\ Still /\ UNCHANGED <<inLoop, composer, send, cancelling>>

HandleDecisionText ==
    /\ CardTakes("text") /\ ~SendInFlight
    /\ card' = IF card.editing THEN [card EXCEPT !.draft = TRUE] ELSE card
    /\ Continue
    /\ Still /\ UNCHANGED <<inLoop, dismissed, composer, send, cancelling, consents>>

(* Ctrl-C with or without a card, and Esc with none, end the loop.         *)
EndKey ==
    /\ ~SendInFlight
    /\ \/ Reads("ctrlc")
       \/ Reads("esc") /\ card.q = 0
    /\ Leave
    /\ Still /\ UNCHANGED <<inLoop, card, dismissed, composer, send, cancelling, consents>>

(* The composer, when no card is up: text, and Enter on it runs a command  *)
(* through ensure_dispatch, which opens a runtime if the loop has none.    *)
ComposerText ==
    /\ card.q = 0 /\ \E k \in {"text", "shift"} : Reads(k) /\ composer' = (composer \/ k = "text")
    /\ cardPhase' = "window"
    /\ Still /\ UNCHANGED <<inLoop, card, dismissed, send, cancelling, consents>>

RunComposerCommand ==
    /\ card.q = 0 /\ Reads("enter")
    /\ composer' = FALSE
    /\ \/ /\ ~composer /\ cardPhase' = "window"
          /\ UNCHANGED <<asking, asked, hasTask, inLoop>>
       \/ /\ composer /\ cardPhase' = "window" /\ inLoop' \in {TRUE, inLoop}
          /\ UNCHANGED <<asking, asked, hasTask>>                  \* /help, /clear, /login...
       \/ /\ composer /\ cardPhase' = "window" /\ inLoop' = TRUE
          /\ hasTask' = FALSE /\ asking' = 0 /\ UNCHANGED asked    \* /new
       \/ /\ composer /\ cardPhase' = "window" /\ inLoop' = TRUE
          /\ hasTask' = TRUE /\ \E q \in NextQuestion : Asks(q)    \* a goal is submitted
       \/ /\ composer /\ LeaveAtOnce                               \* a fault
          /\ UNCHANGED <<asking, asked, hasTask, inLoop>>
    /\ UNCHANGED <<pressed, screen, sending, card, dismissed, send, cancelling, consents>>

NoKey ==
    /\ cardPhase = "input" /\ UNCHANGED keys
    /\ \/ keys = <<>> /\ cardPhase' = "window"
       \/ Leave                                 \* poll or read fails
    /\ Still /\ UNCHANGED <<inLoop, card, dismissed, composer, send, cancelling, consents>>

-----------------------------------------------------------------------------
(* The window at the end of the pass, and the wait for it on the way out.  *)

WindowPollNoHangup == IF send = "answered" THEN "done" ELSE "running"
WindowPoll == CASE send = "answered" -> "done"
                [] send = "dead"     -> "failed"
                [] OTHER             -> "running"

PollWindow ==
    /\ cardPhase = "window"
    /\ CASE WindowPoll = "done" ->
              /\ send' = "none" /\ inLoop' = TRUE /\ card' = NoCard
              /\ cardPhase' = IF cancelling THEN "over" ELSE "top"
         [] WindowPoll = "failed" ->
              /\ send' = "none" /\ card' = NoCard /\ cardPhase' = "over" /\ UNCHANGED inLoop
         [] OTHER -> Continue /\ UNCHANGED <<send, inLoop, card>>
    /\ Still /\ UNCHANGED <<keys, dismissed, composer, cancelling, consents>>

CloseWindow ==
    /\ cardPhase = "closing" /\ send \in {"answered", "dead"}
    /\ send' = "none" /\ inLoop' = (send = "answered") /\ cardPhase' = "over"
    /\ Still /\ UNCHANGED <<keys, card, dismissed, composer, cancelling, consents>>

CardOver == cardPhase = "over" /\ UNCHANGED cardVars

LoopStep == \/ Paint \/ DrainKeys \/ CancelKey \/ UnaimedConsent \/ CardNavigation
            \/ StartSend \/ HandleDecisionEnter \/ HandleDecisionEsc \/ HandleDecisionText
            \/ EndKey \/ ComposerText \/ RunComposerCommand \/ NoKey
            \/ PollWindow \/ CloseWindow
SendThreadStep == CommitAnswer \/ SendThreadDies

CardNext == \/ LoopStep \/ SendThreadStep \/ DelayPasses \/ QuestionMoves
            \/ \E k \in Keystroke : Press(k)
            \/ CardOver

(* The loop never stops running passes and the send thread is scheduled.   *)
CardSpec == CardInit /\ [][CardNext]_cardVars
            /\ WF_cardVars(LoopStep) /\ WF_cardVars(SendThreadStep)

-----------------------------------------------------------------------------
(* A question is answered or dismissed only by a key pressed while that     *)
(* very question was on the screen: a key queued before the card's frame    *)
(* consents to nothing (DecisionPanel, the drain after the first frame).    *)
ConsentWasAimed == \A c \in consents : c.aim = c.q

(* The runtime has one holder: no composer command opens a second runtime   *)
(* while the send thread, or its channel, still holds the first, and the    *)
(* loop is never over with a send left running (close_window).              *)
OneRuntime ==
    /\ send \in {"committing", "answered"} => ~inLoop
    /\ cardPhase = "over" => send = "none"

(* A send that was started is settled: its window closes or the loop waits  *)
(* it out, whatever keys arrive meanwhile.                                  *)
WindowCloses == (send # "none") ~> (send = "none")

\* The decision card as a whole: an answer was aimed at the question it answers, and one
\* runtime serves the screen.
ConsentIsReal == ConsentWasAimed /\ OneRuntime
=============================================================================
