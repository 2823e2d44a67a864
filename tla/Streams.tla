------------------------------ MODULE Streams -------------------------------
(***************************************************************************)
(* The streaming decoders of the provider adapters: what turns the events  *)
(* of one response into a reply or a typed failure.  Six dialects under    *)
(* src/src/providers: chat (local.rs), responses (openai.rs), messages     *)
(* (anthropic.rs), gemini (gemini.rs), converse (bedrock.rs) and ollama    *)
(* (ollama_cloud.rs).  The peer sends any sequence of the events its       *)
(* dialect has, and the connection may end after any of them.              *)
(***************************************************************************)
EXTENDS Integers, Sequences, FiniteSets, SequencesExt

CONSTANTS
    Dialect,         \* the dialects of the run
    MaxEvents(_),    \* bound: events of a stream, by dialect
    MAX_TOOL_CALLS   \* tool calls of one stream

VARIABLES
    dialect,  \* the dialect of this stream
    sent,     \* the events the peer has sent, in order
    st,       \* the decoder's StreamState
    outcome,  \* "open", "failed" or "replied"
    reply     \* the tool calls of the reply
streamVars == <<dialect, sent, st, outcome, reply>>

NoIndex == -1
NoId == "none"
Call(at, id, named) == [k |-> "call", at |-> at, id |-> id, named |-> named]
Ev(k) == [k |-> k]
At(k, i) == [k |-> k, at |-> i]
How(k, how) == [k |-> k, how |-> how]

\* The events of a dialect.  A "call", "delta" or "whole" event carries a
\* piece of a tool call's arguments: the number of the event itself.
Events(d) ==
    CASE d = "chat" ->
           {Call(at, id, TRUE) : at \in {NoIndex, 0, 1}, id \in {NoId, "x", "y"}}
           \cup {Call(0, NoId, FALSE), Ev("batched"), Ev("text"), Ev("done"), Ev("error"), Ev("usage")}
           \cup {How("finish", how) : how \in {"ok", "failed", "odd"}}
      [] d = "responses" ->
           {Ev("added"), Ev("item"), Ev("error")}
           \cup {How("completed", how) : how \in {"ok", "failed", "odd", "open_item", "bad_usage"}}
      [] d = "messages" ->
           {Ev("start"), Ev("text"), Ev("stop"), Ev("error"), Ev("foreign")}
           \cup {How("reason", how) : how \in {"ok", "tool_use", "odd"}}
           \cup {At(k, i) : k \in {"tool", "thinking", "delta", "signature", "close"}, i \in {0, 1}}
      [] d = "gemini" ->
           {Ev("whole"), Ev("text"), Ev("error"), Ev("blocked"), Ev("undeclared")}
           \cup {How("finish", how) : how \in {"ok", "failed", "odd"}}
      [] d = "converse" ->
           {Ev("text"), Ev("metadata"), Ev("error")}
           \cup {How("finish", how) : how \in {"ok", "tool_use", "odd"}}
           \cup {At(k, i) : k \in {"tool", "delta", "close"}, i \in {0, 1}}
      [] OTHER ->
           {Ev("whole"), Ev("text"), Ev("error"), Ev("partial")}
           \cup {How("finish", how) : how \in {"ok", "failed", "odd"}}

\* StreamState: the terminal and the [DONE] sentinel, the blocks that are
\* open (chat: every block), the calls finished, the message started, the
\* stop reason, and the items open in a responses stream.
FreshState == [terminal |-> "none", done |-> FALSE, blocks |-> << >>, calls |-> << >>,
          started |-> FALSE, open |-> 0]

StreamInit == dialect \in Dialect /\ sent = << >> /\ st = FreshState /\ outcome = "open" /\ reply = << >>

Fail == outcome' = "failed" /\ UNCHANGED st
Becomes(s) == st' = s /\ UNCHANGED outcome
Piece == Len(sent) + 1

\* Mutant: a later terminal replaces an earlier one.
SetTerminalAgain(t) == Becomes([st EXCEPT !.terminal = t])
\* set_terminal: a second terminal is a violation.
SetTerminal(t) == IF st.terminal # "none" THEN Fail ELSE Becomes([st EXCEPT !.terminal = t])

----------------------------------------------------------------------------
\* chat: on_tool_call_entry.  The entry's block is the one of its index, else
\* the last one with its id, else the last one.
HasId(b, id) == id # NoId /\ st.blocks[b].id = id
LastOr(S, none) == IF S = {} THEN none ELSE CHOOSE b \in S : \A c \in S : c <= b
\* Mutant: an index is looked for among the ids only.
PositionById(e) ==
    LastOr({b \in DOMAIN st.blocks : e.id = NoId \/ st.blocks[b].id = e.id}, Len(st.blocks) + 1)
Position(e) ==
    CASE e.at # NoIndex -> LastOr({b \in DOMAIN st.blocks : st.blocks[b].at = e.at}, Len(st.blocks) + 1)
      [] e.id # NoId -> LastOr({b \in DOMAIN st.blocks : HasId(b, e.id)}, Len(st.blocks) + 1)
      [] OTHER -> IF st.blocks = << >> THEN 1 ELSE Len(st.blocks)

OnToolCallEntry(e) ==
    LET p == Position(e)
        fresh == [at |-> e.at, id |-> NoId, named |-> FALSE, args |-> << >>]
        blocks == IF p > Len(st.blocks) THEN Append(st.blocks, fresh) ELSE st.blocks
        b == blocks[p]
    IN  IF \/ Len(blocks) > MAX_TOOL_CALLS
           \/ e.id # NoId /\ b.id \notin {NoId, e.id}
           \/ e.id # NoId /\ b.id = NoId /\ \E q \in DOMAIN st.blocks : q # p /\ HasId(q, e.id)
        THEN Fail
        ELSE Becomes([st EXCEPT !.blocks = [blocks EXCEPT ![p] =
               [b EXCEPT !.id = IF e.id = NoId THEN b.id ELSE e.id,
                         !.named = b.named \/ e.named,
                         !.args = Append(@, Piece)]]])

\* on_chunk: nothing but [DONE] once, nothing of a choice after the terminal.
OnChat(e) ==
    CASE e.k = "done" -> IF st.done THEN Fail ELSE Becomes([st EXCEPT !.done = TRUE])
      [] e.k # "done" /\ st.done -> Fail
      [] e.k = "error" /\ ~st.done -> SetTerminal("failed")
      [] e.k = "usage" /\ ~st.done -> Becomes(st)
      [] e.k \in {"text", "call", "batched", "finish"} /\ ~st.done ->
           IF st.terminal # "none" \/ e.k = "batched" THEN Fail
           ELSE CASE e.k = "call" -> OnToolCallEntry(e)
                  [] e.k = "finish" -> SetTerminal(e.how)
                  [] OTHER -> Becomes(st)

\* responses: on_event, with the terminal's own payload.
OnResponses(e) ==
    CASE e.k = "added" -> Becomes([st EXCEPT !.open = @ + 1])
      [] e.k = "item" -> IF st.open = 0 THEN Fail ELSE Becomes([st EXCEPT !.open = @ - 1])
      [] e.k = "error" -> SetTerminal("failed")
      [] OTHER -> IF e.how = "odd" THEN Fail ELSE SetTerminal(e.how)

----------------------------------------------------------------------------
\* messages and converse: a block is started, extended and stopped by index.
Opened(i) == {b \in DOMAIN st.blocks : st.blocks[b].at = i}
Without(i) == SelectSeq(st.blocks, LAMBDA b : b.at # i)
StartBlock(kind, i) ==
    IF Opened(i) # {} THEN Fail
    ELSE Becomes([st EXCEPT !.blocks =
           Append(@, [at |-> i, kind |-> kind, args |-> << >>, signed |-> FALSE])])
Extend(e) ==
    IF Opened(e.at) = {} THEN Fail
    ELSE LET b == CHOOSE x \in Opened(e.at) : TRUE
         IN  IF e.k = "signature"
             THEN IF st.blocks[b].kind # "thinking" THEN Fail
                  ELSE Becomes([st EXCEPT !.blocks[b].signed = TRUE])
             ELSE IF st.blocks[b].kind # "tool" THEN Fail
                  ELSE Becomes([st EXCEPT !.blocks[b].args = Append(@, Piece)])
\* on_content_block_stop: a thinking block without its signature is refused.
CloseBlock(i) ==
    IF Opened(i) = {} THEN Fail
    ELSE LET b == st.blocks[CHOOSE x \in Opened(i) : TRUE]
         IN  IF b.kind = "tool"
             THEN Becomes([st EXCEPT !.blocks = Without(i), !.calls = Append(@, b.args)])
             ELSE IF b.signed THEN Becomes([st EXCEPT !.blocks = Without(i)]) ELSE Fail

OnMessages(e) ==
    IF st.done \/ e.k \in {"error", "foreign"} THEN Fail
    ELSE CASE e.k = "start" -> IF st.started THEN Fail ELSE Becomes([st EXCEPT !.started = TRUE])
           [] e.k \in {"tool", "thinking"} ->
                IF st.started THEN StartBlock(e.k, e.at) ELSE Fail
           [] e.k \in {"delta", "signature"} -> Extend(e)
           [] e.k = "close" -> CloseBlock(e.at)
           [] e.k = "reason" -> Becomes([st EXCEPT !.terminal = e.how])
           [] e.k = "stop" -> IF st.blocks # << >> THEN Fail ELSE Becomes([st EXCEPT !.done = TRUE])
           [] e.k = "text" -> IF st.started THEN Becomes(st) ELSE Fail

OnConverse(e) ==
    IF e.k = "error" \/ (st.terminal # "none" /\ e.k # "metadata") THEN Fail
    ELSE CASE e.k = "tool" -> StartBlock("tool", e.at)
           [] e.k = "delta" -> Extend(e)
           [] e.k = "close" -> CloseBlock(e.at)
           [] e.k = "finish" -> IF e.how = "odd" THEN Fail ELSE SetTerminal(e.how)
           [] e.k \in {"metadata", "text"} -> Becomes(st)

----------------------------------------------------------------------------
\* gemini: on_chunk and on_part.  A part is whole.
OnGemini(e) ==
    CASE e.k \in {"error", "blocked"} -> SetTerminal("failed")
      [] e.k \in {"whole", "text", "undeclared", "finish"} ->
           IF st.terminal # "none" \/ e.k = "undeclared" THEN Fail
           ELSE CASE e.k = "whole" -> Becomes([st EXCEPT !.calls = Append(@, <<Piece>>)])
                  [] e.k = "finish" -> SetTerminal(e.how)
                  [] OTHER -> Becomes(st)

\* ollama: on_frame.  Reading stops at the terminal frame.
OnOllama(e) ==
    IF e.k = "partial" THEN Becomes([st EXCEPT !.open = 1])
    ELSE IF st.open = 1 THEN Fail
    ELSE CASE e.k = "whole" ->
                IF Len(st.calls) >= MAX_TOOL_CALLS THEN Fail
                ELSE Becomes([st EXCEPT !.calls = Append(@, <<Piece>>)])
           [] e.k = "error" -> Becomes([st EXCEPT !.terminal = "failed"])
           [] e.k = "finish" -> Becomes([st EXCEPT !.terminal = e.how])
           [] OTHER -> Becomes(st)
Reading == dialect = "ollama" => st.terminal = "none"

\* read_stream: one event of the dialect's parser.
Receive(e) ==
    /\ outcome = "open" /\ Reading /\ Len(sent) < MaxEvents(dialect)
    /\ sent' = Append(sent, e) /\ UNCHANGED <<dialect, reply>>
    /\ CASE dialect = "chat" -> OnChat(e)
         [] dialect = "responses" -> OnResponses(e)
         [] dialect = "messages" -> OnMessages(e)
         [] dialect = "gemini" -> OnGemini(e)
         [] dialect = "converse" -> OnConverse(e)
         [] OTHER -> OnOllama(e)

Replies(calls) == outcome' = "replied" /\ reply' = calls
Refuses == outcome' = "failed" /\ UNCHANGED reply

\* Mutant: a stream is complete when its terminal was seen, whatever is open.
WholeTerminal == TRUE
\* The end of the stream finds nothing half sent.
Whole ==
    CASE dialect \in {"messages", "converse"} -> st.blocks = << >>
      [] dialect = "responses" -> st.open = 0
      [] OTHER -> st.open = 0

\* complete: every chat block has a name.
ChatCalls == [b \in DOMAIN st.blocks |-> st.blocks[b].args]
ChatNamed == \A b \in DOMAIN st.blocks : st.blocks[b].named

Succeeded ==
    CASE dialect = "chat" -> st.terminal = "ok" \/ (st.terminal = "none" /\ st.done)
      [] dialect = "messages" -> /\ st.done /\ st.terminal \in {"ok", "tool_use"}
                                 /\ st.terminal = "tool_use" => st.calls # << >>
      [] dialect = "converse" -> /\ st.terminal \in {"ok", "tool_use"}
                                 /\ (st.terminal = "tool_use") = (st.calls # << >>)
      [] OTHER -> st.terminal = "ok"

\* The connection ends, or the peer's terminal frame ended the reading.
Ends ==
    /\ outcome = "open" /\ UNCHANGED <<dialect, sent, st>>
    /\ IF ~Whole \/ ~Succeeded THEN Refuses
       ELSE IF dialect = "chat" THEN IF ChatNamed THEN Replies(ChatCalls) ELSE Refuses
       ELSE Replies(st.calls)

StreamNext == (\E e \in Events(dialect) : Receive(e)) \/ Ends

----------------------------------------------------------------------------
Replied == outcome = "replied"
StreamEnded(e) ==
    \/ e.k \in {"done", "stop"} \/ (e.k \in {"finish", "completed"} /\ e.how \in {"ok", "tool_use"})
Failed(e) ==
    \/ e.k \in {"error", "blocked", "foreign", "undeclared", "batched", "partial"}
    \/ e.k \in {"finish", "completed"} /\ e.how \notin {"ok", "tool_use"}
Trailing == {"done", "usage", "metadata"}

\* A reply is given only for a response the peer itself finished: its end was
\* received, no failure was, and after the end came nothing of the message.
\* A connection that dropped half-way, a second end or a late failure is an
\* error, never an answer.
ReplyIsFinished ==
    Replied =>
        /\ \E i \in DOMAIN sent : StreamEnded(sent[i])
        /\ \A i \in DOMAIN sent : ~Failed(sent[i])
        /\ \A i, j \in DOMAIN sent :
              (i < j /\ StreamEnded(sent[i])) =>
                 sent[j].k \in Trailing \cup (IF dialect = "responses" THEN {"added", "item"} ELSE {})

Pieces(S) == {i \in DOMAIN sent : sent[i].k \in S}
OpenArgs == [b \in DOMAIN st.blocks |-> st.blocks[b].args]
Gathered == IF Replied THEN reply ELSE st.calls \o OpenArgs
CallOf(i) == {c \in DOMAIN Gathered : \E j \in DOMAIN Gathered[c] : Gathered[c][j] = i}
SameBlock(i, j) ==
    /\ sent[i].at = sent[j].at
    /\ ~\E x \in i .. j : sent[x] = At("close", sent[i].at)

\* Every piece of a tool call's arguments the peer sent is in exactly one call,
\* of the stream so far and of the reply, in order, and two pieces the peer addressed to different
\* calls (other index, other id, other block) never meet in one.
PiecesInPlace ==
    outcome # "failed" =>
        LET pieces == Pieces({"call", "delta", "whole"})
        IN  /\ \A i \in pieces : Cardinality(CallOf(i)) = 1
            /\ \A c \in DOMAIN Gathered : \A j \in 1 .. Len(Gathered[c]) - 1 :
                 Gathered[c][j] < Gathered[c][j + 1]
            /\ \A i, j \in Pieces({"call"}) :
                 /\ (/\ sent[i].at # NoIndex /\ sent[j].at # NoIndex)
                    => ((CallOf(i) = CallOf(j)) = (sent[i].at = sent[j].at))
                 /\ (NoId \notin {sent[i].id, sent[j].id} /\ sent[i].id # sent[j].id)
                    => CallOf(i) # CallOf(j)
            /\ \A i, j \in Pieces({"delta"}) :
                 i < j => ((CallOf(i) = CallOf(j)) = SameBlock(i, j))

-----------------------------------------------------------------------------
(***************************************************************************)
(* The two bounded stream framers of the provider adapters: SseParser of   *)
(* src/src/providers/sse.rs and EventStreamDecoder of                      *)
(* src/src/providers/eventstream.rs.  The peer's bytes arrive cut into     *)
(* chunks at any place: inside a line end, a byte order mark, a prelude.   *)
(* What a framer yields is compared with a definition over the whole       *)
(* input, which knows nothing of chunks.                                   *)
(*                                                                         *)
(* The bytes of an SSE stream are "d" (a byte of a data line), "c" (the    *)
(* colon that makes a line a comment), the two line ends, and the two      *)
(* bytes "b1", "b2" that stand for the mark.  A message of an event stream *)
(* is its total length, the length of its headers, and the rest.           *)
(***************************************************************************)

CONSTANTS
    MaxInput,                     \* bound: bytes of an SSE stream
    MaxFrames,                    \* bound: bytes of an event stream
    MAX_LINE_BYTES, MAX_DATA_BYTES,
    MAX_EVENTSTREAM_FRAME_BYTES, MAX_EVENTSTREAM_BYTES

BOM == <<"b1", "b2">>
PRELUDE == 2

VARIABLES
    format,   \* "sse" or "frames"
    input,    \* all the peer sends
    fed,      \* how much of it has arrived
    parser,   \* [buf, scanned, bom, data, comment]: the framer's state
    yielded,  \* the events so far
    ended     \* "no", "eof" or "error"
framingVars == <<format, input, fed, parser, yielded, ended>>

NewParser == [buf |-> << >>, scanned |-> 0, bom |-> TRUE, data |-> << >>]

FramingInit ==
    /\ \/ format = "sse" /\ input \in BoundedSeq({"d", "c", "cr", "lf", "b1", "b2"}, MaxInput)
       \/ format = "frames" /\ input \in BoundedSeq(0 .. 5, MaxFrames)
    /\ fed = 0 /\ parser = NewParser /\ yielded = << >> /\ ended = "no"

----------------------------------------------------------------------------
\* Block::line: a blank line dispatches what data there is, a colon first is
\* a comment, anything else is a data field.  A data field adds its line feed.
LineError(line, data) ==
    \/ Len(line) > MAX_LINE_BYTES
    \/ line # << >> /\ line[1] # "c" /\ Len(data) + Len(line) + 1 > MAX_DATA_BYTES
LineData(line, data) ==
    CASE line = << >> -> << >> [] line # << >> /\ line[1] = "c" -> data
      [] OTHER -> data \o Append(line, "lf")
LineEvents(line, data, events) ==
    IF line = << >> /\ data # << >> THEN Append(events, Front(data)) ELSE events

IsEnd(b) == b \in {"cr", "lf"}
FirstEnd(buf, from) ==
    LET S == {i \in from + 1 .. Len(buf) : IsEnd(buf[i])}
    IN  IF S = {} THEN 0 ELSE CHOOSE i \in S : \A j \in S : i <= j
Drop(s, n) == SubSeq(s, n + 1, Len(s))

\* Mutant: a carriage return ends its line without waiting for its pair.
HoldsNever(buf, at, eof) == FALSE
\* pump: a trailing CR waits for a line feed, unless the stream has ended.
HeldCr(buf, at, eof) == buf[at] = "cr" /\ at = Len(buf) /\ ~eof

\* The line loop of pump over p.buf: [parser, events, bad].
RECURSIVE Lines(_, _, _)
Lines(p, events, eof) ==
    LET at == FirstEnd(p.buf, p.scanned)
    IN  IF at = 0
        THEN [p |-> [p EXCEPT !.scanned = Len(p.buf)], e |-> events, bad |-> Len(p.buf) > MAX_LINE_BYTES]
        ELSE IF HeldCr(p.buf, at, eof)
        THEN [p |-> [p EXCEPT !.scanned = at - 1], e |-> events, bad |-> at - 1 > MAX_LINE_BYTES]
        ELSE LET line == SubSeq(p.buf, 1, at - 1)
                 width == IF p.buf[at] = "cr" /\ at < Len(p.buf) /\ p.buf[at + 1] = "lf" THEN 2 ELSE 1
             IN  IF LineError(line, p.data) THEN [p |-> p, e |-> events, bad |-> TRUE]
                 ELSE Lines([p EXCEPT !.buf = Drop(@, at - 1 + width), !.scanned = 0,
                                      !.data = LineData(line, p.data)],
                            LineEvents(line, p.data, events), eof)

\* Mutant: a mark cut by a chunk is not waited for.
WaitsNever(p, eof) == FALSE
\* pump: a strict prefix of the mark waits for the rest.
WaitsForBom(p, eof) ==
    p.bom /\ p.buf # << >> /\ Len(p.buf) < Len(BOM) /\ IsPrefix(p.buf, BOM) /\ ~eof

PumpSse(p, eof) ==
    IF WaitsForBom(p, eof) THEN [p |-> p, e |-> << >>, bad |-> FALSE]
    ELSE Lines(IF p.bom
               THEN [p EXCEPT !.bom = FALSE, !.scanned = 0,
                              !.buf = IF IsPrefix(BOM, @) THEN Drop(@, Len(BOM)) ELSE @]
               ELSE p, << >>, eof)

\* feed: the line the chunk completes is bounded before it is copied.
FeedOverruns(p, chunk) ==
    LET held == IF p.bom THEN Len(p.buf) ELSE p.scanned
        at == FirstEnd(chunk, 0)
    IN  /\ p.buf = << >> \/ Last(p.buf) # "cr"
        /\ held + (IF at = 0 THEN Len(chunk) ELSE at - 1) > MAX_LINE_BYTES

FeedSse(chunk) ==
    LET r == PumpSse([parser EXCEPT !.buf = @ \o chunk], FALSE)
    IN  IF FeedOverruns(parser, chunk) \/ r.bad
        THEN ended' = "error" /\ UNCHANGED <<parser, yielded>>
        ELSE parser' = r.p /\ yielded' = yielded \o r.e /\ UNCHANGED ended

----------------------------------------------------------------------------
\* next_frame: nothing before the prelude is there, and nothing before the
\* whole message is.
Malformed(buf) == buf[1] < PRELUDE + 1 \/ buf[2] > buf[1] - (PRELUDE + 1)
FrameWaits(buf) == Len(buf) < buf[1]

RECURSIVE Frames(_, _)
Frames(buf, events) ==
    IF Len(buf) < PRELUDE THEN [buf |-> buf, e |-> events, bad |-> FALSE]
    ELSE IF Malformed(buf) \/ buf[1] > MAX_EVENTSTREAM_FRAME_BYTES
    THEN [buf |-> buf, e |-> events, bad |-> TRUE]
    ELSE IF FrameWaits(buf) THEN [buf |-> buf, e |-> events, bad |-> FALSE]
    ELSE Frames(Drop(buf, buf[1]), Append(events, SubSeq(buf, 1, buf[1])))

FeedFrames(chunk) ==
    LET r == Frames(parser.buf \o chunk, << >>)
    IN  IF fed + Len(chunk) > MAX_EVENTSTREAM_BYTES \/ r.bad
        THEN ended' = "error" /\ UNCHANGED <<parser, yielded>>
        ELSE parser' = [parser EXCEPT !.buf = r.buf] /\ yielded' = yielded \o r.e /\ UNCHANGED ended

----------------------------------------------------------------------------
Feed(n) ==
    LET chunk == SubSeq(input, fed + 1, fed + n)
    IN  /\ ended = "no" /\ fed + n <= Len(input)
        /\ fed' = fed + n /\ UNCHANGED <<format, input>>
        /\ IF format = "sse" THEN FeedSse(chunk) ELSE FeedFrames(chunk)

\* Mutant: an event stream may end anywhere.
EndsAnywhere == TRUE
OnBoundary == parser.buf = << >>

\* finish: SSE flushes a trailing CR and discards the rest, an event stream
\* must have ended on a message boundary.
Finish ==
    LET r == PumpSse(parser, TRUE)
        bad == IF format = "sse" THEN r.bad ELSE ~OnBoundary
    IN  /\ ended = "no" /\ fed = Len(input)
        /\ ended' = IF bad THEN "error" ELSE "eof"
        /\ yielded' = IF format = "sse" /\ ~bad THEN yielded \o r.e ELSE yielded
        /\ parser' = NewParser /\ UNCHANGED <<format, input, fed>>

FramingNext == (\E n \in 1 .. Len(input) : Feed(n)) \/ Finish

----------------------------------------------------------------------------
\* The whole input, without its mark, cut at every line end: the complete
\* lines, and whether the rest has no end.
Unmarked(s) == IF IsPrefix(BOM, s) THEN Drop(s, Len(BOM)) ELSE s
RECURSIVE LinesOf(_)
LinesOf(s) ==
    LET at == FirstEnd(s, 0)
    IN  IF at = 0 THEN << >>
        ELSE <<SubSeq(s, 1, at - 1)>> \o
             LinesOf(Drop(s, IF s[at] = "cr" /\ at < Len(s) /\ s[at + 1] = "lf" THEN at + 1 ELSE at))
TailOf(s) == LET ends == {i \in DOMAIN s : IsEnd(s[i])}
             IN  IF ends = {} THEN s ELSE Drop(s, CHOOSE i \in ends : \A j \in ends : j <= i)
RECURSIVE EventsOf(_, _)
EventsOf(lines, data) ==
    IF lines = << >> THEN << >>
    ELSE LineEvents(lines[1], data, << >>) \o EventsOf(Tail(lines), LineData(lines[1], data))
RECURSIVE TooLong(_, _)
TooLong(lines, data) ==
    lines # << >> /\ (LineError(lines[1], data) \/ TooLong(Tail(lines), LineData(lines[1], data)))

\* The events of a stream that was read to its end are those of the stream
\* as a whole, however it was cut; and it is refused only for a line or an
\* event beyond its bound (a leading mark counts towards the first line).
ChunksDoNotMatter ==
    format = "sse" =>
        LET whole == Unmarked(input)
            lines == LinesOf(whole)
            overrun == \/ TooLong(lines, << >>) \/ Len(TailOf(whole)) > MAX_LINE_BYTES
                       \/ /\ whole # input
                          /\ Len(BOM) + Len(IF lines = << >> THEN whole ELSE lines[1]) > MAX_LINE_BYTES
        IN  /\ ended = "eof" => yielded = EventsOf(lines, << >>)
            /\ ended = "eof" => ~TooLong(lines, << >>)
            /\ ended = "error" => overrun

\* The messages of an event stream that ended well are exactly its bytes, cut
\* by their own lengths: none is lost, none is cut short, none runs on.
FramesAreTheStream ==
    format = "frames" /\ ended = "eof" =>
        /\ FlattenSeq(yielded) = input
        /\ \A i \in DOMAIN yielded : Len(yielded[i]) = yielded[i][1]

\* A reply from bytes to pieces, as a whole: how the bytes are cut never matters, frames are
\* the stream, pieces are in place, and a reply without its end is never taken for one.
RepliesAreExact ==
    PiecesInPlace /\ ReplyIsFinished /\ ChunksDoNotMatter /\ FramesAreTheStream
=============================================================================
