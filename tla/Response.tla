-------------------------------- MODULE Response --------------------------------
(***************************************************************************)
(* internal/api: from the events of one upstream stream to what a client   *)
(* is told: the collector (stream_core.go) with the client's output        *)
(* ceiling and the reassembly of tool calls, and the writers of the two    *)
(* surfaces: streamOpenAI's chunks, and the content blocks of              *)
(* anthropic_stream.go. The paths that answer at once (completeOpenAI,     *)
(* completeAnthropic) make their answer from the same collector.           *)
(*                                                                         *)
(* Where the events come from is StreamSession's business, and so is a     *)
(* client that leaves. Text is known by its length in runes, a signature   *)
(* by the event that brought it. All tool calls are of one tool, and their *)
(* arguments come in two pieces.                                           *)
(***************************************************************************)
EXTENDS Naturals, FiniteSets, SequencesExt

CONSTANTS
    Surfaces,       \* subset of {"openai", "anthropic"}
    Limits,         \* values of max_tokens, 0 for none
    Events,         \* events upstream may send
    MaxEvents       \* bound: events in one stream

EventKinds == {"content", "reasoning", "tool", "accounting", "stop", "exception"}

\* runes: of text. signature, redacted: the event has one. id, piece: of a tool
\* call's fragment. reason: the stop reason, of the metadata event. An accounting
\* event is one with token usage or with the context percentage.
ResponseAssumption ==
    /\ Surfaces \subseteq {"openai", "anthropic"}
    /\ Limits \subseteq Nat /\ MaxEvents \in Nat
    /\ Events \subseteq [kind : EventKinds, runes : Nat, signature : BOOLEAN,
                         redacted : BOOLEAN, id : STRING, piece : STRING, reason : STRING]

ASSUME ResponseAssumption

VARIABLES
    surface,
    limit,          \* the request's max_tokens
    mayCallTools,   \* the request offers tools
    seen,           \* history: the events taken from the stream
    c,              \* collected
    w,              \* the writer, with the frames it has sent
    pc,             \* "reading", "closing" or "done"
    end,            \* how the stream ended: "clean", "failed" or "released"
    reason          \* the stop reason the client is told

request == <<surface, limit, mayCallTools>>
vars == <<request, seen, c, w, pc, end, reason>>

-----------------------------------------------------------------------------
(* The output ceiling.                                                      *)

Estimate(runes) == IF runes = 0 THEN 0 ELSE runes \div 4 + 1

\* The code multiplies floats; up to 99 tokens that is the same.
Corrected(tokens) == (tokens * 115) \div 100

Tokens(content, reasoning) ==
    Corrected(Estimate(content)) + Corrected(Estimate(reasoning))

\* A variant that cuts between chunks, not between runes.
Take_WholeChunks(runes, reasoning) ==
    IF limit = 0 \/ Tokens(c.content, c.reasoning) < limit THEN runes ELSE 0

\* How many of these runes are admitted. Tokens does not decrease, so admitting
\* them one by one until the ceiling is passed comes to this.
Take(runes, reasoning) ==
    IF limit = 0 THEN runes
    ELSE IF c.exhausted THEN 0
    ELSE Max({n \in 0 .. runes :
                n = 0 \/ (IF reasoning THEN Tokens(c.content, c.reasoning + n)
                                       ELSE Tokens(c.content + n, c.reasoning)) <= limit})

-----------------------------------------------------------------------------
(* Tool calls.                                                              *)

\* The empty string: no id, nothing in the piece, no stop reason.
Blank == ""

\* A variant that extends the last call whatever the fragment's id.
Add_ToLast(tools, e) ==
    IF tools = <<>> THEN <<[id |-> e.id, input |-> <<e.piece>>]>>
    ELSE [tools EXCEPT ![Len(tools)].input = Append(@, e.piece)]

\* tools is toolAccumulator.order with the calls it names. A fragment without an
\* id extends the call begun last; without a call to extend it is dropped.
Add(tools, e) ==
    LET mine == {i \in DOMAIN tools : IF e.id = Blank THEN i = Len(tools) ELSE tools[i].id = e.id}
    IN  IF mine # {} THEN [i \in DOMAIN tools |->
                              IF i \in mine THEN [tools[i] EXCEPT !.input = Append(@, e.piece)]
                              ELSE tools[i]]
        ELSE IF e.id = Blank THEN tools
        ELSE Append(tools, [id |-> e.id, input |-> <<e.piece>>])

\* What parses: an object that is whole. Anything else becomes the empty object.
Arguments(input) ==
    LET raw == FlattenSeq([k \in DOMAIN input |-> IF input[k] = Blank THEN <<>> ELSE <<input[k]>>])
    IN  IF raw = <<"head", "tail">> THEN raw ELSE <<>>

\* The calls are unique by id; of those with equal arguments the first stays.
Finished(tools) ==
    LET calls   == [i \in DOMAIN tools |->
                       [id |-> tools[i].id, arguments |-> Arguments(tools[i].input)]]
        twin(i) == \E j \in 1 .. i - 1 : calls[j].arguments = calls[i].arguments
    IN  FlattenSeq([i \in DOMAIN calls |-> IF twin(i) THEN <<>> ELSE <<calls[i]>>])

-----------------------------------------------------------------------------
(* The collector.                                                           *)

Nothing ==
    [content |-> 0, reasoning |-> 0, exhausted |-> FALSE, signature |-> 0, redacted |-> FALSE,
     tools |-> <<>>, accounted |-> FALSE, reason |-> Blank, exception |-> FALSE]

Admitted(e) == Take(e.runes, e.kind = "reasoning")

\* collected.apply. A signature and a redacted blob are kept whatever the ceiling says.
Collect(e) ==
    LET text == [c EXCEPT !.exhausted = @ \/ Admitted(e) < e.runes] IN
    CASE e.kind = "content"   -> [text EXCEPT !.content = @ + Admitted(e)]
      [] e.kind = "reasoning" -> [text EXCEPT !.reasoning = @ + Admitted(e),
                                              !.signature = IF e.signature THEN Len(seen) + 1 ELSE @,
                                              !.redacted = @ \/ e.redacted]
      [] e.kind = "tool"      -> [c EXCEPT !.tools = Add(@, e)]
      [] e.kind = "accounting" -> [c EXCEPT !.accounted = TRUE]
      [] e.kind = "stop"      -> [c EXCEPT !.reason = e.reason]
      [] e.kind = "exception" -> [c EXCEPT !.exception = TRUE]

\* Content without any accounting is taken for an answer upstream has cut.
Truncated ==
    ~c.exhausted /\ c.content > 0 /\ c.tools = <<>> /\ ~c.accounted

\* anthropicStopReasonFor, and finishReasonFor in the same words.
StopReasonFor ==
    LET known == {"max_tokens", "tool_use"} \union
                 (IF surface = "anthropic" THEN {"stop_sequence"} ELSE {"content_filter"})
    IN  CASE Truncated                  -> "max_tokens"
          [] ~Truncated /\ c.tools # <<>> -> "tool_use"
          [] ~Truncated /\ c.tools = <<>> /\ c.exhausted -> "max_tokens"
          [] OTHER -> IF c.reason \in known THEN c.reason ELSE "end_turn"

-----------------------------------------------------------------------------
(* The writers. A frame's index is the one of its block, always 0 on the    *)
(* OpenAI surface; n is the number of runes or the signature.               *)

Frame(type, index, what, n, calls) ==
    [type |-> type, index |-> index, what |-> what, n |-> n, calls |-> calls]

Idle == [open |-> "none", index |-> 0, pending |-> 0, sent |-> FALSE, frames |-> <<>>]

SendCalls(b, type, calls) == [b EXCEPT !.frames = Append(@, Frame(type, b.index, "tool", 0, calls))]
Send(b, type, what, n) == [b EXCEPT !.frames = Append(@, Frame(type, b.index, what, n, <<>>))]

\* Variants of the next operation: one sends a late signature in whatever block
\* is closed, one forgets to advance the index.
CloseCurrent_FlushesAnywhere(b) ==
    LET flush  == b.pending # 0 /\ ~b.sent
        signed == IF flush THEN Send(b, "delta", "signature", b.pending) ELSE b
    IN  IF b.open = "none" THEN b
        ELSE [Send(signed, "stop", b.open, 0)
                EXCEPT !.open = "none", !.index = @ + 1, !.sent = @ \/ flush]

CloseCurrent_SameIndex(b) ==
    LET flush  == b.open \in {"thinking", "redacted"} /\ b.pending # 0 /\ ~b.sent
        signed == IF flush THEN Send(b, "delta", "signature", b.pending) ELSE b
    IN  IF b.open = "none" THEN b
        ELSE [Send(signed, "stop", b.open, 0) EXCEPT !.open = "none", !.sent = @ \/ flush]

\* Closes the open block, after the signature that waits for it. A redacted
\* block counts as a thinking block here.
CloseCurrent(b) ==
    LET flush  == b.open \in {"thinking", "redacted"} /\ b.pending # 0 /\ ~b.sent
        signed == IF flush THEN Send(b, "delta", "signature", b.pending) ELSE b
    IN  IF b.open = "none" THEN b
        ELSE [Send(signed, "stop", b.open, 0)
                EXCEPT !.open = "none", !.index = @ + 1, !.sent = @ \/ flush]

Start(b, kind) == [Send(b, "start", kind, 0) EXCEPT !.open = kind]

Ensure(b, kind) == IF b.open = kind THEN b ELSE Start(CloseCurrent(b), kind)

Delta(b, kind, runes) ==
    IF runes = 0 THEN b
    ELSE Send(IF surface = "anthropic" THEN Ensure(b, kind) ELSE b, "delta", kind, runes)

\* A signature is sent once. Outside a thinking block it waits for the next.
Signature(b, n) ==
    IF b.sent THEN b
    ELSE IF surface = "openai" \/ b.open = "thinking"
            THEN [Send(b, "delta", "signature", n) EXCEPT !.pending = n, !.sent = TRUE]
    ELSE [b EXCEPT !.pending = n]

\* A variant that leaves the block open.
RedactedThinking_StaysOpen(b) ==
    IF surface = "openai" THEN Send(b, "delta", "redacted", 0)
    ELSE Start(CloseCurrent(b), "redacted")

\* A redacted block is opened and closed at once.
RedactedThinking(b) ==
    IF surface = "openai" THEN Send(b, "delta", "redacted", 0)
    ELSE CloseCurrent(Start(CloseCurrent(b), "redacted"))

\* A block for each tool call, or one chunk with them all.
ToolCalls(b, calls) ==
    LET block(a, call) == CloseCurrent(SendCalls(Start(CloseCurrent(a), "tool"), "delta", <<call>>))
        after[n \in 0 .. Len(calls)] == IF n = 0 THEN b ELSE block(after[n - 1], calls[n])
    IN  IF surface = "anthropic" THEN after[Len(calls)]
        ELSE IF calls = <<>> THEN b ELSE SendCalls(b, "delta", calls)

\* A variant that sends the event's text, not what was admitted of it.
Emit_Raw(e) ==
    IF e.kind = "content" THEN Delta(w, "text", e.runes)
    ELSE IF e.kind = "reasoning" THEN Delta(w, "thinking", e.runes)
    ELSE w

\* emit, once the collector has taken the event.
Emit(e) ==
    LET thought == Delta(w, "thinking", Admitted(e))
        signed  == IF e.signature THEN Signature(thought, Len(seen) + 1) ELSE thought
    IN  CASE e.kind = "content"   -> Delta(w, "text", Admitted(e))
          [] e.kind = "reasoning" -> IF e.redacted THEN RedactedThinking(signed) ELSE signed
          [] OTHER                -> w

-----------------------------------------------------------------------------

Init ==
    /\ surface \in Surfaces
    /\ limit \in Limits
    /\ mayCallTools \in BOOLEAN
    /\ seen = <<>>
    /\ c = Nothing
    /\ w = Idle
    /\ pc = "reading"
    /\ end = "none"
    /\ reason = "none"

\* One turn of the consumption loop. The stream is released once the ceiling is
\* met, unless a tool call might still come.
TakeEvent(e) ==
    /\ pc = "reading"
    /\ Len(seen) < MaxEvents
    /\ e.kind = "tool" => mayCallTools
    /\ seen' = Append(seen, e)
    /\ c' = Collect(e)
    /\ w' = Emit(e)
    /\ IF c'.exhausted /\ ~mayCallTools
          THEN pc' = "closing" /\ end' = "released"
          ELSE UNCHANGED <<pc, end>>
    /\ UNCHANGED <<request, reason>>

EndOfStream ==
    /\ pc = "reading"
    /\ pc' = "closing"
    /\ end' = "clean"
    /\ UNCHANGED <<request, seen, c, w, reason>>

ProducesOutput(e) ==
    \/ e.kind \in {"tool", "exception"}
    \/ e.kind \in {"content", "reasoning"} /\ (e.runes > 0 \/ e.redacted)

\* A stream that breaks before its first output is tried again or refused by openStream.
StreamBreaks ==
    /\ pc = "reading"
    /\ \E i \in DOMAIN seen : ProducesOutput(seen[i])
    /\ pc' = "closing"
    /\ end' = "failed"
    /\ UNCHANGED <<request, seen, c, w, reason>>

\* After the loop: an exception becomes an error inside the 200 stream. The error
\* and the end stand for the frames that close the stream on each surface.
Fail ==
    /\ pc = "closing" /\ c.exception
    /\ w' = Send(CloseCurrent(w), "error", "error", 0)
    /\ pc' = "done"
    /\ UNCHANGED <<request, seen, c, end, reason>>

Complete ==
    /\ pc = "closing" /\ ~c.exception
    /\ w' = Send(CloseCurrent(ToolCalls(w, Finished(c.tools))), "end", "message", 0)
    /\ reason' = IF end = "failed" /\ c.content > 0 THEN "max_tokens" ELSE StopReasonFor
    /\ pc' = "done"
    /\ UNCHANGED <<request, seen, c, end>>

Next == (\E e \in Events : TakeEvent(e)) \/ EndOfStream \/ StreamBreaks \/ Fail \/ Complete

Spec == Init /\ [][Next]_vars

-----------------------------------------------------------------------------
(* Properties.                                                              *)

\* The shape of the state. Between two events only a block that may grow is open.
TypeOK ==
    /\ surface \in Surfaces /\ limit \in Limits /\ mayCallTools \in BOOLEAN
    /\ seen \in Seq(Events) /\ Len(seen) <= MaxEvents
    /\ c.content \in Nat /\ c.reasoning \in Nat /\ c.signature \in 0 .. Len(seen)
    /\ w.open \in {"none", "text", "thinking"} /\ w.index \in Nat
    /\ pc \in {"reading", "closing", "done"}
    /\ end \in {"none", "clean", "failed", "released"}
    /\ reason \in {"none", "end_turn", "max_tokens", "tool_use", "stop_sequence", "content_filter"}

-----------------------------------------------------------------------------
(* The client's side of the stream.                                         *)

Before(i, types) == {j \in 1 .. i - 1 : w.frames[j].type \in types}

\* Whether a delta or a stop may stand in a block of this kind. The comments have
\* a signature in the thinking block that it signs (anthropic_stream.go:43-45,
\* :69-70). The code sends one that comes too late for that in the next block of
\* thinking, and that may be a redacted one, which is closed as if it were a
\* thinking block (:127-128).
Belongs(f, kind) ==
    \/ f.what = kind
    \/ f.type = "delta" /\ f.what = "signature" /\ kind \in {"thinking", "redacted"}

\* What an Anthropic client can attribute to a block: blocks are numbered in the
\* order they start, one is open at a time, and a delta or a stop belongs to the
\* open one (anthropic_stream.go:34-36); text, thoughts and arguments stand in
\* blocks of their kind, and a signature, also a late one, never in a text or a
\* tool block and never twice. Once answered, nothing is left open, and there is
\* one end, or one error, with nothing behind it.
WellFormedStream ==
    /\ surface = "anthropic" => \A i \in DOMAIN w.frames :
          LET f       == w.frames[i]
              starts  == Before(i, {"start"})
              stops   == Before(i, {"stop"})
              current == w.frames[Max(starts)]
          IN  IF f.type \in {"delta", "stop"}
                 THEN /\ Cardinality(starts) = Cardinality(stops) + 1
                      /\ f.index = current.index
                      /\ Belongs(f, current.what)
                 ELSE /\ Cardinality(starts) = Cardinality(stops)
                      /\ f.type = "start" => f.index = Cardinality(starts)
    /\ Cardinality({i \in DOMAIN w.frames : w.frames[i].what = "signature"}) <= 1
    /\ {i \in DOMAIN w.frames : w.frames[i].type \in {"end", "error"}}
          = IF pc = "done" THEN {Len(w.frames)} ELSE {}

Sent(frames, what) ==
    LET runes(f) == IF f.type = "delta" /\ f.what = what THEN f.n ELSE 0
        sum[n \in 0 .. Len(frames)] == IF n = 0 THEN 0 ELSE sum[n - 1] + runes(frames[n])
    IN  sum[Len(frames)]

\* What the client received is what its tokens are counted from, at every moment
\* (stream_core.go:466-469).
StreamedIsCollected ==
    /\ Sent(w.frames, "text") = c.content
    /\ Sent(w.frames, "thinking") = c.reasoning

\* The output runes upstream sent, in order, each known by its kind.
Flow == FlattenSeq([i \in DOMAIN seen |-> [k \in 1 .. seen[i].runes |-> seen[i].kind]])
Count(kind, n) == Cardinality({k \in 1 .. n : Flow[k] = kind})

\* The client gets the longest beginning of the output that its max_tokens
\* allows, across chunks and across the two counters: nothing is cut early, and
\* nothing slips in behind the cut where the other counter still has room.
CeilingMet ==
    LET fitting == {n \in 0 .. Len(Flow) :
                      limit = 0 \/ Tokens(Count("content", n), Count("reasoning", n)) <= limit}
        cut     == Max({n \in fitting : \A m \in 0 .. n : m \in fitting})
    IN  /\ c.content = Count("content", cut)
        /\ c.reasoning = Count("reasoning", cut)
        /\ c.exhausted <=> cut < Len(Flow)

\* The call fragment i belongs to: the one it names, or the one begun last.
Names(i, id) == seen[i].kind = "tool" /\ seen[i].id = id
Begins(i) ==
    seen[i].id # Blank /\ Names(i, seen[i].id) /\ ~\E j \in 1 .. i - 1 : Names(j, seen[i].id)
Owner(i) ==
    LET begun == {j \in 1 .. i : Begins(j)} IN
    IF seen[i].id # Blank THEN seen[i].id ELSE IF begun = {} THEN Blank ELSE seen[Max(begun)].id

\* A call is made of exactly its own fragments, in order, however the fragments of
\* several calls interleave, and each call that was begun reaches the client once,
\* itself or by a twin with the same arguments.
CallsAreWhole ==
    LET fragment(id, i) == IF seen[i].kind = "tool" /\ Owner(i) = id THEN <<seen[i].piece>> ELSE <<>>
        owed(id) == Arguments(FlattenSeq([i \in DOMAIN seen |-> fragment(id, i)]))
        begun    == {seen[i].id : i \in {j \in DOMAIN seen : Begins(j)}}
        calls    == FlattenSeq([i \in DOMAIN w.frames |-> w.frames[i].calls])
    IN  reason # "none" =>
            /\ \A i \in DOMAIN calls :
                  calls[i].id \in begun /\ calls[i].arguments = owed(calls[i].id)
            /\ \A i, j \in DOMAIN calls : i # j => calls[i].arguments # calls[j].arguments
            /\ \A id \in begun : \E i \in DOMAIN calls : calls[i].arguments = owed(id)

\* completeOpenAI (openai.go:279): "It consumes the same upstream stream as the
\* streaming path and assembles the result, so the two paths cannot drift apart."
\* A stream that broke before anything arrived has no answer to compare.
PathsAgree ==
    surface = "openai" /\ reason # "none"
      /\ (c.content > 0 \/ c.reasoning > 0 \/ c.tools # <<>>)
        => reason = StopReasonFor
=============================================================================
