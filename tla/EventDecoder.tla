----------------------------- MODULE EventDecoder -----------------------------
(***************************************************************************)
(* internal/kiro: Reader and Decoder turn a response body, which arrives   *)
(* in pieces of any length, into frames, and ParseEvent turns frames into  *)
(* events, up to the first error, where a session stops reading.           *)
(*                                                                         *)
(* A byte is known by its place: which frame it belongs to and where it    *)
(* stands in it, and whether it arrived as it was sent. A CRC is taken for *)
(* what it is meant to be: it matches exactly the bytes it was made for.   *)
(* The wire may damage or lose a byte, end anywhere, or fail.              *)
(***************************************************************************)
EXTENDS Naturals, Sequences

CONSTANTS
    Frames,         \* what upstream may send
    Typed,          \* event types with a payload kirogo decodes
    Ignored,        \* ignoredEventTypes
    Prelude,        \* preludeWithCRC, 12 in the code
    Trailer,        \* messageCRCSize, 4
    MaxMessage,     \* DefaultMaxMessageSize
    Chunk,          \* DefaultReadChunkSize
    MaxFrames       \* bound: frames of one body

Overhead == Prelude + Trailer       \* frameOverhead, minMessageLength

\* A header: its name, its value, the bytes it takes, and whether its value
\* type is one of the ten that parseHeaders knows.
Headers == [name : {":message-type", ":event-type", ":exception-type", "other"},
            value : STRING, size : Nat, known : BOOLEAN]

\* size: bytes on the wire. total and headers: the lengths the prelude claims.
FrameRecord ==
    [size : Nat, total : Nat, headers : Nat, section : Seq(Headers),
     payload : {"empty", "json", "broken"}]

ASSUME DecoderAssumption ==
    /\ Frames \subseteq FrameRecord
    /\ \A f \in Frames : f.size >= Overhead
    /\ Prelude \in Nat \ {0, 1} /\ Trailer \in Nat \ {0}
    /\ MaxMessage \in Nat /\ MaxMessage >= Overhead
    /\ Chunk \in Nat \ {0} /\ MaxFrames \in Nat

\* No event type is named twice.
ASSUME TypesAssumption == Typed \cap (Ignored \cup {""}) = {}

VARIABLES
    sent,           \* the frames upstream has written
    closed,         \* it has ended the body
    wire,           \* bytes on their way
    whole,          \* history: leading frames that are sound and arrive undamaged
    damaged,        \* the wire has damaged a byte
    buf,            \* Decoder.buf
    failed,         \* Decoder.failed is not nil
    eof,            \* Reader.eof
    pc,             \* what Reader.Next does next, or "done"
    events,         \* what ParseEvent has made of the frames so far
    outcome         \* the error the session stopped at; "end" is io.EOF

upstreamVars == <<sent, closed, wire, whole, damaged>>
readerVars == <<buf, failed, eof, pc, events, outcome>>
vars == <<upstreamVars, readerVars>>

Bytes == [frame : 1 .. MaxFrames, at : Nat \ {0}, sound : BOOLEAN]
BytesOf(k, f) == [i \in 1 .. f.size |-> [frame |-> k, at |-> i, sound |-> TRUE]]

Init ==
    /\ sent = <<>> /\ wire = <<>> /\ buf = <<>> /\ events = <<>>
    /\ whole = 0
    /\ closed = FALSE /\ damaged = FALSE /\ failed = FALSE /\ eof = FALSE
    /\ pc = "next"
    /\ outcome = "none"

-----------------------------------------------------------------------------
(* What a frame is, and what it means: parseHeaders and ParseEvent.         *)

\* Where the n-th header of the section ends.
HeaderEnd(f) ==
    LET end[n \in 0 .. Len(f.section)] ==
            IF n = 0 THEN 0 ELSE end[n - 1] + f.section[n].size
    IN  end

\* The section is parsed header by header and has to be used up exactly.
HeadersParse(f) ==
    /\ HeaderEnd(f)[Len(f.section)] = f.headers
    /\ \A n \in DOMAIN f.section : f.section[n].known

\* The text of a header; the last of several with one name counts.
Header(f, name) ==
    LET places == {n \in DOMAIN f.section : f.section[n].name = name} IN
    IF places = {} THEN ""
    ELSE f.section[CHOOSE n \in places : \A m \in places : m <= n].value

IsException(f) ==
    \/ Header(f, ":message-type") = "exception"
    \/ Header(f, ":exception-type") # ""
    \/ Header(f, ":event-type") = "internalServerException"

\* An exception surfaces with or without a readable body, and content whose
\* payload is not JSON is an error. What kirogo does not know is handed on as such.
ParseEvent(f) ==
    LET type == Header(f, ":event-type") IN
    CASE IsException(f) -> "exception"
      [] ~IsException(f) /\ type \in Typed ->
            IF f.payload = "broken" THEN "error" ELSE type
      [] ~IsException(f) /\ type \in Ignored \cup {""} -> "ignored"
      [] OTHER -> "unknown"

Events == {"exception", "ignored", "unknown"} \cup Typed

\* A variant without the upper limit.
LengthsRefused_NoMaximum(f) ==
    f.total < Overhead \/ f.headers + Overhead > f.total

LengthsRefused(f) ==
    \/ f.total < Overhead \/ f.total > MaxMessage
    \/ f.headers + Overhead > f.total

\* The first n bytes of b are what one frame begins with.
Checksum(b, n) ==
    \A i \in 1 .. n : b[i] = [frame |-> b[1].frame, at |-> i, sound |-> TRUE]

\* A frame that is accepted if it arrives as it was sent.
Sound(f) ==
    /\ ~LengthsRefused(f)
    /\ f.total = f.size
    /\ HeadersParse(f)
    /\ ParseEvent(f) # "error"

-----------------------------------------------------------------------------
(* Upstream and the wire.                                                   *)

\* The frames before the k-th are all that can still be whole.
OnlyBefore(k) == whole' = IF whole < k THEN whole ELSE k - 1

Send(f) ==
    /\ ~closed /\ Len(sent) < MaxFrames
    /\ sent' = Append(sent, f)
    /\ wire' = wire \o BytesOf(Len(sent) + 1, f)
    /\ whole' = IF whole = Len(sent) /\ Sound(f) THEN whole + 1 ELSE whole
    /\ UNCHANGED <<closed, damaged, readerVars>>

CloseBody ==
    /\ ~closed
    /\ closed' = TRUE
    /\ UNCHANGED <<sent, wire, whole, damaged, readerVars>>

\* The body ends in the middle: what has not arrived after its n-th byte never
\* will. At the end of a frame this looks like an end that was meant.
Cut(n) ==
    LET left == buf \o SubSeq(wire, 1, n)
        last == left[Len(left)]
        k    == last.frame
    IN
    /\ n < Len(wire)
    /\ closed' = TRUE
    /\ wire' = SubSeq(wire, 1, n)
    /\ IF left = <<>>
          THEN sent' = SubSeq(sent, 1, Len(events)) /\ OnlyBefore(Len(events) + 1)
          ELSE /\ sent' = SubSeq(sent, 1, k)
               /\ OnlyBefore(IF last.at = sent[k].size THEN k + 1 ELSE k)
    /\ UNCHANGED <<damaged, readerVars>>

\* One byte arrives changed, or gets lost before others that arrive.
Damage(i) ==
    /\ ~damaged
    /\ damaged' = TRUE
    /\ \/ wire' = [wire EXCEPT ![i].sound = FALSE]
       \/ i < Len(wire) /\ wire' = SubSeq(wire, 1, i - 1) \o SubSeq(wire, i + 1, Len(wire))
    /\ OnlyBefore(wire[i].frame)
    /\ UNCHANGED <<sent, closed, readerVars>>

-----------------------------------------------------------------------------
(* Decoder.Next, on what is in its buffer.                                  *)

Claimed == sent[buf[1].frame]      \* the frame the first byte belongs to

PreludeRefused == ~Checksum(buf, Prelude) \/ LengthsRefused(Claimed)
FrameRefused ==
    \/ ~(Checksum(buf, Claimed.total) /\ Claimed.total = Claimed.size)
    \/ ~HeadersParse(Claimed)

\* The prelude is judged as soon as it is there, before its lengths are used.
Verdict ==
    IF failed THEN "refused"
    ELSE IF Len(buf) < Prelude THEN "incomplete"
    ELSE IF PreludeRefused THEN "refused"
    ELSE IF Len(buf) < Claimed.total THEN "incomplete"
    ELSE IF FrameRefused THEN "refused"
    ELSE "complete"

Stop(how) ==
    /\ pc' = "done"
    /\ outcome' = how

\* A frame is complete: its bytes leave the buffer and its event goes to the
\* session. A payload that does not parse ends the session.
Decode ==
    /\ pc = "next"
    /\ Verdict = "complete"
    /\ buf' = SubSeq(buf, Claimed.total + 1, Len(buf))
    /\ IF ParseEvent(Claimed) = "error"
          THEN Stop("refused") /\ UNCHANGED events
          ELSE events' = Append(events, ParseEvent(Claimed)) /\ UNCHANGED <<pc, outcome>>
    /\ UNCHANGED <<upstreamVars, failed, eof>>

\* Desynchronised, for good.
Refuse ==
    /\ pc = "next"
    /\ Verdict = "refused"
    /\ failed' = TRUE
    /\ Stop("refused")
    /\ UNCHANGED <<upstreamVars, buf, eof, events>>

\* ErrIncomplete: the Reader asks for more.
NeedsMore ==
    /\ pc = "next"
    /\ Verdict = "incomplete" /\ ~eof
    /\ pc' = "read"
    /\ UNCHANGED <<upstreamVars, buf, failed, eof, events, outcome>>

\* A variant that takes any end of the body for a clean one.
EndOfInput_IgnoresRest ==
    /\ pc = "next"
    /\ Verdict = "incomplete" /\ eof
    /\ Stop("end")
    /\ UNCHANGED <<upstreamVars, buf, failed, eof, events>>

\* ErrIncomplete, and nothing will come: clean only if nothing is left over.
EndOfInput ==
    /\ pc = "next"
    /\ Verdict = "incomplete" /\ eof
    /\ Stop(IF buf = <<>> THEN "end" ELSE "refused")
    /\ UNCHANGED <<upstreamVars, buf, failed, eof, events>>

-----------------------------------------------------------------------------
(* Reader.Next filling the buffer.                                          *)

Take(n) ==
    /\ buf' = buf \o SubSeq(wire, 1, n)
    /\ wire' = SubSeq(wire, n + 1, Len(wire))

\* Read returns some bytes, the last ones perhaps together with the end.
Read(n) ==
    /\ pc = "read"
    /\ Take(n)
    /\ \/ n > 0 /\ UNCHANGED eof
       \/ n = Len(wire) /\ closed /\ eof' = TRUE
    /\ pc' = "next"
    /\ UNCHANGED <<sent, closed, whole, damaged, failed, events, outcome>>

\* Read fails. What came with the error is in the buffer, and is not looked at.
ReadFails(n) ==
    /\ pc = "read"
    /\ Take(n)
    /\ Stop("failed")
    /\ UNCHANGED <<sent, closed, whole, damaged, failed, eof, events>>

-----------------------------------------------------------------------------

Upstream ==
    \/ \E f \in Frames : Send(f)
    \/ CloseBody
    \/ \E n \in 0 .. Len(wire) : Cut(n)
    \/ \E i \in 1 .. Len(wire) : Damage(i)

Reader ==
    \/ Decode \/ Refuse \/ NeedsMore \/ EndOfInput
    \/ \E n \in 0 .. Len(wire) : n <= Chunk /\ (Read(n) \/ ReadFails(n))

Next == Upstream \/ Reader

Spec == Init /\ [][Next]_vars

-----------------------------------------------------------------------------
(* Properties.                                                              *)

\* The types, and how much may be waited for: the Reader asks for more only when
\* that can complete a frame of an acceptable length, so the buffer never holds
\* more than the largest frame and one read, whatever a length field claims.
TypeOK ==
    /\ sent \in Seq(Frames) /\ Len(sent) <= MaxFrames
    /\ wire \in Seq(Bytes)
    /\ whole \in 0 .. Len(sent)
    /\ closed \in BOOLEAN /\ damaged \in BOOLEAN /\ failed \in BOOLEAN /\ eof \in BOOLEAN
    /\ buf \in Seq(Bytes)
    /\ Len(buf) <= MaxMessage + Chunk
    /\ pc = "read" => Len(buf) < MaxMessage
    /\ pc \in {"next", "read", "done"}
    /\ events \in Seq(Events)
    /\ outcome \in {"none", "end", "refused", "failed"}

\* The Reader is the channel a session takes it for: whatever the cuts, the
\* session gets the events of a beginning of the frames, in order; a damaged,
\* malformed or unfinished frame ends the stream as an error and never as a
\* clean end (eventstream.go:191-196, :388-391), and nothing follows it.
Channel == INSTANCE FrameChannel WITH
    written   <- [k \in 1 .. whole |-> ParseEvent(sent[k])],
    spoiled   <- whole < Len(sent),
    delivered <- events,
    status    <- IF pc = "done" THEN outcome ELSE "open"

ImplementsChannel == Channel!Spec
=============================================================================
