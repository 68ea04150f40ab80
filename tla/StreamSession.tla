---------------------------- MODULE StreamSession ----------------------------
(***************************************************************************)
(* internal/api: one client request from openStream to the end of its      *)
(* consumption loop.                                                       *)
(*                                                                         *)
(* The handler opens an upstream session (startSession), waits for the     *)
(* first output (awaitFirstToken), gives a silent session up and opens     *)
(* another (openStreamOnce), and hands the events of the one it keeps to   *)
(* the client. Every session has a goroutine that decodes its response     *)
(* body into a bounded channel. Opening is RetryClient's business: here it *)
(* succeeds or fails.                                                      *)
(*                                                                         *)
(* Upstream sends what it likes, when it likes, or falls silent.           *)
(***************************************************************************)
EXTENDS Naturals, Sequences

CONSTANTS
    Attempts,       \* cfg.FirstTokenMaxRetries
    Capacity,       \* capacity of the events channel, 64 in the code
    MaxEvents       \* bound: events upstream sends in one session

ASSUME StreamAssumption ==
    /\ Attempts \in Nat \ {0} /\ Capacity \in Nat \ {0} /\ MaxEvents \in Nat

VARIABLES
    pc,             \* the handler: where openStream or the loop after it is
    attempt,        \* openStreamOnce's attempt, from 1
    stripped,       \* openStream's strippedReasoning
    reasoning,      \* the history of the request carries reasoning
    streaming,      \* the client asked for a stream
    opened,         \* sessions opened so far; the last one is the current one
    decoder,        \* the goroutine of each session
    channel,        \* the events channel of each session
    stopped,        \* sessions that were closed: cancel() and Body.Close()
    fired,          \* the first-token timer has fired
    cancelled,      \* the client is gone: r.Context() has ended
    buffered,       \* awaitFirstToken's buffered events
    delivered,      \* events handed on, in order
    outcome         \* how the request ended

requestVars == <<attempt, stripped, reasoning, streaming>>
vars == <<pc, requestVars, opened, decoder, channel, stopped, fired, cancelled,
          buffered, delivered, outcome>>

\* openStreamOnce is run at most twice, and the first run ended in a rejection.
Sessions == 1 .. 2 * Attempts - 1

\* "quiet": bookkeeping. "output": what producesOutput accepts. "exception": an
\* error the backend sends as an event. "error": item.err, the body broke.
Kinds == {"quiet", "output", "exception", "error"}
Items == [session : Sessions, seq : 0 .. MaxEvents, kind : Kinds]
NoItem == [session |-> 1, seq |-> 0, kind |-> "quiet"]

Failure(s) == [session |-> s, seq |-> 0, kind |-> "error"]

Decoders == [pc : {"none", "reading", "sending", "exited"},
             item : Items, seen : 0 .. MaxEvents]

Outcomes == {"none", "complete", "early", "broken", "disconnected",
             "cancelled", "rejected", "failed"}

TypeOK ==
    /\ pc \in {"open", "starting", "await", "read", "done"}
    /\ attempt \in 1 .. Attempts + 1
    /\ stripped \in BOOLEAN /\ reasoning \in BOOLEAN /\ streaming \in BOOLEAN
    /\ opened \in 0 .. 2 * Attempts - 1
    /\ decoder \in [Sessions -> Decoders]
    /\ \A s \in Sessions : decoder[s].pc = "none" <=> s > opened
    /\ channel \in [Sessions -> Seq(Items)]
    /\ \A s \in Sessions : Len(channel[s]) <= Capacity
    /\ stopped \subseteq 1 .. opened
    /\ fired \in BOOLEAN /\ cancelled \in BOOLEAN
    /\ buffered \in Seq(Items) /\ delivered \in Seq(Items)
    /\ outcome \in Outcomes
    /\ pc = "done" <=> outcome # "none"

Init ==
    /\ pc = "open"
    /\ attempt = 1
    /\ stripped = FALSE
    /\ reasoning \in BOOLEAN
    /\ streaming \in BOOLEAN
    /\ opened = 0
    /\ decoder = [s \in Sessions |-> [pc |-> "none", item |-> NoItem, seen |-> 0]]
    /\ channel = [s \in Sessions |-> <<>>]
    /\ stopped = {}
    /\ fired = FALSE
    /\ cancelled = FALSE
    /\ buffered = <<>>
    /\ delivered = <<>>
    /\ outcome = "none"

-----------------------------------------------------------------------------
(* The decoding goroutine of session s (startSession).                      *)

decoderFrame == <<pc, requestVars, opened, stopped, fired, cancelled,
                  buffered, delivered, outcome>>

\* streamCtx.Done() is closed.
Ended(s) == s \in stopped \/ cancelled

\* reader.Next returns a message that parses. There may be some left in its
\* buffer after the session was closed, and nobody will look at those.
Frame(s) ==
    /\ decoder[s].pc = "reading"
    /\ \/ /\ s \in stopped
          /\ decoder' = [decoder EXCEPT ![s].pc = "sending"]
       \/ /\ s \notin stopped /\ decoder[s].seen < MaxEvents
          /\ \E kind \in Kinds \ {"error"} :
                LET n == decoder[s].seen + 1 IN
                decoder' = [decoder EXCEPT ![s] =
                   [pc |-> "sending", seen |-> n,
                    item |-> [session |-> s, seq |-> n, kind |-> kind]]]
    /\ UNCHANGED <<decoderFrame, channel>>

\* The body is cut short or carries garbage, or streamCtx has ended.
ReadFails(s) ==
    /\ decoder[s].pc = "reading"
    /\ decoder' = [decoder EXCEPT ![s].pc = "sending", ![s].item = Failure(s)]
    /\ UNCHANGED <<decoderFrame, channel>>

\* A clean end of the body: the goroutine ends, which closes the channel.
EndOfBody(s) ==
    /\ decoder[s].pc = "reading"
    /\ decoder' = [decoder EXCEPT ![s].pc = "exited"]
    /\ UNCHANGED <<decoderFrame, channel>>

\* A variant that drops an event when the channel is full.
Send_DropsWhenFull(s) ==
    /\ decoder[s].pc = "sending"
    /\ channel' = IF Len(channel[s]) < Capacity
                     THEN [channel EXCEPT ![s] = Append(@, decoder[s].item)] ELSE channel
    /\ decoder' = [decoder EXCEPT
          ![s].pc = IF decoder[s].item.kind = "error" THEN "exited" ELSE "reading",
          ![s].item = NoItem]
    /\ UNCHANGED decoderFrame

\* The channel has room. After an error the goroutine ends.
Send(s) ==
    /\ decoder[s].pc = "sending"
    /\ Len(channel[s]) < Capacity
    /\ channel' = [channel EXCEPT ![s] = Append(@, decoder[s].item)]
    /\ decoder' = [decoder EXCEPT
          ![s].pc = IF decoder[s].item.kind = "error" THEN "exited" ELSE "reading",
          ![s].item = NoItem]
    /\ UNCHANGED decoderFrame

\* A variant without the select: only the channel is looked at.
Drop_Never(s) == FALSE /\ UNCHANGED vars

\* streamCtx has ended, and the select may prefer that to a channel with room.
Drop(s) ==
    /\ decoder[s].pc = "sending"
    /\ Ended(s)
    /\ decoder' = [decoder EXCEPT ![s].pc = "exited", ![s].item = NoItem]
    /\ UNCHANGED <<decoderFrame, channel>>

-----------------------------------------------------------------------------
(* The handler until the first output: openStream, openStreamOnce,          *)
(* startSession, awaitFirstToken.                                           *)

Close(s) == stopped' = stopped \cup {s}

\* The handler will not look at this session again: what it still holds takes up
\* room in the channel, and is otherwise forgotten.
GiveUpOn(s) ==
    /\ Close(s)
    /\ channel' = [channel EXCEPT ![s] = [i \in DOMAIN @ |-> NoItem]]
    /\ decoder' = [decoder EXCEPT ![s].seen = 0,
                      ![s].item = IF @.kind = "error" THEN @ ELSE NoItem]

Finish(how) ==
    /\ pc' = "done"
    /\ outcome' = how

\* continue: round the loop again.
NextAttempt ==
    /\ attempt' = attempt + 1
    /\ pc' = "open"
    /\ fired' = FALSE
    /\ buffered' = <<>>
    /\ UNCHANGED <<stripped, reasoning, streaming, outcome>>

\* A variant with one attempt too many.
Open_OneTooMany ==
    /\ pc = "open"
    /\ IF attempt > Attempts + 1 THEN Finish("failed")
       ELSE IF cancelled THEN Finish("cancelled")
       ELSE pc' = "starting" /\ UNCHANGED outcome
    /\ UNCHANGED <<requestVars, opened, decoder, channel, stopped, fired,
                   cancelled, buffered, delivered>>

\* The top of the loop in openStreamOnce.
Open ==
    /\ pc = "open"
    /\ IF attempt > Attempts THEN Finish("failed")
       ELSE IF cancelled THEN Finish("cancelled")
       ELSE pc' = "starting" /\ UNCHANGED outcome
    /\ UNCHANGED <<requestVars, opened, decoder, channel, stopped, fired,
                   cancelled, buffered, delivered>>

\* 200: the goroutine starts, and so does the first-token timer.
StartLive ==
    /\ pc = "starting"
    /\ pc' = "await"
    /\ opened' = opened + 1
    /\ decoder' = [decoder EXCEPT ![opened'].pc = "reading"]
    /\ UNCHANGED <<requestVars, channel, stopped, fired, cancelled, buffered,
                   delivered, outcome>>

\* No token, no connection, no response: worth another attempt.
StartFails ==
    /\ pc = "starting"
    /\ NextAttempt
    /\ UNCHANGED <<opened, decoder, channel, stopped, cancelled, delivered>>

\* An API error is final, except that a refused reasoning signature makes
\* openStream start over, once, without the reasoning.
StartRejected ==
    /\ pc = "starting"
    /\ \E signatureInvalid \in BOOLEAN :
          IF signatureInvalid /\ ~stripped /\ reasoning
             THEN /\ stripped' = TRUE
                  /\ reasoning' = FALSE
                  /\ attempt' = 1
                  /\ pc' = "open"
                  /\ UNCHANGED outcome
             ELSE /\ Finish("rejected")
                  /\ UNCHANGED <<stripped, reasoning, attempt>>
    /\ UNCHANGED <<streaming, opened, decoder, channel, stopped, fired,
                   cancelled, buffered, delivered>>

\* A variant in which any event, bookkeeping too, counts as the first token.
TimerFires_UntilAnyEvent ==
    /\ pc = "await" /\ ~fired /\ buffered = <<>>
    /\ fired' = TRUE
    /\ UNCHANGED <<pc, requestVars, opened, decoder, channel, stopped, cancelled,
                   buffered, delivered, outcome>>

TimerFires ==
    /\ pc = "await" /\ ~fired
    /\ fired' = TRUE
    /\ UNCHANGED <<pc, requestVars, opened, decoder, channel, stopped, cancelled,
                   buffered, delivered, outcome>>

\* A variant that gives the session up without closing it.
AwaitTimeout_LeavesOpen ==
    /\ pc = "await" /\ fired
    /\ NextAttempt
    /\ UNCHANGED <<opened, decoder, channel, stopped, cancelled, delivered>>

AwaitTimeout ==
    /\ pc = "await" /\ fired
    /\ GiveUpOn(opened)
    /\ NextAttempt
    /\ UNCHANGED <<opened, cancelled, delivered>>

AwaitCancelled ==
    /\ pc = "await" /\ cancelled
    /\ Close(opened)
    /\ Finish("cancelled")
    /\ UNCHANGED <<requestVars, opened, decoder, channel, fired, cancelled,
                   buffered, delivered>>

\* The handler takes an item from the channel.
Receive ==
    /\ channel[opened] # <<>>
    /\ channel' = [channel EXCEPT ![opened] = Tail(@)]

\* The events seen so far are handed on; then the output budget may be spent,
\* which only output spends (stopReadingEarly).
HandOn(events) ==
    /\ delivered' = delivered \o events
    /\ \/ /\ pc' = "read"
          /\ UNCHANGED <<outcome, stopped>>
       \/ /\ \E i \in DOMAIN events : events[i].kind = "output"
          /\ Finish("early") /\ Close(opened)

\* A variant that hands on the event that ended the wait, and nothing before it.
AwaitEvent_HandsOnLast ==
    /\ pc = "await"
    /\ Receive
    /\ LET item == Head(channel[opened]) IN
          \/ item.kind = "error" /\ Close(opened) /\ Finish("failed")
             /\ UNCHANGED <<buffered, delivered>>
          \/ item.kind = "quiet" /\ buffered' = Append(buffered, item)
             /\ UNCHANGED <<pc, outcome, stopped, delivered>>
          \/ item.kind \in {"output", "exception"} /\ HandOn(<<item>>)
             /\ buffered' = <<>>
    /\ UNCHANGED <<requestVars, opened, decoder, fired, cancelled>>

\* Bookkeeping goes into the buffer; output or an exception ends the wait; an
\* error ends the request.
AwaitEvent ==
    /\ pc = "await"
    /\ Receive
    /\ LET item == Head(channel[opened]) IN
          \/ item.kind = "error" /\ Close(opened) /\ Finish("failed")
             /\ UNCHANGED <<buffered, delivered>>
          \/ item.kind = "quiet" /\ buffered' = Append(buffered, item)
             /\ UNCHANGED <<pc, outcome, stopped, delivered>>
          \/ item.kind \in {"output", "exception"} /\ HandOn(Append(buffered, item))
             /\ buffered' = <<>>
    /\ UNCHANGED <<requestVars, opened, decoder, fired, cancelled>>

\* The channel is empty and closed.
Drained == channel[opened] = <<>> /\ decoder[opened].pc = "exited"

\* Ended with no output: tried again, or, on the last attempt, kept as empty.
AwaitEnd ==
    /\ pc = "await"
    /\ Drained
    /\ IF attempt < Attempts
          THEN GiveUpOn(opened) /\ NextAttempt /\ UNCHANGED delivered
          ELSE /\ HandOn(buffered)
               /\ buffered' = <<>>
               /\ UNCHANGED <<requestVars, fired, channel, decoder>>
    /\ UNCHANGED <<opened, cancelled>>

-----------------------------------------------------------------------------
(* The consumption loop of the four handlers, and sess.close() at its end.  *)

ReadEvent ==
    /\ pc = "read"
    /\ Receive
    /\ LET item == Head(channel[opened]) IN
          \/ /\ item.kind = "error"
             /\ Finish("broken") /\ Close(opened)
             /\ UNCHANGED delivered
          \/ /\ item.kind # "error" /\ ~(streaming /\ cancelled)
             /\ HandOn(<<item>>)
          \/ /\ item.kind # "error" /\ streaming /\ cancelled
             /\ delivered' = Append(delivered, item)
             /\ Finish("disconnected") /\ Close(opened)
    /\ UNCHANGED <<requestVars, opened, decoder, fired, cancelled, buffered>>

ReadEnd ==
    /\ pc = "read"
    /\ Drained
    /\ Finish("complete") /\ Close(opened)
    /\ UNCHANGED <<requestVars, opened, decoder, channel, fired, cancelled,
                   buffered, delivered>>

\* The client goes away, at any moment.
Disconnect ==
    /\ pc # "done" /\ ~cancelled
    /\ cancelled' = TRUE
    /\ UNCHANGED <<pc, requestVars, opened, decoder, channel, stopped, fired,
                   buffered, delivered, outcome>>

-----------------------------------------------------------------------------

DecoderStep(s) ==
    Frame(s) \/ ReadFails(s) \/ EndOfBody(s) \/ Send(s) \/ Drop(s)

HandlerStep ==
    \/ Open \/ StartLive \/ StartFails \/ StartRejected
    \/ AwaitTimeout \/ AwaitCancelled \/ AwaitEvent \/ AwaitEnd
    \/ ReadEvent \/ ReadEnd

Next ==
    \/ HandlerStep \/ TimerFires \/ Disconnect
    \/ \E s \in 1 .. opened : DecoderStep(s)

\* The handler goes on when it can, the timer fires, the decoder sends what it
\* has, and a read of a closed body returns. Nothing obliges upstream to send,
\* or to end the body, or the client to leave. In particular startSession need
\* not return while the client stays: it reads the body of an error, for which
\* it has no timeout (Gateway's ReadsErrorBody).
Fairness ==
    /\ WF_vars((pc = "starting" => cancelled) /\ HandlerStep)
    /\ WF_vars(TimerFires)
    /\ \A s \in Sessions : WF_vars(s <= opened /\ (Send(s) \/ Drop(s)))
    /\ \A s \in Sessions : WF_vars(s <= opened /\ Ended(s) /\ ReadFails(s))

Spec == Init /\ [][Next]_vars /\ Fairness

-----------------------------------------------------------------------------
(* Properties.                                                              *)

\* The client is handed the events of one session only, the last one opened, in
\* the order upstream sent them and with no gap, whatever was buffered while
\* waiting and whichever sessions were given up before (stream_core.go:124,
\* :163-164): a response is never restarted once part of it has gone out.
DeliveredInOrder ==
    \A i \in DOMAIN delivered :
        delivered[i].session = opened /\ delivered[i].seq = i

\* Everything decoded before the body ended or broke is handed on before the
\* handler sees the end, through the buffer and a channel that may be full.
NothingLost ==
    outcome \in {"complete", "broken"} /\ ~cancelled
        => Len(delivered) = decoder[opened].seen

\* At most one upstream connection is held by a request, the current one, and
\* none once the request is over (sess.close in every branch).
OneConnection ==
    1 .. opened \ stopped \subseteq (IF pc \in {"await", "read"} THEN {opened} ELSE {})

\* Opening settles: with a backend that accepts the request and stays silent,
\* the first-token timer ends each wait, and the attempts run out. What may go on
\* for ever is one startSession, while the client stays.
OpenSettles == <>(pc \in {"read", "done"}) \/ <>[](pc = "starting" /\ ~cancelled)

\* When the client leaves or the request is over, the handler and all of its
\* decoders end, also those that block on a full channel or a silent body.
NothingOutlivesTheRequest ==
    cancelled \/ pc = "done"
        ~> pc = "done" /\ \A s \in 1 .. opened : decoder[s].pc = "exited"

\* What the code says of a stream that has begun: the gap between chunks is
\* bounded (client.go:128-130, main.go:116-118, STREAMING_READ_TIMEOUT), so
\* that it comes to an end even if upstream falls silent.
StreamEnds == pc = "read" ~> pc = "done"
=============================================================================
