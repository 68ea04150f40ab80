------------------------ MODULE StreamSession_proofs ------------------------
(***************************************************************************)
(* StreamSession for every number of attempts, capacity of the channel and *)
(* length of a stream: its type invariant and its three invariants.        *)
(***************************************************************************)
EXTENDS StreamSession, TLAPS

\* How many sessions the attempts made so far can have opened: a refused
\* signature starts the count again before the last one of the first round.
Earlier == IF stripped THEN Attempts - 1 ELSE 0
CountInv ==
    /\ pc \in {"open", "starting"} => opened <= Earlier + attempt - 1
    /\ pc \in {"await", "read"} =>
          /\ opened <= Earlier + attempt
          /\ opened > 0 /\ opened \notin stopped
    /\ pc \in {"starting", "await", "read"} => attempt <= Attempts

\* What the handler has taken from the current session, in its two places.
Taken == Len(delivered) + Len(buffered)

BufferInv ==
    /\ pc \in {"open", "starting", "await"} => delivered = <<>>
    /\ pc \in {"open", "starting", "read"} => buffered = <<>>
    /\ pc = "await" =>
          \A i \in DOMAIN buffered : buffered[i].session = opened /\ buffered[i].seq = i

IsError(item) == item.kind = "error"
Follows(item, n) == item.session = opened /\ item.seq = n

\* The events on their way continue what was taken, without a gap: first those
\* in the channel, then the one the decoder holds. An error comes last.
Queued(q, d, n) ==
    \A j \in 1 .. Len(q) :
       /\ IsError(q[j]) => j = Len(q) /\ d.pc = "exited"
       /\ ~IsError(q[j]) => Follows(q[j], n + j)
EventsIn(q) == IF Len(q) > 0 /\ IsError(q[Len(q)]) THEN Len(q) - 1 ELSE Len(q)
Held(q, d, n) ==
    /\ d.pc = "reading" => d.seen = n + Len(q)
    /\ d.pc = "sending" /\ IsError(d.item) => d.seen = n + Len(q)
    /\ d.pc = "sending" /\ ~IsError(d.item) =>
          d.seen = n + Len(q) + 1 /\ Follows(d.item, d.seen)
    /\ d.pc = "exited" /\ ~cancelled => d.seen = n + EventsIn(q)
Flow(q, d, n) == Queued(q, d, n) /\ Held(q, d, n)

\* A sequence of events of the current session, from its first one on.
InOrder(events) == \A i \in 1 .. Len(events) : Follows(events[i], i)

FlowInv == pc \in {"await", "read"} => Flow(channel[opened], decoder[opened], Taken)

\* Once the end was seen, nothing is decoded any more.
EndInv ==
    outcome \in {"complete", "broken"} /\ ~cancelled
        => decoder[opened].pc = "exited" /\ opened > 0

\* A session that was not opened has sent nothing.
QuietInv ==
    \A s \in Sessions : s > opened => channel[s] = <<>> /\ decoder[s].seen = 0

OrderInv == BufferInv /\ FlowInv /\ EndInv /\ DeliveredInOrder /\ NothingLost
StreamInv == TypeOK /\ CountInv /\ OneConnection /\ QuietInv /\ OrderInv
-----------------------------------------------------------------------------

\* The items that steps make up are items.
LEMMA ItemTypes == NoItem \in Items /\ (\A s \in Sessions : Failure(s) \in Items)
  BY StreamAssumption DEF NoItem, Failure, Items, Sessions, Kinds

\* What a decoder and its channel can become.
LEMMA DecoderType ==
  ASSUME TypeOK, NEW s \in 1 .. opened, DecoderStep(s)
  PROVE  TypeOK'
<1> USE StreamAssumption
<1>1. s \in Sessions /\ decoder[s] \in Decoders /\ channel[s] \in Seq(Items) /\ decoder[s].pc # "none"
  BY DEF TypeOK, Sessions
<1>2. UNCHANGED decoderFrame
  BY DEF DecoderStep, Frame, ReadFails, EndOfBody, Send, Drop
<1>3. ASSUME NEW d \in Decoders, d.pc # "none", decoder' = [decoder EXCEPT ![s] = d],
             NEW q \in Seq(Items), Len(q) <= Capacity, channel' = [channel EXCEPT ![s] = q]
      PROVE  TypeOK'
  BY <1>1, <1>2, <1>3 DEF TypeOK, decoderFrame, requestVars
<1>4. CASE Frame(s)
  <2>1. channel' = [channel EXCEPT ![s] = channel[s]]
    BY <1>4 DEF Frame, TypeOK
  <2>2. CASE s \in stopped
    BY <1>1, <1>3, <1>4, <2>1, <2>2 DEF Frame, TypeOK, Decoders
  <2>3. CASE s \notin stopped
    <3> DEFINE n == decoder[s].seen + 1
               d(kind) == [pc |-> "sending", seen |-> n,
                           item |-> [session |-> s, seq |-> n, kind |-> kind]]
    <3>1. PICK kind \in Kinds : decoder' = [decoder EXCEPT ![s] = d(kind)]
      BY <1>4, <2>3 DEF Frame
    <3>2. n \in 0 .. MaxEvents
      BY <1>1, <1>4, <2>3 DEF Frame, Decoders
    <3>3. d(kind) \in Decoders /\ d(kind).pc # "none"
      BY <1>1, <3>2 DEF Decoders, Items
    <3>4. channel[s] \in Seq(Items) /\ Len(channel[s]) <= Capacity
      BY <1>1 DEF TypeOK
    <3> HIDE DEF d, n
    <3> QED
      BY <1>3, <2>1, <3>1, <3>3, <3>4
  <2> QED
    BY <2>2, <2>3
<1>5. CASE ReadFails(s)
  BY <1>1, <1>3, <1>5, ItemTypes DEF ReadFails, TypeOK, Decoders
<1>6. CASE EndOfBody(s)
  BY <1>1, <1>3, <1>6 DEF EndOfBody, TypeOK, Decoders
<1>7. CASE Send(s)
  <2> DEFINE d == [decoder[s] EXCEPT
                      !.pc = IF decoder[s].item.kind = "error" THEN "exited" ELSE "reading",
                      !.item = NoItem]
             q == Append(channel[s], decoder[s].item)
  <2>1. decoder' = [decoder EXCEPT ![s] = d] /\ channel' = [channel EXCEPT ![s] = q]
    BY <1>7 DEF Send
  <2>2. d \in Decoders /\ d.pc # "none"
    BY <1>1, ItemTypes DEF Decoders
  <2>3. q \in Seq(Items) /\ Len(q) <= Capacity
    BY <1>1, <1>7 DEF Send, Decoders
  <2> HIDE DEF d, q
  <2> QED
    BY <1>3, <2>1, <2>2, <2>3
<1>8. CASE Drop(s)
  BY <1>1, <1>3, <1>8, ItemTypes DEF Drop, TypeOK, Decoders
<1> QED
  BY <1>4, <1>5, <1>6, <1>7, <1>8 DEF DecoderStep

\* Giving a session up keeps the types, and its decoder where it is.
LEMMA GiveUpType ==
  ASSUME TypeOK, NEW s \in Sessions, s \in 1 .. opened, GiveUpOn(s)
  PROVE  /\ decoder' \in [Sessions -> Decoders]
         /\ \A x \in Sessions : decoder'[x].pc = decoder[x].pc
         /\ channel' \in [Sessions -> Seq(Items)]
         /\ \A x \in Sessions : Len(channel'[x]) <= Capacity
         /\ stopped' = stopped \cup {s}
<1> USE StreamAssumption
<1> DEFINE kept == IF decoder[s].item.kind = "error" THEN decoder[s].item ELSE NoItem
           d == [decoder[s] EXCEPT !.seen = 0, !.item = kept]
           q == [i \in DOMAIN channel[s] |-> NoItem]
<1>1. decoder' = [decoder EXCEPT ![s] = d] /\ channel' = [channel EXCEPT ![s] = q]
  BY DEF GiveUpOn
<1>2. d \in Decoders /\ d.pc = decoder[s].pc
  <2>1. decoder[s] \in Decoders /\ kept \in Items
    BY ItemTypes DEF TypeOK, Decoders
  <2>2. 0 \in 0 .. MaxEvents
    OBVIOUS
  <2> HIDE DEF kept
  <2>3. d \in Decoders
    BY <2>1, <2>2 DEF Decoders
  <2>4. d.pc = decoder[s].pc
    BY <2>1 DEF Decoders
  <2> QED
    BY <2>3, <2>4
<1>3. q \in Seq(Items) /\ Len(q) <= Capacity
  BY ItemTypes DEF TypeOK
<1> HIDE DEF d, q, kept
<1>4. stopped' = stopped \cup {s}
  BY DEF GiveUpOn, Close
<1> QED
  BY <1>1, <1>2, <1>3, <1>4 DEF TypeOK

\* Taking an item from the channel.
LEMMA ReceiveType ==
  ASSUME TypeOK, opened \in Sessions, Receive
  PROVE  /\ Head(channel[opened]) \in Items
         /\ channel' \in [Sessions -> Seq(Items)]
         /\ \A x \in Sessions : Len(channel'[x]) <= Capacity
<1> USE StreamAssumption
<1>1. channel[opened] \in Seq(Items) /\ channel[opened] # <<>> /\ Len(channel[opened]) <= Capacity
  BY DEF TypeOK, Receive
<1>2. Tail(channel[opened]) \in Seq(Items) /\ Len(Tail(channel[opened])) <= Capacity
  BY <1>1
<1>3. Head(channel[opened]) \in Items
  BY <1>1
<1> QED
  BY <1>2, <1>3 DEF TypeOK, Receive

\* The bounds that the steps of the handler rely on.
LEMMA Bounds ==
  ASSUME TypeOK, CountInv
  PROVE  /\ Attempts \in Nat \ {0} /\ Capacity \in Nat \ {0} /\ MaxEvents \in Nat
         /\ opened \in Nat /\ attempt \in Nat /\ stripped \in BOOLEAN
         /\ Sessions = 1 .. 2 * Attempts - 1
         /\ pc \in {"await", "read"} => opened \in Sessions /\ opened \in 1 .. opened
  BY StreamAssumption DEF TypeOK, CountInv, Sessions

\* Between attempts.
LEMMA RetryType ==
  ASSUME TypeOK, CountInv,
         Open \/ StartLive \/ StartFails \/ StartRejected
  PROVE  TypeOK' /\ CountInv'
<1> USE DEF CountInv, Earlier
<1>0. /\ Attempts \in Nat \ {0} /\ opened \in Nat /\ attempt \in Nat /\ stripped \in BOOLEAN
      /\ Sessions = 1 .. 2 * Attempts - 1 /\ stopped \subseteq 1 .. opened
  BY Bounds DEF TypeOK
<1> USE <1>0
<1>1. CASE Open
  BY <1>1 DEF Open, Finish, TypeOK, Outcomes, requestVars
<1>2. CASE StartLive
  <2>1. opened + 1 \in Sessions /\ opened' = opened + 1
    BY <1>2 DEF StartLive, TypeOK, requestVars
  <2> DEFINE d == [decoder[opened + 1] EXCEPT !.pc = "reading"]
  <2>2. decoder' = [decoder EXCEPT ![opened + 1] = d]
    BY <1>2 DEF StartLive
  <2>3. d \in Decoders /\ d.pc = "reading"
    BY <2>1 DEF TypeOK, Decoders
  <2> HIDE DEF d
  <2>4. /\ decoder' \in [Sessions -> Decoders]
        /\ \A s \in Sessions : decoder'[s].pc = "none" <=> s > opened'
    BY <2>1, <2>2, <2>3 DEF TypeOK
  <2>5. opened' <= Earlier' + attempt' /\ opened' \notin stopped'
    BY <1>2, <2>1 DEF StartLive, TypeOK, requestVars
  <2>6. TypeOK'
    BY <1>2, <2>1, <2>4, SMTT(30) DEF StartLive, TypeOK, Outcomes, requestVars
  <2> QED
    BY <1>2, <2>1, <2>5, <2>6 DEF StartLive, requestVars
<1>3. CASE StartFails
  <2>1. /\ stripped' \in BOOLEAN /\ reasoning' \in BOOLEAN /\ streaming' \in BOOLEAN
        /\ fired' \in BOOLEAN /\ cancelled' \in BOOLEAN
    BY <1>3 DEF StartFails, NextAttempt, TypeOK
  <2>2. TypeOK'
    BY <1>3, <2>1 DEF StartFails, NextAttempt, TypeOK, Outcomes
  <2> QED
    BY <1>3, <2>2 DEF StartFails, NextAttempt
<1>4. CASE StartRejected
  <2>1. UNCHANGED <<streaming, opened, decoder, channel, stopped, fired, cancelled,
                    buffered, delivered>>
    BY <1>4 DEF StartRejected
  <2>2. CASE /\ ~stripped /\ stripped' = TRUE /\ reasoning' = FALSE
             /\ attempt' = 1 /\ pc' = "open" /\ UNCHANGED outcome
    <3>1. stripped' \in BOOLEAN /\ reasoning' \in BOOLEAN
      BY <2>2
    <3>2. TypeOK'
      BY <1>4, <2>1, <2>2, <3>1 DEF StartRejected, TypeOK, Outcomes
    <3>3. opened' <= Earlier' + attempt' - 1
      BY <1>4, <2>1, <2>2 DEF StartRejected
    <3> QED
      BY <2>2, <3>2, <3>3
  <2>3. CASE Finish("rejected") /\ UNCHANGED <<stripped, reasoning, attempt>>
    BY <2>1, <2>3 DEF Finish, TypeOK, Outcomes
  <2> QED
    BY <1>4, <2>2, <2>3 DEF StartRejected
<1> QED
  BY <1>1, <1>2, <1>3, <1>4

\* The first output is awaited.
LEMMA AwaitType ==
  ASSUME TypeOK, CountInv,
         AwaitTimeout \/ AwaitCancelled \/ AwaitEvent \/ AwaitEnd
  PROVE  TypeOK' /\ CountInv'
<1> USE DEF CountInv, Earlier
<1>0. /\ Attempts \in Nat \ {0} /\ opened \in Nat /\ attempt \in Nat /\ stripped \in BOOLEAN
      /\ Sessions = 1 .. 2 * Attempts - 1 /\ stopped \subseteq 1 .. opened
  BY Bounds DEF TypeOK
<1>1. /\ pc = "await" /\ opened \in Sessions /\ opened \in 1 .. opened
      /\ attempt <= Attempts /\ opened <= Earlier + attempt
  BY Bounds DEF AwaitTimeout, AwaitCancelled, AwaitEvent, AwaitEnd
<1> USE <1>0, <1>1
<1>2. ASSUME GiveUpOn(opened), NextAttempt, UNCHANGED <<opened, cancelled, delivered>>
      PROVE  TypeOK' /\ CountInv'
  <2>1. /\ stripped' \in BOOLEAN /\ reasoning' \in BOOLEAN /\ streaming' \in BOOLEAN
        /\ fired' \in BOOLEAN /\ cancelled' \in BOOLEAN
    BY <1>2 DEF NextAttempt, TypeOK
  <2>2. /\ decoder' \in [Sessions -> Decoders]
        /\ \A x \in Sessions : decoder'[x].pc = decoder[x].pc
        /\ channel' \in [Sessions -> Seq(Items)]
        /\ \A x \in Sessions : Len(channel'[x]) <= Capacity
        /\ stopped' = stopped \cup {opened}
    BY <1>2, GiveUpType
  <2>3. \A x \in Sessions : decoder'[x].pc = "none" <=> x > opened'
    BY <1>2, <2>2 DEF TypeOK
  <2>4. pc' = "open" /\ attempt' = attempt + 1 /\ buffered' = <<>> /\ UNCHANGED <<stripped, outcome>>
    BY <1>2 DEF NextAttempt
  <2>5. outcome' = "none"
    BY <2>4 DEF TypeOK
  <2>6. TypeOK'
    BY <1>2, <2>1, <2>2, <2>3, <2>4, <2>5 DEF TypeOK, Outcomes
  <2> QED
    BY <1>2, <2>4, <2>6
<1>3. ASSUME NEW events \in Seq(Items), HandOn(events), buffered' = <<>>,
             UNCHANGED <<requestVars, opened, fired, cancelled, decoder>>,
             channel' \in [Sessions -> Seq(Items)],
             \A x \in Sessions : Len(channel'[x]) <= Capacity
      PROVE  TypeOK' /\ CountInv'
  <2>1. delivered' \in Seq(Items)
    BY <1>3 DEF HandOn, TypeOK
  <2>2. CASE pc' = "read" /\ UNCHANGED <<outcome, stopped>>
    BY <1>3, <2>1, <2>2 DEF TypeOK, Outcomes, requestVars
  <2>3. CASE Finish("early") /\ Close(opened)
    BY <1>3, <2>1, <2>3 DEF Finish, Close, TypeOK, Outcomes, requestVars
  <2> QED
    BY <1>3, <2>2, <2>3 DEF HandOn
<1>4. CASE AwaitTimeout
  BY <1>2, <1>4 DEF AwaitTimeout
<1>5. CASE AwaitCancelled
  BY <1>5 DEF AwaitCancelled, Finish, Close, TypeOK, Outcomes, requestVars
<1>6. CASE AwaitEvent
  <2> DEFINE item == Head(channel[opened])
  <2>1. /\ item \in Items
        /\ channel' \in [Sessions -> Seq(Items)]
        /\ \A x \in Sessions : Len(channel'[x]) <= Capacity
    BY <1>6, ReceiveType DEF AwaitEvent
  <2>2. UNCHANGED <<requestVars, opened, decoder, fired, cancelled>>
    BY <1>6 DEF AwaitEvent
  <2>3. Append(buffered, item) \in Seq(Items)
    BY <2>1 DEF TypeOK
  <2>4. CASE Close(opened) /\ Finish("failed") /\ UNCHANGED <<buffered, delivered>>
    BY <2>1, <2>2, <2>4 DEF Finish, Close, TypeOK, Outcomes, requestVars
  <2>5. CASE buffered' = Append(buffered, item) /\ UNCHANGED <<pc, outcome, stopped, delivered>>
    BY <2>1, <2>2, <2>3, <2>5 DEF TypeOK, Outcomes, requestVars
  <2>6. CASE HandOn(Append(buffered, item)) /\ buffered' = <<>>
    BY <1>3, <2>1, <2>2, <2>3, <2>6
  <2> QED
    BY <1>6, <2>4, <2>5, <2>6 DEF AwaitEvent
<1>7. CASE AwaitEnd
  <2>1. CASE GiveUpOn(opened) /\ NextAttempt /\ UNCHANGED delivered
    BY <1>2, <1>7, <2>1 DEF AwaitEnd
  <2>2. CASE /\ HandOn(buffered) /\ buffered' = <<>>
             /\ UNCHANGED <<requestVars, fired, channel, decoder>>
    BY <1>3, <1>7, <2>2 DEF AwaitEnd, TypeOK
  <2> QED
    BY <1>7, <2>1, <2>2 DEF AwaitEnd
<1> QED
  BY <1>4, <1>5, <1>6, <1>7

\* The loop that hands events on.
LEMMA ReadType ==
  ASSUME TypeOK, CountInv, ReadEvent \/ ReadEnd
  PROVE  TypeOK' /\ CountInv'
<1> USE DEF CountInv, Earlier
<1>1. /\ pc = "read" /\ opened \in Sessions /\ opened \in 1 .. opened /\ opened \in Nat
  BY Bounds DEF ReadEvent, ReadEnd
<1> USE <1>1
<1>2. CASE ReadEvent
  <2> DEFINE item == Head(channel[opened])
  <2>1. /\ item \in Items
        /\ channel' \in [Sessions -> Seq(Items)]
        /\ \A x \in Sessions : Len(channel'[x]) <= Capacity
    BY <1>2, ReceiveType DEF ReadEvent
  <2>2. UNCHANGED <<requestVars, opened, decoder, fired, cancelled, buffered>>
    BY <1>2 DEF ReadEvent
  <2>3. delivered \o <<item>> \in Seq(Items) /\ Append(delivered, item) \in Seq(Items)
    BY <2>1 DEF TypeOK
  <2> HIDE DEF item
  <2>4. CASE Finish("broken") /\ Close(opened) /\ UNCHANGED delivered
    BY <2>1, <2>2, <2>4 DEF Finish, Close, TypeOK, Outcomes, requestVars
  <2>5. CASE delivered' = delivered \o <<item>> /\ pc' = "read" /\ UNCHANGED <<outcome, stopped>>
    BY <2>1, <2>2, <2>3, <2>5 DEF TypeOK, Outcomes, requestVars
  <2>6. CASE delivered' = delivered \o <<item>> /\ Finish("early") /\ Close(opened)
    BY <2>1, <2>2, <2>3, <2>6 DEF Finish, Close, TypeOK, Outcomes, requestVars
  <2>7. CASE delivered' = Append(delivered, item) /\ Finish("disconnected") /\ Close(opened)
    BY <2>1, <2>2, <2>3, <2>7 DEF Finish, Close, TypeOK, Outcomes, requestVars
  <2> QED
    BY <1>2, <2>4, <2>5, <2>6, <2>7 DEF ReadEvent, HandOn, item
<1>3. CASE ReadEnd
  BY <1>3 DEF ReadEnd, Finish, Close, TypeOK, Outcomes, requestVars
<1> QED
  BY <1>2, <1>3

\* Every step keeps the types and the count of the sessions.
LEMMA NextType == TypeOK /\ CountInv /\ [Next]_vars => TypeOK' /\ CountInv'
<1> SUFFICES ASSUME TypeOK, CountInv, [Next]_vars PROVE TypeOK' /\ CountInv'
  OBVIOUS
<1>1. CASE HandlerStep
  BY <1>1, RetryType, AwaitType, ReadType DEF HandlerStep
<1>2. CASE TimerFires
  BY <1>2 DEF TimerFires, TypeOK, CountInv, Earlier, requestVars
<1>3. CASE Disconnect
  BY <1>3 DEF Disconnect, TypeOK, CountInv, Earlier, requestVars
<1>4. ASSUME NEW s \in 1 .. opened, DecoderStep(s) PROVE TypeOK' /\ CountInv'
  <2>1. UNCHANGED decoderFrame
    BY <1>4 DEF DecoderStep, Frame, ReadFails, EndOfBody, Send, Drop
  <2> QED
    BY <1>4, <2>1, DecoderType DEF CountInv, Earlier, decoderFrame, requestVars
<1>5. CASE UNCHANGED vars
  BY <1>5 DEF vars, TypeOK, CountInv, Earlier, requestVars
<1> QED
  BY <1>1, <1>2, <1>3, <1>4, <1>5 DEF Next

-----------------------------------------------------------------------------

\* A session is closed in the step that leaves it.
LEMMA NextOneConnection ==
  TypeOK /\ CountInv /\ OneConnection /\ [Next]_vars => OneConnection'
<1> SUFFICES ASSUME TypeOK, CountInv, OneConnection, [Next]_vars PROVE OneConnection'
  OBVIOUS
<1> USE DEF OneConnection
<1>1. opened \in Nat /\ stopped \subseteq 1 .. opened
  BY DEF TypeOK
<1>2. CASE Open \/ StartFails \/ StartRejected
  BY <1>2 DEF Open, StartFails, NextAttempt, StartRejected, Finish
<1>3. CASE StartLive
  BY <1>1, <1>3 DEF StartLive
<1>4. CASE AwaitTimeout \/ AwaitCancelled
  BY <1>4 DEF AwaitTimeout, AwaitCancelled, GiveUpOn, NextAttempt, Close, Finish
<1>5. CASE AwaitEvent
  BY <1>5 DEF AwaitEvent, HandOn, Close, Finish
<1>6. CASE AwaitEnd
  BY <1>6 DEF AwaitEnd, GiveUpOn, NextAttempt, HandOn, Close, Finish
<1>7. CASE ReadEvent \/ ReadEnd
  BY <1>7 DEF ReadEvent, ReadEnd, HandOn, Close, Finish
<1>8. CASE TimerFires \/ Disconnect
  BY <1>8 DEF TimerFires, Disconnect
<1>9. ASSUME NEW s \in 1 .. opened, DecoderStep(s) PROVE OneConnection'
  BY <1>9 DEF DecoderStep, Frame, ReadFails, EndOfBody, Send, Drop, decoderFrame
<1>10. CASE UNCHANGED vars
  BY <1>10 DEF vars
<1> QED
  BY <1>2, <1>3, <1>4, <1>5, <1>6, <1>7, <1>8, <1>9, <1>10 DEF Next, HandlerStep

\* The decoder of the current session keeps its events in a row.
LEMMA DecoderFlow ==
  ASSUME TypeOK, CountInv, FlowInv, pc \in {"await", "read"}, DecoderStep(opened)
  PROVE  FlowInv'
<1> DEFINE q == channel[opened]
           d == decoder[opened]
<1>1. /\ opened \in Sessions /\ opened \notin stopped
      /\ q \in Seq(Items) /\ Len(q) \in Nat /\ d \in Decoders
      /\ d.seen \in Nat /\ Taken \in Nat
  BY Bounds, SMTT(30) DEF TypeOK, CountInv, Decoders, Taken
<1>2. UNCHANGED decoderFrame
  BY DEF DecoderStep, Frame, ReadFails, EndOfBody, Send, Drop
<1>3. Taken' = Taken /\ opened' = opened /\ cancelled' = cancelled /\ pc' = pc
  BY <1>2 DEF decoderFrame, Taken
<1>4. Flow(q, d, Taken)
  BY DEF FlowInv
<1>5. decoder \in [Sessions -> Decoders] /\ channel \in [Sessions -> Seq(Items)]
  BY DEF TypeOK
<1>6. SUFFICES Flow(channel[opened], decoder[opened], Taken)'
  BY DEF FlowInv
<1>7. CASE Frame(opened)
  <2> DEFINE n == d.seen + 1
             e(kind) == [pc |-> "sending", seen |-> n,
                         item |-> [session |-> opened, seq |-> n, kind |-> kind]]
  <2>1. PICK kind \in Kinds \ {"error"} : decoder' = [decoder EXCEPT ![opened] = e(kind)]
    BY <1>1, <1>7 DEF Frame
  <2>2. decoder'[opened] = e(kind) /\ channel'[opened] = q
    BY <1>1, <1>5, <1>7, <2>1 DEF Frame
  <2>3. d.pc = "reading"
    BY <1>7 DEF Frame
  <2> HIDE DEF q, d
  <2> QED
    BY <1>1, <1>3, <1>4, <2>2, <2>3 DEF Flow, Queued, Held, EventsIn, IsError, Follows
<1>8. CASE ReadFails(opened)
  <2>1. /\ channel'[opened] = q /\ d.pc = "reading"
        /\ decoder'[opened] = [d EXCEPT !.pc = "sending", !.item = Failure(opened)]
    BY <1>1, <1>5, <1>8 DEF ReadFails
  <2>2. /\ decoder'[opened].pc = "sending" /\ decoder'[opened].seen = d.seen
        /\ decoder'[opened].item.kind = "error"
    BY <1>1, <2>1 DEF Decoders, Failure
  <2> HIDE DEF q, d
  <2> QED
    BY <1>1, <1>3, <1>4, <2>1, <2>2 DEF Flow, Queued, Held, EventsIn, IsError, Follows
<1>9. CASE EndOfBody(opened)
  <2>1. /\ channel'[opened] = q /\ d.pc = "reading"
        /\ decoder'[opened] = [d EXCEPT !.pc = "exited"]
    BY <1>1, <1>5, <1>9 DEF EndOfBody
  <2>2. decoder'[opened].pc = "exited" /\ decoder'[opened].seen = d.seen
    BY <1>1, <2>1 DEF Decoders
  <2> HIDE DEF q, d
  <2> QED
    BY <1>1, <1>3, <1>4, <2>1, <2>2 DEF Flow, Queued, Held, EventsIn, IsError, Follows
<1>10. CASE Send(opened)
  <2> DEFINE after == IF d.item.kind = "error" THEN "exited" ELSE "reading"
  <2>1. /\ channel'[opened] = Append(q, d.item) /\ d.pc = "sending"
        /\ decoder'[opened] = [d EXCEPT !.pc = after, !.item = NoItem]
    BY <1>1, <1>5, <1>10 DEF Send
  <2>2. decoder'[opened].pc = after /\ decoder'[opened].seen = d.seen
    <3> HIDE DEF after
    <3> QED
      BY <1>1, <2>1 DEF Decoders
  <2>3. /\ Len(Append(q, d.item)) = Len(q) + 1
        /\ \A j \in 1 .. Len(q) : Append(q, d.item)[j] = q[j]
        /\ Append(q, d.item)[Len(q) + 1] = d.item
    BY <1>1 DEF Decoders
  <2>4. \A j \in 1 .. Len(q) : ~IsError(q[j]) /\ Follows(q[j], Taken + j)
    BY <1>4, <2>1 DEF Flow, Queued
  <2> DEFINE r == Append(q, d.item)
             e == decoder'[opened]
  <2>5. Len(r) = Len(q) + 1 /\ Len(r) \in Nat /\ r[Len(r)] = d.item
    BY <1>1, <2>3
  <2>6. CASE IsError(d.item)
    <3>1. e.pc = "exited" /\ e.seen = Taken + Len(q)
      BY <1>4, <2>1, <2>2, <2>6 DEF Flow, Held, IsError
    <3>2. \A j \in 1 .. Len(r) :
             /\ IsError(r[j]) => j = Len(r) /\ e.pc = "exited"
             /\ ~IsError(r[j]) => Follows(r[j], Taken + j)
      BY <1>1, <2>3, <2>4, <2>5, <2>6, <3>1
    <3> HIDE DEF q, d, r, e
    <3>3. Flow(r, e, Taken)
      BY <1>1, <2>5, <2>6, <3>1, <3>2 DEF Flow, Queued, Held, EventsIn
    <3> QED
      BY <1>3, <2>1, <3>3 DEF Flow, Queued, Held, EventsIn, Follows, IsError, r, e
  <2>7. CASE ~IsError(d.item)
    <3>1. d.seen = Taken + Len(q) + 1 /\ Follows(d.item, d.seen)
      BY <1>4, <2>1, <2>7 DEF Flow, Held
    <3>2. e.pc = "reading" /\ e.seen = Taken + Len(r)
      BY <1>1, <2>2, <2>5, <2>7, <3>1 DEF IsError
    <3>3. ASSUME NEW j \in 1 .. Len(r) PROVE ~IsError(r[j]) /\ Follows(r[j], Taken + j)
      <4>1. CASE j = Len(r)
        BY <1>1, <2>5, <2>7, <3>1, <4>1 DEF Follows
      <4>2. CASE j # Len(r)
        BY <1>1, <2>3, <2>4, <2>5, <4>2
      <4> QED
        BY <4>1, <4>2
    <3> HIDE DEF q, d, r, e
    <3>4. Flow(r, e, Taken)
      BY <1>1, <3>2, <3>3 DEF Flow, Queued, Held
    <3> QED
      BY <1>3, <2>1, <3>4 DEF Flow, Queued, Held, EventsIn, Follows, IsError, r, e
  <2> QED
    BY <2>6, <2>7
<1>11. CASE Drop(opened)
  <2>1. /\ channel'[opened] = q /\ d.pc = "sending" /\ cancelled
        /\ decoder'[opened] = [d EXCEPT !.pc = "exited", !.item = NoItem]
    BY <1>1, <1>5, <1>11 DEF Drop, Ended
  <2>2. decoder'[opened].pc = "exited" /\ decoder'[opened].seen = d.seen
    BY <1>1, <2>1 DEF Decoders
  <2> HIDE DEF q, d
  <2> QED
    BY <1>1, <1>3, <1>4, <2>1, <2>2 DEF Flow, Queued, Held, EventsIn, IsError, Follows
<1> QED
  BY <1>7, <1>8, <1>9, <1>10, <1>11 DEF DecoderStep

\* Nothing touches a session before it is opened.
LEMMA NextQuiet ==
  TypeOK /\ CountInv /\ QuietInv /\ [Next]_vars => QuietInv'
<1> SUFFICES ASSUME TypeOK, CountInv, QuietInv, [Next]_vars PROVE QuietInv'
  OBVIOUS
<1> USE DEF QuietInv
<1>1. /\ opened \in Nat /\ Sessions \subseteq Nat
      /\ decoder \in [Sessions -> Decoders] /\ channel \in [Sessions -> Seq(Items)]
  BY StreamAssumption DEF TypeOK, Sessions
<1>2. ASSUME opened' = opened,
             \A x \in Sessions : x > opened =>
                channel'[x] = channel[x] /\ decoder'[x] = decoder[x]
      PROVE  QuietInv'
  BY <1>2
<1>3. CASE Open \/ StartFails \/ StartRejected \/ AwaitCancelled \/ ReadEnd
           \/ TimerFires \/ Disconnect \/ UNCHANGED vars
  BY <1>2, <1>3 DEF Open, StartFails, StartRejected, AwaitCancelled, ReadEnd,
                    TimerFires, Disconnect, vars
<1>4. CASE StartLive
  <2>1. opened' = opened + 1 /\ channel' = channel
    BY <1>4 DEF StartLive
  <2>2. \A x \in Sessions : x # opened + 1 => decoder'[x] = decoder[x]
    BY <1>1, <1>4, <2>1 DEF StartLive
  <2> QED
    BY <1>1, <2>1, <2>2
<1>5. ASSUME GiveUpOn(opened), opened' = opened PROVE QuietInv'
  BY <1>1, <1>2, <1>5 DEF GiveUpOn
<1>6. ASSUME Receive, UNCHANGED <<opened, decoder>> PROVE QuietInv'
  BY <1>1, <1>2, <1>6 DEF Receive
<1>7. CASE AwaitTimeout
  BY <1>5, <1>7 DEF AwaitTimeout
<1>8. CASE AwaitEvent \/ ReadEvent
  BY <1>6, <1>8 DEF AwaitEvent, ReadEvent
<1>9. CASE AwaitEnd
  BY <1>2, <1>5, <1>9 DEF AwaitEnd
<1>10. ASSUME NEW s \in 1 .. opened, DecoderStep(s) PROVE QuietInv'
  <2>1. \A x \in Sessions : x # s => channel'[x] = channel[x] /\ decoder'[x] = decoder[x]
    BY <1>1, <1>10 DEF DecoderStep, Frame, ReadFails, EndOfBody, Send, Drop
  <2>2. opened' = opened /\ s <= opened /\ s \in Nat
    BY <1>1, <1>10 DEF DecoderStep, Frame, ReadFails, EndOfBody, Send, Drop, decoderFrame
  <2>3. \A x \in Sessions : x > opened => x # s
    BY <1>1, <2>2
  <2> QED
    BY <1>2, <2>1, <2>2, <2>3
<1> QED
  BY <1>3, <1>4, <1>7, <1>8, <1>9, <1>10 DEF Next, HandlerStep

-----------------------------------------------------------------------------
(* The order of the events.                                                 *)

\* What Flow says depends on the state through the current session only.
LEMMA FlowSame ==
  ASSUME NEW q, NEW d, NEW n, Flow(q, d, n),
         opened' = opened, cancelled => cancelled',
         channel'[opened'] = q, decoder'[opened'] = d, Taken' = n
  PROVE  FlowInv'
  BY DEF FlowInv, Flow, Queued, Held, EventsIn, Follows, IsError

\* The handler takes the first event: the rest of the flow goes on from there.
LEMMA FlowTail ==
  ASSUME NEW q \in Seq(Items), NEW d, NEW n \in Nat,
         q # <<>>, Flow(q, d, n), ~IsError(q[1])
  PROVE  Flow(Tail(q), d, n + 1) /\ Follows(q[1], n + 1)
<1> DEFINE r == Tail(q)
<1>1. /\ Len(q) \in Nat /\ Len(q) > 0 /\ Len(r) = Len(q) - 1 /\ 1 \in 1 .. Len(q)
      /\ \A j \in 1 .. Len(r) : r[j] = q[j + 1] /\ j + 1 \in 1 .. Len(q)
  OBVIOUS
<1>2. Queued(q, d, n) /\ Held(q, d, n)
  BY DEF Flow
<1>3. Follows(q[1], n + 1)
  BY <1>1, <1>2 DEF Queued
<1>4. Queued(r, d, n + 1)
  <2> SUFFICES ASSUME NEW j \in 1 .. Len(r)
               PROVE  /\ IsError(r[j]) => j = Len(r) /\ d.pc = "exited"
                      /\ ~IsError(r[j]) => Follows(r[j], n + 1 + j)
    BY DEF Queued
  <2>1. r[j] = q[j + 1] /\ j + 1 \in 1 .. Len(q) /\ n + (j + 1) = n + 1 + j
    BY <1>1
  <2> HIDE DEF r
  <2>2. IsError(r[j]) => j + 1 = Len(q) /\ d.pc = "exited"
    BY <1>2, <2>1 DEF Queued
  <2>3. ~IsError(r[j]) => Follows(r[j], n + 1 + j)
    BY <1>2, <2>1 DEF Queued
  <2> QED
    BY <1>1, <2>1, <2>2, <2>3
<1> HIDE DEF r
<1>5. Len(q) > 1 => r[Len(r)] = q[Len(q)]
  BY <1>1
<1>6. EventsIn(r) + 1 = EventsIn(q) /\ EventsIn(r) \in Nat
  <2>1. CASE Len(q) = 1
    BY <1>1, <2>1 DEF EventsIn
  <2>2. CASE Len(q) > 1
    BY <1>1, <1>5, <2>2 DEF EventsIn
  <2> QED
    BY <1>1, <2>1, <2>2
<1>7. Held(r, d, n + 1)
  <2>1. n + 1 + Len(r) = n + Len(q) /\ n + 1 + EventsIn(r) = n + EventsIn(q)
    BY <1>1, <1>6
  <2> QED
    BY <1>2, <2>1 DEF Held
<1> QED
  BY <1>3, <1>4, <1>7 DEF Flow, r

\* An error is the last thing in the channel, and all before it was taken.
LEMMA FlowError ==
  ASSUME NEW q \in Seq(Items), NEW d, NEW n \in Nat,
         q # <<>>, Flow(q, d, n), IsError(q[1])
  PROVE  d.pc = "exited" /\ (~cancelled => d.seen = n)
<1>1. Len(q) \in Nat /\ 1 \in 1 .. Len(q)
  OBVIOUS
<1>2. Len(q) = 1 /\ d.pc = "exited"
  BY <1>1 DEF Flow, Queued
<1>3. EventsIn(q) = 0
  BY <1>2 DEF EventsIn
<1> QED
  BY <1>2, <1>3 DEF Flow, Held

\* One more event, the next one, keeps a sequence in order.
LEMMA InOrderAppend ==
  ASSUME NEW events \in Seq(Items), NEW item \in Items,
         InOrder(events), Follows(item, Len(events) + 1)
  PROVE  /\ Append(events, item) \in Seq(Items) /\ InOrder(Append(events, item))
         /\ Len(Append(events, item)) = Len(events) + 1
<1> DEFINE r == Append(events, item)
<1>1. /\ r \in Seq(Items) /\ Len(events) \in Nat /\ Len(r) = Len(events) + 1
      /\ r[Len(events) + 1] = item
      /\ \A i \in 1 .. Len(events) : r[i] = events[i]
  OBVIOUS
<1> HIDE DEF r
<1>2. ASSUME NEW i \in 1 .. Len(r) PROVE Follows(r[i], i)
  <2>1. CASE i = Len(events) + 1
    BY <1>1, <2>1
  <2>2. CASE i # Len(events) + 1
    BY <1>1, <2>2 DEF InOrder
  <2> QED
    BY <2>1, <2>2
<1> QED
  BY <1>1, <1>2 DEF InOrder, r

\* The two places of the handler, in terms of InOrder.
LEMMA Places ==
  ASSUME TypeOK
  PROVE  /\ DeliveredInOrder <=> InOrder(delivered)
         /\ (\A i \in DOMAIN buffered : buffered[i].session = opened /\ buffered[i].seq = i)
               <=> InOrder(buffered)
         /\ Len(delivered) \in Nat /\ Len(buffered) \in Nat
  BY DEF TypeOK, DeliveredInOrder, InOrder, Follows

\* Opening: nothing has gone out yet, and a new session starts from nothing.
LEMMA RetryOrder ==
  ASSUME TypeOK, CountInv, QuietInv, OrderInv,
         Open \/ StartLive \/ StartFails \/ StartRejected
  PROVE  OrderInv'
<1> USE DEF OrderInv
<1>1. pc \in {"open", "starting"} /\ outcome = "none" /\ delivered = <<>> /\ buffered = <<>>
  BY DEF Open, StartLive, StartFails, StartRejected, BufferInv, TypeOK
<1>2. UNCHANGED delivered /\ buffered' = <<>>
  BY <1>1 DEF Open, StartLive, StartFails, StartRejected, NextAttempt
<1>3. outcome' \notin {"complete", "broken"}
  BY <1>1 DEF Open, StartLive, StartFails, StartRejected, NextAttempt, Finish
<1>4. EndInv' /\ NothingLost'
  BY <1>3 DEF EndInv, NothingLost
<1>5. DOMAIN delivered' = {} /\ DOMAIN buffered' = {} /\ Len(delivered') = 0 /\ Len(buffered') = 0
  BY <1>1, <1>2
<1>6. BufferInv' /\ DeliveredInOrder'
  BY <1>1, <1>2, <1>5 DEF BufferInv, DeliveredInOrder
<1>7. FlowInv'
  <2>1. CASE pc' \notin {"await", "read"}
    BY <2>1 DEF FlowInv
  <2>2. CASE StartLive
    <3>1. opened' = opened + 1 /\ opened' \in Sessions /\ opened' > opened
      BY <2>2, StreamAssumption, Bounds, SMTT(30) DEF StartLive, TypeOK, CountInv, Earlier, requestVars
    <3>2. channel'[opened'] = <<>>
      BY <2>2, <3>1 DEF StartLive, QuietInv
    <3>3. decoder'[opened'].pc = "reading" /\ decoder'[opened'].seen = 0
      BY <2>2, <3>1 DEF StartLive, QuietInv, TypeOK, Decoders
    <3>4. Taken' = 0
      BY <1>5 DEF Taken
    <3> QED
      BY <3>2, <3>3, <3>4 DEF FlowInv, Flow, Queued, Held
  <2> QED
    BY <2>1, <2>2 DEF Open, StartFails, StartRejected, NextAttempt, Finish
<1> QED
  BY <1>4, <1>6, <1>7

\* What both loops know when they take the first item of the channel.
LEMMA Taking ==
  ASSUME TypeOK, CountInv, FlowInv, pc \in {"await", "read"}, Receive, UNCHANGED <<opened, decoder>>
  PROVE  /\ opened \in Sessions /\ Taken \in Nat /\ Head(channel[opened]) \in Items
         /\ ~IsError(Head(channel[opened])) =>
               /\ Follows(Head(channel[opened]), Taken + 1)
               /\ Flow(channel'[opened'], decoder'[opened'], Taken + 1)
         /\ IsError(Head(channel[opened])) =>
               decoder[opened].pc = "exited" /\ (~cancelled => decoder[opened].seen = Taken)
<1> DEFINE q == channel[opened]
<1>1. opened \in Sessions /\ Taken \in Nat
  BY Bounds DEF TypeOK, Taken
<1>2. q \in Seq(Items) /\ q # <<>> /\ channel'[opened'] = Tail(q) /\ decoder' = decoder
  BY <1>1 DEF TypeOK, Receive
<1>3. Head(q) = q[1] /\ q[1] \in Items
  BY <1>2
<1>4. Flow(q, decoder[opened], Taken)
  BY DEF FlowInv
<1> HIDE DEF q
<1>5. ~IsError(q[1]) =>
         Flow(Tail(q), decoder[opened], Taken + 1) /\ Follows(q[1], Taken + 1)
  BY <1>1, <1>2, <1>4, FlowTail
<1>6. IsError(q[1]) =>
         decoder[opened].pc = "exited" /\ (~cancelled => decoder[opened].seen = Taken)
  BY <1>1, <1>2, <1>4, FlowError
<1> QED
  BY <1>1, <1>2, <1>3, <1>5, <1>6 DEF q

\* Events in order are handed on, and what is left of the flow follows them.
LEMMA HandOnOrder ==
  ASSUME TypeOK, NEW events, HandOn(events), buffered' = <<>>,
         UNCHANGED <<opened, cancelled>>, outcome = "none",
         delivered' \in Seq(Items), InOrder(delivered'),
         Flow(channel'[opened'], decoder'[opened'], Len(delivered'))
  PROVE  OrderInv'
<1>1. pc' \in {"read", "done"} /\ outcome' \in {"none", "early"}
  BY DEF HandOn, Finish
<1>2. DOMAIN delivered' = 1 .. Len(delivered') /\ Len(delivered') \in Nat
      /\ DOMAIN buffered' = {} /\ Len(buffered') = 0
  OBVIOUS
<1>3. BufferInv'
  BY <1>1, <1>2 DEF BufferInv
<1>4. DeliveredInOrder'
  BY <1>2 DEF DeliveredInOrder, InOrder, Follows
<1>5. EndInv' /\ NothingLost'
  BY <1>1 DEF EndInv, NothingLost
<1>6. Taken' = Len(delivered')
  BY <1>2 DEF Taken
<1>7. FlowInv'
  BY <1>6, FlowSame
<1> QED
  BY <1>3, <1>4, <1>5, <1>7 DEF OrderInv

\* Nothing has gone out when a session is given up, or the wait is.
LEMMA LeaveOrder ==
  ASSUME OrderInv, pc = "await", delivered' = delivered, pc' \in {"open", "done"},
         pc' = "open" => buffered' = <<>>, outcome' \in {"none", "failed", "cancelled"}
  PROVE  OrderInv'
<1>1. delivered' = <<>> /\ DOMAIN delivered' = {}
  BY DEF OrderInv, BufferInv
<1> QED
  BY <1>1 DEF OrderInv, BufferInv, FlowInv, EndInv, NothingLost, DeliveredInOrder

\* Waiting for the first output: what is buffered is in order, and goes out first.
LEMMA AwaitOrder ==
  ASSUME TypeOK, CountInv, OrderInv,
         AwaitTimeout \/ AwaitCancelled \/ AwaitEvent \/ AwaitEnd
  PROVE  OrderInv'
<1>1. pc = "await" /\ outcome = "none" /\ delivered = <<>> /\ delivered \in Seq(Items)
  BY DEF AwaitTimeout, AwaitCancelled, AwaitEvent, AwaitEnd, OrderInv, BufferInv, TypeOK
<1>2. buffered \in Seq(Items) /\ InOrder(buffered) /\ Taken = Len(buffered)
  BY <1>1, Places DEF OrderInv, BufferInv, TypeOK, Taken
<1>3. ASSUME NextAttempt, UNCHANGED delivered PROVE OrderInv'
  BY <1>1, <1>3, LeaveOrder DEF NextAttempt
<1>4. CASE AwaitTimeout
  BY <1>3, <1>4 DEF AwaitTimeout
<1>5. CASE AwaitCancelled
  BY <1>1, <1>5, LeaveOrder DEF AwaitCancelled, Finish
<1>6. CASE AwaitEvent
  <2> DEFINE item == Head(channel[opened])
             more == Append(buffered, item)
  <2>1. Receive /\ UNCHANGED <<requestVars, opened, decoder, fired, cancelled>>
    BY <1>6 DEF AwaitEvent
  <2>2. /\ item \in Items
        /\ ~IsError(item) =>
              Follows(item, Taken + 1) /\ Flow(channel'[opened'], decoder'[opened'], Taken + 1)
    BY <1>1, <2>1, Taking DEF OrderInv
  <2> HIDE DEF item
  <2>3. ~IsError(item) => more \in Seq(Items) /\ InOrder(more) /\ Len(more) = Taken + 1
    BY <1>2, <2>2, InOrderAppend
  <2>4. CASE Finish("failed") /\ UNCHANGED <<buffered, delivered>>
    BY <1>1, <2>4, LeaveOrder DEF Finish
  <2>5. CASE /\ item.kind = "quiet" /\ buffered' = more
             /\ UNCHANGED <<pc, outcome, stopped, delivered>>
    <3>1. ~IsError(item)
      BY <2>5 DEF IsError
    <3>2. InOrder(buffered') /\ Taken' = Taken + 1 /\ DOMAIN buffered' = 1 .. Len(buffered')
      BY <1>1, <2>3, <2>5, <3>1 DEF Taken
    <3>3. \A i \in DOMAIN buffered' : buffered'[i].session = opened' /\ buffered'[i].seq = i
      BY <2>1, <3>2 DEF InOrder, Follows
    <3>4. BufferInv' /\ DeliveredInOrder'
      BY <1>1, <2>5, <3>3 DEF BufferInv, DeliveredInOrder
    <3>5. FlowInv'
      BY <2>1, <2>2, <3>1, <3>2, FlowSame
    <3> QED
      BY <1>1, <2>5, <3>4, <3>5 DEF OrderInv, EndInv, NothingLost
  <2>6. CASE item.kind \in {"output", "exception"} /\ HandOn(more) /\ buffered' = <<>>
    <3>1. ~IsError(item)
      BY <2>6 DEF IsError
    <3> HIDE DEF more
    <3>2. delivered' = more
      BY <1>1, <2>3, <2>6, <3>1 DEF HandOn
    <3> QED
      BY <1>1, <2>1, <2>2, <2>3, <2>6, <3>1, <3>2, HandOnOrder
  <2> QED
    BY <1>6, <2>4, <2>5, <2>6 DEF AwaitEvent, item
<1>7. CASE AwaitEnd
  <2>1. CASE NextAttempt /\ UNCHANGED delivered
    BY <1>3, <2>1
  <2>2. CASE /\ HandOn(buffered) /\ buffered' = <<>>
             /\ UNCHANGED <<requestVars, fired, channel, decoder, opened, cancelled>>
    <3>1. delivered' = buffered
      BY <1>1, <1>2, <2>2 DEF HandOn
    <3>2. Flow(channel'[opened'], decoder'[opened'], Len(delivered'))
      BY <1>1, <1>2, <2>2, <3>1 DEF OrderInv, FlowInv
    <3> QED
      BY <1>1, <1>2, <2>2, <3>1, <3>2, HandOnOrder
  <2> QED
    BY <1>7, <2>1, <2>2 DEF AwaitEnd
<1> QED
  BY <1>4, <1>5, <1>6, <1>7

\* The loop hands on each event as it comes, and sees the end after the last one.
LEMMA ReadOrder ==
  ASSUME TypeOK, CountInv, OrderInv, ReadEvent \/ ReadEnd
  PROVE  OrderInv'
<1>1. pc = "read" /\ outcome = "none" /\ buffered = <<>> /\ opened \in Sessions /\ opened > 0
  BY Bounds DEF ReadEvent, ReadEnd, OrderInv, BufferInv, TypeOK, CountInv
<1>2. /\ delivered \in Seq(Items) /\ InOrder(delivered) /\ Taken = Len(delivered)
      /\ Len(delivered) \in Nat
  BY <1>1, Places DEF OrderInv, TypeOK, Taken
<1>3. UNCHANGED <<opened, decoder, cancelled, buffered>>
  BY DEF ReadEvent, ReadEnd
<1>4. ASSUME pc' = "done", InOrder(delivered'), delivered' \in Seq(Items), EndInv', NothingLost'
      PROVE  OrderInv'
  <2>1. DeliveredInOrder'
    BY <1>3, <1>4 DEF DeliveredInOrder, InOrder, Follows
  <2> QED
    BY <1>4, <2>1 DEF OrderInv, BufferInv, FlowInv
<1>5. CASE ReadEvent
  <2> DEFINE item == Head(channel[opened])
  <2>1. Receive
    BY <1>5 DEF ReadEvent
  <2>2. /\ item \in Items
        /\ ~IsError(item) =>
              Follows(item, Taken + 1) /\ Flow(channel'[opened'], decoder'[opened'], Taken + 1)
        /\ IsError(item) =>
              decoder[opened].pc = "exited" /\ (~cancelled => decoder[opened].seen = Taken)
    BY <1>1, <1>3, <2>1, Taking DEF OrderInv
  <2> HIDE DEF item
  <2>3. /\ delivered \o <<item>> = Append(delivered, item)
        /\ ~IsError(item) => /\ Append(delivered, item) \in Seq(Items)
                            /\ InOrder(Append(delivered, item))
                            /\ Len(Append(delivered, item)) = Taken + 1
    <3>1. delivered \o <<item>> = Append(delivered, item)
      BY <1>2, <2>2
    <3> QED
      BY <1>2, <2>2, <3>1, InOrderAppend
  <2>4. CASE item.kind = "error" /\ Finish("broken") /\ Close(opened) /\ UNCHANGED delivered
    <3>1. IsError(item)
      BY <2>4 DEF IsError
    <3>2. EndInv' /\ NothingLost'
      BY <1>1, <1>2, <1>3, <2>2, <3>1, <2>4 DEF EndInv, NothingLost
    <3>3. InOrder(delivered')
      BY <1>2, <1>3, <2>4 DEF InOrder, Follows
    <3> QED
      BY <1>2, <1>4, <2>4, <3>2, <3>3 DEF Finish
  <2>5. CASE item.kind # "error" /\ HandOn(<<item>>)
    <3>1. ~IsError(item) /\ delivered' = Append(delivered, item)
      BY <2>3, <2>5 DEF IsError, HandOn
    <3> QED
      BY <1>1, <1>3, <2>2, <2>3, <2>5, <3>1, HandOnOrder
  <2>6. CASE /\ item.kind # "error" /\ delivered' = Append(delivered, item)
             /\ Finish("disconnected") /\ Close(opened)
    <3>1. ~IsError(item)
      BY <2>6 DEF IsError
    <3>2. EndInv' /\ NothingLost' /\ pc' = "done"
      BY <2>6 DEF EndInv, NothingLost, Finish
    <3> QED
      BY <1>4, <2>3, <2>6, <3>1, <3>2
  <2> QED
    BY <1>5, <2>4, <2>5, <2>6 DEF ReadEvent, item
<1>6. CASE ReadEnd
  <2>1. channel[opened] = <<>> /\ decoder[opened].pc = "exited"
    BY <1>6 DEF ReadEnd, Drained
  <2>2. EventsIn(channel[opened]) = 0
    BY <2>1 DEF EventsIn
  <2>3. ~cancelled => decoder[opened].seen = Taken
    BY <1>1, <1>2, <2>1, <2>2 DEF OrderInv, FlowInv, Flow, Held
  <2>4. UNCHANGED delivered /\ pc' = "done" /\ outcome' = "complete"
    BY <1>6 DEF ReadEnd, Finish
  <2>5. EndInv' /\ NothingLost'
    BY <1>1, <1>2, <1>3, <2>1, <2>3, <2>4 DEF EndInv, NothingLost
  <2>6. InOrder(delivered')
    BY <1>2, <1>3, <2>4 DEF InOrder, Follows
  <2> QED
    BY <1>2, <1>4, <2>4, <2>5, <2>6
<1> QED
  BY <1>5, <1>6

\* The decoders, the timer and the client leave the handler's part alone.
LEMMA OthersOrder ==
  ASSUME TypeOK, CountInv, OrderInv,
         \/ TimerFires \/ Disconnect \/ UNCHANGED vars
         \/ \E s \in 1 .. opened : DecoderStep(s)
  PROVE  OrderInv'
<1>1. UNCHANGED <<pc, opened, buffered, delivered, outcome>>
  BY DEF TimerFires, Disconnect, vars, DecoderStep, Frame, ReadFails, EndOfBody,
         Send, Drop, decoderFrame
<1>2. BufferInv' /\ DeliveredInOrder' /\ Taken' = Taken
  BY <1>1 DEF OrderInv, BufferInv, DeliveredInOrder, Taken
<1>3. ASSUME cancelled => cancelled', channel'[opened] = channel[opened],
             decoder'[opened] = decoder[opened]
      PROVE  OrderInv'
  <2>1. FlowInv'
    BY <1>1, <1>2, <1>3, FlowSame DEF OrderInv, FlowInv
  <2>2. EndInv' /\ NothingLost'
    BY <1>1, <1>3 DEF OrderInv, EndInv, NothingLost
  <2> QED
    BY <1>2, <2>1, <2>2 DEF OrderInv
<1>4. CASE TimerFires \/ Disconnect \/ UNCHANGED vars
  BY <1>3, <1>4 DEF TimerFires, Disconnect, vars
<1>5. ASSUME NEW s \in 1 .. opened, DecoderStep(s) PROVE OrderInv'
  <2>1. /\ s \in Sessions /\ cancelled' = cancelled
        /\ decoder \in [Sessions -> Decoders] /\ channel \in [Sessions -> Seq(Items)]
    <3>1. s \in Sessions /\ decoder \in [Sessions -> Decoders] /\ channel \in [Sessions -> Seq(Items)]
      BY <1>5, StreamAssumption DEF TypeOK, Sessions
    <3>2. UNCHANGED decoderFrame
      BY <1>5 DEF DecoderStep, Frame, ReadFails, EndOfBody, Send, Drop
    <3> QED
      BY <3>1, <3>2 DEF decoderFrame
  <2>2. CASE s # opened
    <3>1. opened \in Sessions
      BY <1>5, <2>1 DEF TypeOK, Sessions
    <3>2. channel'[opened] = channel[opened] /\ decoder'[opened] = decoder[opened]
      BY <1>5, <2>1, <2>2, <3>1
         DEF DecoderStep, Frame, ReadFails, EndOfBody, Send, Drop
    <3> QED
      BY <1>3, <2>1, <3>2
  <2>3. CASE s = opened
    <3>1. FlowInv'
      <4>1. CASE pc \in {"await", "read"}
        BY <1>5, <2>3, <4>1, DecoderFlow DEF OrderInv
      <4>2. CASE pc \notin {"await", "read"}
        BY <1>1, <4>2 DEF FlowInv
      <4> QED
        BY <4>1, <4>2
    <3>2. EndInv' /\ NothingLost'
      <4>1. decoder[s].pc # "exited"
        BY <1>5 DEF DecoderStep, Frame, ReadFails, EndOfBody, Send, Drop
      <4>2. ~(outcome' \in {"complete", "broken"} /\ ~cancelled')
        BY <1>1, <2>1, <2>3, <4>1 DEF OrderInv, EndInv
      <4> QED
        BY <4>2 DEF EndInv, NothingLost
    <3> QED
      BY <1>2, <3>1, <3>2 DEF OrderInv
  <2> QED
    BY <2>2, <2>3
<1> QED
  BY <1>4, <1>5

-----------------------------------------------------------------------------

\* Before anything was opened.
LEMMA InitInv == Init => StreamInv
<1> SUFFICES ASSUME Init PROVE StreamInv
  OBVIOUS
<1>1. TypeOK
  <2>1. /\ Attempts \in Nat \ {0} /\ 1 \in Sessions /\ Sessions \subseteq 1 .. 2 * Attempts - 1
        /\ 0 \in 0 .. MaxEvents /\ 0 \in 0 .. 2 * Attempts - 1 /\ 1 \in 1 .. Attempts + 1
    BY StreamAssumption DEF Sessions
  <2>2. [pc |-> "none", item |-> NoItem, seen |-> 0] \in Decoders
    BY <2>1, ItemTypes DEF Decoders
  <2>3. decoder \in [Sessions -> Decoders] /\ \A s \in Sessions : decoder[s].pc = "none" /\ s > opened
    BY <2>1, <2>2 DEF Init
  <2>4. <<>> \in Seq(Items) /\ Len(<<>>) <= Capacity
    BY StreamAssumption
  <2>5. channel \in [Sessions -> Seq(Items)] /\ \A s \in Sessions : Len(channel[s]) <= Capacity
    BY <2>4 DEF Init
  <2>6. /\ stripped \in BOOLEAN /\ reasoning \in BOOLEAN /\ streaming \in BOOLEAN
        /\ fired \in BOOLEAN /\ cancelled \in BOOLEAN
    BY DEF Init
  <2> QED
    BY <2>1, <2>3, <2>4, <2>5, <2>6 DEF Init, TypeOK, Outcomes
<1>2. CountInv /\ OneConnection /\ QuietInv
  BY StreamAssumption DEF Init, CountInv, Earlier, OneConnection, QuietInv, Sessions
<1>3. OrderInv
  BY DEF Init, OrderInv, BufferInv, FlowInv, EndInv, DeliveredInOrder, NothingLost
<1> QED
  BY <1>1, <1>2, <1>3 DEF StreamInv

\* The inductive invariant.
LEMMA NextInv == StreamInv /\ [Next]_vars => StreamInv'
<1> SUFFICES ASSUME StreamInv, [Next]_vars PROVE StreamInv'
  OBVIOUS
<1> USE DEF StreamInv
<1>1. TypeOK' /\ CountInv' /\ OneConnection' /\ QuietInv'
  BY NextType, NextOneConnection, NextQuiet
<1>2. OrderInv'
  BY RetryOrder, AwaitOrder, ReadOrder, OthersOrder DEF Next, HandlerStep
<1> QED
  BY <1>1, <1>2

\* The invariant holds in every state of every request.
THEOREM StreamInvariant == Spec => []StreamInv
<1>1. Init => StreamInv
  BY InitInv
<1>2. StreamInv /\ [Next]_vars => StreamInv'
  BY NextInv
<1> QED
  BY <1>1, <1>2, PTL DEF Spec

\* Types, for every number of attempts and size of the channel: no channel holds
\* more than its capacity, and a request opens at most twice its attempts less one.
THEOREM TypeCorrect == Spec => []TypeOK
<1>1. StreamInv => TypeOK
  BY DEF StreamInv
<1> QED
  BY <1>1, StreamInvariant, PTL

\* The client is handed the events of one session, the last one opened, from its
\* first one on, in the order upstream sent them (stream_core.go:124, :163-164).
THEOREM EventsInOrder == Spec => []DeliveredInOrder
<1>1. StreamInv => DeliveredInOrder
  BY DEF StreamInv, OrderInv
<1> QED
  BY <1>1, StreamInvariant, PTL

\* A body read to its end, or to where it breaks, is handed on in full.
THEOREM EventsAreComplete == Spec => []NothingLost
<1>1. StreamInv => NothingLost
  BY DEF StreamInv, OrderInv
<1> QED
  BY <1>1, StreamInvariant, PTL

\* A request holds one upstream connection at most, and none once it is over.
THEOREM ConnectionIsHeldOnce == Spec => []OneConnection
<1>1. StreamInv => OneConnection
  BY DEF StreamInv
<1> QED
  BY <1>1, StreamInvariant, PTL
=============================================================================
