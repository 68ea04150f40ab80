------------------------------- MODULE Gateway -------------------------------
(***************************************************************************)
(* internal/api and internal/kiro together: the three loops that stand     *)
(* between a client's request and the backend. openStream sends a request  *)
(* in one shape and, if a reasoning signature is refused, once more without *)
(* the reasoning; openStreamOnce opens up to Attempts sessions for a shape; *)
(* and each session makes one call of doWithRetry, which is RetryClient.   *)
(*                                                                         *)
(* The session's events are StreamSession's business: here a session is    *)
(* what awaitFirstToken makes of it, and the connection it holds. No layer *)
(* closes what the layer below hands it but by a call of its own: where    *)
(* the code has none, the connection stays in open.                        *)
(***************************************************************************)
EXTENDS RetryClient

CONSTANTS Attempts      \* FIRST_TOKEN_MAX_RETRIES, at least 1

ASSUME SessionsAssumption == Attempts \in Nat \ {0}

VARIABLES
    phase,          \* "again" (the top of openStreamOnce's loop), "calling",
                    \* "refusing" (the body of an error is read), "waiting",
                    \* "serving" (the handler reads), "served", "failed"
    attempt,        \* sessions begun in this shape of the request
    reasoning,      \* the request carries signed reasoning
    stripped,       \* strippedReasoning
    sends           \* history: requests that reached the network

callVars == <<pc, saw, held, lastErr, result>>
sessionVars == <<phase, attempt, reasoning, stripped>>
gatewayVars == <<vars, sessionVars, sends>>

GatewayInit ==
    /\ Init
    /\ phase = "again"
    /\ attempt = 0
    /\ reasoning \in BOOLEAN
    /\ stripped = FALSE
    /\ sends = 0

-----------------------------------------------------------------------------
(* openStreamOnce: the loop, and the session's call.                        *)

\* A session begins: a call of doWithRetry from its first line. It knows nothing
\* of connections that earlier sessions may have left open.
NewCall ==
    /\ phase' = "calling"
    /\ pc' = "next"
    /\ saw' = <<>> /\ held' = 0 /\ lastErr' = 0
    /\ result' = Result("none", 0)

\* A variant of the next action in which a failed attempt is not counted.
Again_NotCounted ==
    /\ phase = "again"
    /\ IF cancelled THEN phase' = "failed" /\ UNCHANGED callVars ELSE NewCall
    /\ UNCHANGED <<attempt, reasoning, stripped, open, cancelled, sends>>

\* A variant in which an attempt that ends with the context does not count, and
\* the loop does not look at the context itself.
Again_UntilContextReturns ==
    /\ phase = "again"
    /\ IF attempt = Attempts
          THEN phase' = "failed" /\ UNCHANGED <<callVars, attempt>>
          ELSE NewCall /\ attempt' = IF result.kind = "ctx" THEN attempt ELSE attempt + 1
    /\ UNCHANGED <<reasoning, stripped, open, cancelled, sends>>

\* The top of the loop: the attempts are used up, or the client is gone, or
\* another session begins.
Again ==
    /\ phase = "again"
    /\ IF attempt = Attempts \/ cancelled
          THEN phase' = "failed" /\ UNCHANGED <<callVars, attempt>>
          ELSE NewCall /\ attempt' = attempt + 1
    /\ UNCHANGED <<reasoning, stripped, open, cancelled, sends>>

\* Every exchange goes over the network.
Call ==
    /\ phase = "calling"
    /\ Step
    /\ sends' = IF pc = "exchange" THEN sends + 1 ELSE sends
    /\ UNCHANGED sessionVars

CallReturned == phase = "calling" /\ pc = "done"
IsOK == result.kind = "response" /\ saw[result.n] = "ok"

\* How a step of the session leaves its connection.
GoOn(where) ==
    /\ phase' = where
    /\ UNCHANGED open
Close(where) ==
    /\ phase' = where
    /\ open' = open \ {result.n}

SessionUnchanged == UNCHANGED <<callVars, attempt, reasoning, stripped, cancelled, sends>>

\* 200: the session is open, and its first output is awaited.
SessionOpens ==
    /\ CallReturned /\ IsOK
    /\ GoOn("waiting")
    /\ SessionUnchanged

\* The call failed without an answer: the token provider, the network, a token
\* refused again and again, the client gone. The loop goes on.
SessionFails ==
    /\ CallReturned /\ result.kind # "response"
    /\ GoOn("again")
    /\ SessionUnchanged

\* Any other status: ReadErrorResponse begins to read the body.
SessionRefused ==
    /\ CallReturned /\ result.kind = "response" /\ ~IsOK
    /\ GoOn("refusing")
    /\ SessionUnchanged

\* openStream: an API error is final, except that the reasoning is taken out of
\* the request and openStreamOnce begun again, if there is any, once.
Answer(signatureInvalid) ==
    IF signatureInvalid /\ ~stripped /\ reasoning
       THEN /\ phase' = "again"
            /\ stripped' = TRUE
            /\ reasoning' = FALSE
            /\ attempt' = 0
       ELSE /\ phase' = "failed"
            /\ UNCHANGED <<attempt, reasoning, stripped>>

\* A variant of the next action in which the body is read but not closed.
RefusalRead_LeavesBody ==
    /\ phase = "refusing"
    /\ UNCHANGED open
    /\ \E signatureInvalid \in BOOLEAN : Answer(signatureInvalid)
    /\ UNCHANGED <<callVars, cancelled, sends>>

\* The body has been read, whole or not, into an API error: it is closed, and the
\* error goes through both loops.
RefusalRead ==
    /\ phase = "refusing"
    /\ open' = open \ {result.n}
    /\ \E signatureInvalid \in BOOLEAN : Answer(signatureInvalid)
    /\ UNCHANGED <<callVars, cancelled, sends>>

-----------------------------------------------------------------------------
(* awaitFirstToken, and what openStreamOnce does about it. Each way out has *)
(* its own sess.close(), or none.                                           *)

\* Output, or an exception: the handler takes the session over.
FirstOutput ==
    /\ phase = "waiting"
    /\ GoOn("serving")
    /\ SessionUnchanged

\* A variant of the next action that tries again without closing the session.
TimerFires_LeavesOpen ==
    /\ phase = "waiting"
    /\ GoOn("again")
    /\ SessionUnchanged

TimerFires ==
    /\ phase = "waiting"
    /\ Close("again")
    /\ SessionUnchanged

\* A body that ends with no output; on the last attempt that is an answer too.
EmptyBody ==
    /\ phase = "waiting"
    /\ IF attempt < Attempts THEN Close("again") ELSE GoOn("serving")
    /\ SessionUnchanged

WaitCancelled ==
    /\ phase = "waiting" /\ cancelled
    /\ Close("failed")
    /\ SessionUnchanged

\* The body breaks, or holds what ParseEvent refuses.
WaitBreaks ==
    /\ phase = "waiting"
    /\ Close("failed")
    /\ SessionUnchanged

\* The handler's deferred sess.close().
HandlerReturns ==
    /\ phase = "serving"
    /\ Close("served")
    /\ SessionUnchanged

Settled == phase \in {"serving", "served", "failed"}

ClientLeaves ==
    /\ ~Settled
    /\ Cancel
    /\ UNCHANGED <<sessionVars, sends>>

-----------------------------------------------------------------------------

Progress ==
    \/ Again \/ Call \/ SessionOpens \/ SessionFails \/ SessionRefused \/ RefusalRead
    \/ FirstOutput \/ TimerFires \/ EmptyBody \/ WaitCancelled \/ WaitBreaks

GatewayNext == Progress \/ ClientLeaves \/ HandlerReturns

\* The body of a response that is not a 200 is being read from the network.
ReadsErrorBody ==
    \/ phase = "calling" /\ pc \in {"drain", "buffer"}
    \/ phase = "refusing" /\ open # {}

\* What a request waits for ends by itself: Token and ForceRefresh within the
\* refresh timeouts, the exchange within ResponseHeaderTimeout, the sleep, the
\* wait for a first output when the timer fires. Reading the body of an error
\* does not: the client for streams has no timeout once the headers are in. It
\* ends for certain only when the context does, which makes the read fail.
GatewaySpec ==
    /\ GatewayInit /\ [][GatewayNext]_gatewayVars
    /\ WF_gatewayVars(Progress /\ (ReadsErrorBody => cancelled))

-----------------------------------------------------------------------------
(* Properties.                                                              *)

\* The three loops multiply and no more: a shape of the request is sent at most
\* Attempts * MaxAttempts times, also if every token is refused with a 403, and
\* taking out the reasoning starts the count again once (stream_core.go:160-187).
SendsBounded ==
    sends <= (IF stripped THEN 2 ELSE 1) * Attempts * MaxAttempts

\* Through all layers a request holds one connection at most, that of its last
\* session. Nothing is left open when another session begins or openStream has
\* failed, on any way there, nor once the handler is done; while the handler
\* reads, the session it was given is open (stream_core.go:61-65, :216-247).
HoldsOneConnection ==
    /\ phase \in {"again", "failed", "served"} => open = {}
    /\ phase \in {"waiting", "serving"} => open = {result.n}
    /\ phase = "refusing" => open \subseteq {result.n}

\* A request settles, whatever the backend does and also if the client stays,
\* unless it is held for ever by the body of an error that neither goes on nor
\* ends; once the client has left, it settles in any case.
RequestSettles == <>Settled \/ <>[](ReadsErrorBody /\ ~cancelled)
=============================================================================
