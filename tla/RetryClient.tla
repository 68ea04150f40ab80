---------------------------- MODULE RetryClient ----------------------------
(***************************************************************************)
(* internal/kiro: one call of Client.doWithRetry, which sends a request to *)
(* the Kiro backend up to MaxAttempts times.                               *)
(*                                                                         *)
(* The credentials come from TokenManager, seen here through its interface *)
(* only: Token and ForceRefresh return or fail. The backend answers what   *)
(* it likes, and the caller's context may be cancelled at any moment.      *)
(*                                                                         *)
(* An atomic step lies between two points where the code can block: asking *)
(* for a token, the exchange, reading the body of an error, the refresh    *)
(* after a 403, the backoff sleep.                                         *)
(***************************************************************************)
EXTENDS Naturals, Sequences

CONSTANTS MaxAttempts       \* the constant maxAttempts

ASSUME AttemptsAssumption == MaxAttempts \in Nat \ {0}

VARIABLES
    pc,             \* where the call is blocked, or "done"
    saw,            \* what the attempts made so far came to
    held,           \* lastRetryable: the attempt whose response is kept, 0 if nil
    lastErr,        \* lastErr: the attempt whose exchange failed last, 0 if nil
    open,           \* attempts whose response still holds its connection
    cancelled,      \* ctx.Err() is not nil
    result          \* what the call returned

vars == <<pc, saw, held, lastErr, open, cancelled, result>>

\* An exchange yields 200, 403, one of 429 and 5xx, another status, or no
\* response at all.
Outcomes == {"ok", "forbidden", "busy", "refused", "unreachable"}

\* kind "response": the response of attempt n goes to the caller. "ctx": the
\* context's error. "auth": the token provider's. "transport": the network's.
\* "rejected": the backend refused the token on all attempts.
Results == [kind : {"none", "response", "ctx", "auth", "transport", "rejected"},
            n    : 0 .. MaxAttempts]

Result(kind, n) == [kind |-> kind, n |-> n]

TypeOK ==
    /\ pc \in {"next", "token", "exchange", "drain", "buffer", "refresh", "sleep", "done"}
    /\ saw \in Seq(Outcomes) /\ Len(saw) <= MaxAttempts
    /\ held \in 0 .. Len(saw)
    /\ lastErr \in 0 .. Len(saw)
    /\ open \subseteq 1 .. Len(saw)
    /\ cancelled \in BOOLEAN
    /\ result \in Results
    /\ pc = "done" <=> result.kind # "none"

Init ==
    /\ pc = "next"
    /\ saw = <<>>
    /\ held = 0
    /\ lastErr = 0
    /\ open = {}
    /\ cancelled = FALSE
    /\ result = Result("none", 0)

-----------------------------------------------------------------------------

Attempt == Len(saw) + 1     \* the attempt being made, from 1

IsLast(n) == n = MaxAttempts

Return(kind, n) ==
    /\ pc' = "done"
    /\ result' = Result(kind, n)

\* A variant that reports a rejected token whenever there is no response to return.
Exhausted_ForgetsError ==
    /\ pc = "next"
    /\ Len(saw) = MaxAttempts
    /\ IF held # 0 THEN Return("response", held) ELSE Return("rejected", 0)
    /\ UNCHANGED <<saw, held, lastErr, open, cancelled>>

\* The loop has run out of attempts: a kept response first, then the error of
\* the network; otherwise every attempt was a 403.
Exhausted ==
    /\ pc = "next"
    /\ Len(saw) = MaxAttempts
    /\ IF held # 0 THEN Return("response", held)
       ELSE IF lastErr # 0 THEN Return("transport", lastErr)
       ELSE Return("rejected", 0)
    /\ UNCHANGED <<saw, held, lastErr, open, cancelled>>

\* The top of the loop looks at the context first.
BeginAttempt ==
    /\ pc = "next"
    /\ Len(saw) < MaxAttempts
    /\ IF cancelled THEN Return("ctx", 0)
                    ELSE pc' = "token" /\ UNCHANGED result
    /\ UNCHANGED <<saw, held, lastErr, open, cancelled>>

\* Token returns, or fails: because the refresh failed or the context ended.
GetToken ==
    /\ pc = "token"
    /\ \/ pc' = "exchange" /\ UNCHANGED result
       \/ Return("auth", 0)
    /\ UNCHANGED <<saw, held, lastErr, open, cancelled>>

\* client.Do fails. Of the network's own errors, only the last attempt's is returned.
Unreachable ==
    /\ pc = "exchange"
    /\ saw' = Append(saw, "unreachable")
    /\ lastErr' = Attempt
    /\ IF cancelled THEN Return("ctx", 0)
       ELSE IF IsLast(Attempt) THEN Return("transport", Attempt)
       ELSE pc' = "sleep" /\ UNCHANGED result
    /\ UNCHANGED <<held, open, cancelled>>

\* 200, and every status the caller has to interpret: returned with its
\* connection, which the caller closes.
Delivered ==
    /\ pc = "exchange"
    /\ \E outcome \in {"ok", "refused"} : saw' = Append(saw, outcome)
    /\ open' = open \cup {Attempt}
    /\ Return("response", Attempt)
    /\ UNCHANGED <<held, lastErr, cancelled>>

\* A response that is retried: its body is read next, as where says.
ReadBody(outcome, where) ==
    /\ pc = "exchange"
    /\ saw' = Append(saw, outcome)
    /\ open' = open \cup {Attempt}
    /\ pc' = where
    /\ UNCHANGED <<held, lastErr, cancelled, result>>

\* 403: drainAndClose, before the token is renewed.
Forbidden == ReadBody("forbidden", "drain")

\* 429 and 5xx: bufferResponse.
Busy == ReadBody("busy", "buffer")

\* A variant of the next step in which a 403 does not use up an attempt.
Drained_NotCounted ==
    /\ pc = "drain"
    /\ open' = open \ {Len(saw)}
    /\ saw' = SubSeq(saw, 1, Len(saw) - 1)
    /\ pc' = "refresh"
    /\ UNCHANGED <<held, lastErr, cancelled, result>>

\* The body has ended, or the limit is reached, or the read fails, as it does
\* when the context ends: the connection is free. This is done on the last
\* attempt too.
Drained ==
    /\ pc = "drain"
    /\ open' = open \ {Len(saw)}
    /\ pc' = "refresh"
    /\ UNCHANGED <<saw, held, lastErr, cancelled, result>>

\* A variant that sends the request again at once, past the loop's bound.
Refresh_SkipsBound ==
    /\ pc = "refresh"
    /\ pc' = "token"
    /\ UNCHANGED <<saw, held, lastErr, open, cancelled, result>>

Refresh ==
    /\ pc = "refresh"
    /\ \/ pc' = "next" /\ UNCHANGED result
       \/ Return("auth", 0)
    /\ UNCHANGED <<saw, held, lastErr, open, cancelled>>

\* Variants of the next step: one keeps the connection of a response it has
\* read, one keeps the first response of this kind and not the last.
Buffered_KeepsConnection ==
    /\ pc = "buffer"
    /\ held' = Len(saw)
    /\ pc' = IF IsLast(Len(saw)) THEN "next" ELSE "sleep"
    /\ UNCHANGED <<saw, lastErr, open, cancelled, result>>

Buffered_KeepsFirst ==
    /\ pc = "buffer"
    /\ held' = IF held = 0 THEN Len(saw) ELSE held
    /\ open' = open \ {Len(saw)}
    /\ pc' = IF IsLast(Len(saw)) THEN "next" ELSE "sleep"
    /\ UNCHANGED <<saw, lastErr, cancelled, result>>

\* The response is in memory, whole or not, which frees its connection, and
\* replaces the one kept so far.
Buffered ==
    /\ pc = "buffer"
    /\ held' = Len(saw)
    /\ open' = open \ {Len(saw)}
    /\ pc' = IF IsLast(Len(saw)) THEN "next" ELSE "sleep"
    /\ UNCHANGED <<saw, lastErr, cancelled, result>>

\* The backoff sleep does not look at the context.
Wake ==
    /\ pc = "sleep"
    /\ pc' = "next"
    /\ UNCHANGED <<saw, held, lastErr, open, cancelled, result>>

Cancel ==
    /\ ~cancelled
    /\ cancelled' = TRUE
    /\ UNCHANGED <<pc, saw, held, lastErr, open, result>>

Step ==
    \/ BeginAttempt \/ GetToken \/ Unreachable \/ Delivered \/ Forbidden \/ Drained
    \/ Refresh \/ Busy \/ Buffered \/ Wake \/ Exhausted

Next == Step \/ Cancel

Spec == Init /\ [][Next]_vars

-----------------------------------------------------------------------------
(* Properties.                                                              *)

\* However the attempts interleave 403s, busy answers and network errors, no
\* response keeps its connection except the one being read and the one handed to
\* the caller, who closes it; a response read into memory keeps none
\* (client.go:344, :357, :395-400).
ConnectionsReleased ==
    open \subseteq IF pc \in {"drain", "buffer"} THEN {Len(saw)}
                   ELSE IF result.kind = "response" /\ saw[result.n] # "busy" THEN {result.n}
                   ELSE {}

\* The advice to sign in again is given only when every attempt was a 403
\* (client.go:381): never for a call that met a busy backend or the network.
RejectedMeansAllForbidden ==
    result.kind = "rejected" => \A n \in 1 .. MaxAttempts : saw[n] = "forbidden"

\* A kept response is the newest of its kind, and every attempt that could be
\* made was made before it is returned (client.go:354-357).
KeptResponseIsNewest ==
    result.kind = "response" /\ saw[result.n] = "busy"
        => /\ Len(saw) = MaxAttempts
           /\ \A n \in result.n + 1 .. Len(saw) : saw[n] # "busy"
=============================================================================
