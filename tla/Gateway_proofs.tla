--------------------------- MODULE Gateway_proofs ---------------------------
(***************************************************************************)
(* RetryClient, and Gateway over it, for every number of attempts in       *)
(* either loop.                                                            *)
(*                                                                         *)
(* The properties of one call are not inductive alone: what the loop keeps *)
(* in its two variables has to be related to the attempts made so far.     *)
(* What RetryClient promises of one call then holds of every call a        *)
(* request makes, one connection is held through all layers, and the loops *)
(* only multiply.                                                          *)
(***************************************************************************)
EXTENDS Gateway, Integers, TLAPS

-----------------------------------------------------------------------------
(* One call.                                                                *)

\* What the loop knows while it runs: kept is the newest busy answer that has been
\* read, lastErr stands for a network error, anything else seen was a 403. A
\* request is only sent while there are attempts left.
LoopInv ==
    /\ \A n \in 1 .. Len(saw) :
          saw[n] = "busy" => (held # 0 /\ n <= held) \/ (pc = "buffer" /\ n = Len(saw))
    /\ held # 0 => saw[held] = "busy"
    /\ \A n \in 1 .. Len(saw) : saw[n] = "unreachable" => lastErr # 0
    /\ pc # "done" =>
          \A n \in 1 .. Len(saw) : saw[n] \in {"busy", "unreachable", "forbidden"}
    /\ pc \in {"token", "exchange"} => Len(saw) < MaxAttempts
    /\ pc = "drain" => Len(saw) > 0 /\ saw[Len(saw)] = "forbidden"
    /\ pc = "buffer" => Len(saw) > 0 /\ saw[Len(saw)] = "busy"

\* What is returned is within what was seen.
ResultInv == result.kind = "response" => result.n \in 1 .. Len(saw)

Inv ==
    /\ TypeOK
    /\ LoopInv
    /\ ResultInv
    /\ ConnectionsReleased
    /\ RejectedMeansAllForbidden
    /\ KeptResponseIsNewest

\* Nothing has been sent yet.
LEMMA InitInv == Init => Inv
<1> SUFFICES ASSUME Init PROVE Inv
  OBVIOUS
<1>1. saw \in Seq(Outcomes) /\ Len(saw) = 0
  BY DEF Init
<1>2. result = [kind |-> "none", n |-> 0] /\ result \in Results
  BY AttemptsAssumption DEF Init, Result, Results
<1>3. /\ pc = "next" /\ held = 0 /\ lastErr = 0
      /\ open = {} /\ cancelled = FALSE
  BY DEF Init
<1>4. TypeOK
  <2>1. Len(saw) <= MaxAttempts
    BY <1>1, AttemptsAssumption
  <2>2. held \in 0 .. Len(saw) /\ lastErr \in 0 .. Len(saw) /\ open \subseteq 1 .. Len(saw)
    BY <1>1, <1>3
  <2>3. cancelled \in BOOLEAN /\ (pc = "done" <=> result.kind # "none")
    BY <1>2, <1>3
  <2> QED
    BY <1>1, <1>2, <1>3, <2>1, <2>2, <2>3 DEF TypeOK
<1>5. LoopInv /\ ResultInv
  BY <1>1, <1>2, <1>3 DEF LoopInv, ResultInv
<1>6. ConnectionsReleased /\ RejectedMeansAllForbidden /\ KeptResponseIsNewest
  BY <1>2, <1>3 DEF ConnectionsReleased, RejectedMeansAllForbidden, KeptResponseIsNewest
<1> QED
  BY <1>4, <1>5, <1>6 DEF Inv

\* One more outcome: what was seen stays in place, and the new one comes last.
LEMMA AppendOutcome ==
  ASSUME TypeOK, NEW o \in Outcomes, Len(saw) < MaxAttempts
  PROVE  /\ Append(saw, o) \in Seq(Outcomes)
         /\ Len(Append(saw, o)) = Len(saw) + 1
         /\ \A n \in 1 .. Len(saw) : Append(saw, o)[n] = saw[n]
         /\ Append(saw, o)[Len(saw) + 1] = o
  BY DEF TypeOK

\* The connections that are open are those of attempts that were made.
LEMMA OneMoreOpen ==
  ASSUME NEW n \in Nat, NEW S, S \subseteq 1 .. n
  PROVE  S \cup {n + 1} \subseteq 1 .. n + 1
  OBVIOUS

\* Each step of the loop keeps the invariant.
LEMMA NextInv == Inv /\ [Next]_vars => Inv'
<1> SUFFICES ASSUME Inv, [Next]_vars PROVE Inv'
  OBVIOUS
<1> USE AttemptsAssumption
<1> USE DEF Inv
<1>1. CASE Exhausted
  BY <1>1 DEF Exhausted, Return, Result, Results, TypeOK, LoopInv, ResultInv,
     ConnectionsReleased, RejectedMeansAllForbidden, KeptResponseIsNewest, Outcomes
<1>2. CASE BeginAttempt
  BY <1>2 DEF BeginAttempt, Return, Result, Results, TypeOK, LoopInv, ResultInv,
     ConnectionsReleased, RejectedMeansAllForbidden, KeptResponseIsNewest
<1>3. CASE GetToken
  BY <1>3 DEF GetToken, Return, Result, Results, TypeOK, LoopInv, ResultInv,
     ConnectionsReleased, RejectedMeansAllForbidden, KeptResponseIsNewest
<1>4. CASE Unreachable
  <2>1. /\ saw' \in Seq(Outcomes) /\ Len(saw') = Len(saw) + 1 /\ Len(saw') <= MaxAttempts
        /\ \A n \in 1 .. Len(saw) : saw'[n] = saw[n]
        /\ saw'[Len(saw) + 1] = "unreachable"
    BY <1>4, AppendOutcome DEF Unreachable, Attempt, IsLast, Return, Result, TypeOK, LoopInv, Outcomes
  <2>2. open' \subseteq 1 .. Len(saw')
    BY <1>4, <2>1 DEF Unreachable, Attempt, IsLast, Return, Result, TypeOK
  <2>3. /\ held' \in 0 .. Len(saw') /\ lastErr' \in 0 .. Len(saw')
        /\ cancelled' \in BOOLEAN
    BY <1>4, <2>1 DEF Unreachable, Attempt, IsLast, Return, Result, TypeOK, LoopInv
  <2>4. result' \in Results /\ (pc' = "done" <=> result'.kind # "none")
    BY <1>4, <2>1 DEF Unreachable, Attempt, IsLast, Return, Result, Results, TypeOK
  <2>5. TypeOK'
    <3>1. pc' \in {"done", "sleep"}
      BY <1>4 DEF Unreachable, Attempt, IsLast, Return, Result
    <3> QED
      BY <2>1, <2>2, <2>3, <2>4, <3>1 DEF TypeOK
  <2>6. LoopInv'
    BY <1>4, <2>1 DEF Unreachable, Attempt, IsLast, Return, Result, TypeOK, LoopInv
  <2>7. ResultInv' /\ ConnectionsReleased'
    BY <1>4, <2>1 DEF Unreachable, Attempt, IsLast, Return, Result, TypeOK, LoopInv, ResultInv,
       ConnectionsReleased
  <2>8. RejectedMeansAllForbidden' /\ KeptResponseIsNewest'
    BY <1>4, <2>1 DEF Unreachable, Attempt, IsLast, Return, Result, TypeOK, LoopInv, ResultInv,
       RejectedMeansAllForbidden, KeptResponseIsNewest
  <2> QED
    BY <2>5, <2>6, <2>7, <2>8
<1>5. CASE Delivered
  <2>1. /\ saw' \in Seq(Outcomes) /\ Len(saw') = Len(saw) + 1 /\ Len(saw') <= MaxAttempts
        /\ \A n \in 1 .. Len(saw) : saw'[n] = saw[n]
        /\ saw'[Len(saw) + 1] \in {"ok", "refused"}
    BY <1>5, AppendOutcome DEF Delivered, Attempt, Return, Result, TypeOK, LoopInv, Outcomes
  <2>2. open' \subseteq 1 .. Len(saw')
    <3>1. open' = open \cup {Len(saw) + 1}
      BY <1>5 DEF Delivered, Attempt
    <3>2. open \subseteq 1 .. Len(saw) /\ Len(saw) \in Nat
      BY DEF TypeOK
    <3> QED
      BY <2>1, <3>1, <3>2, OneMoreOpen
  <2>3. /\ held' \in 0 .. Len(saw') /\ lastErr' \in 0 .. Len(saw')
        /\ cancelled' \in BOOLEAN
    BY <1>5, <2>1 DEF Delivered, Attempt, Return, Result, TypeOK, LoopInv
  <2>4. result' \in Results /\ (pc' = "done" <=> result'.kind # "none")
    BY <1>5, <2>1 DEF Delivered, Attempt, Return, Result, Results, TypeOK
  <2>5. TypeOK'
    <3>1. pc' \in {"done"}
      BY <1>5 DEF Delivered, Attempt, Return, Result
    <3> QED
      BY <2>1, <2>2, <2>3, <2>4, <3>1 DEF TypeOK
  <2>6. LoopInv'
    BY <1>5, <2>1 DEF Delivered, Attempt, Return, Result, TypeOK, LoopInv
  <2>7. ResultInv' /\ ConnectionsReleased'
    <3>1. pc' = "done" /\ result'.kind = "response" /\ result'.n = Len(saw) + 1
      BY <1>5 DEF Delivered, Attempt, Return, Result
    <3>2. open' = {Len(saw) + 1}
      <4>1. pc = "exchange" /\ open' = open \cup {Len(saw) + 1}
        BY <1>5 DEF Delivered, Attempt
      <4>2. result.kind = "none"
        BY <4>1 DEF TypeOK
      <4>3. open = {}
        BY <4>1, <4>2 DEF ConnectionsReleased
      <4> QED
        BY <4>1, <4>3
    <3>3. Len(saw) \in Nat
      BY DEF TypeOK
    <3> QED
      BY <2>1, <3>1, <3>2, <3>3 DEF ResultInv, ConnectionsReleased
  <2>8. RejectedMeansAllForbidden' /\ KeptResponseIsNewest'
    BY <1>5, <2>1 DEF Delivered, Attempt, Return, Result, TypeOK, LoopInv, ResultInv,
       RejectedMeansAllForbidden, KeptResponseIsNewest
  <2> QED
    BY <2>5, <2>6, <2>7, <2>8
<1>6. CASE Forbidden
  <2>1. /\ saw' \in Seq(Outcomes) /\ Len(saw') = Len(saw) + 1 /\ Len(saw') <= MaxAttempts
        /\ \A n \in 1 .. Len(saw) : saw'[n] = saw[n]
        /\ saw'[Len(saw) + 1] = "forbidden"
    BY <1>6, AppendOutcome DEF Forbidden, ReadBody, Attempt, TypeOK, LoopInv, Outcomes
  <2>2. open' \subseteq 1 .. Len(saw')
    <3>1. open' = open \cup {Len(saw) + 1}
      BY <1>6 DEF Forbidden, ReadBody, Attempt
    <3>2. open \subseteq 1 .. Len(saw) /\ Len(saw) \in Nat
      BY DEF TypeOK
    <3> QED
      BY <2>1, <3>1, <3>2, OneMoreOpen
  <2>3. /\ held' \in 0 .. Len(saw') /\ lastErr' \in 0 .. Len(saw')
        /\ cancelled' \in BOOLEAN
    BY <1>6, <2>1 DEF Forbidden, ReadBody, Attempt, TypeOK, LoopInv
  <2>4. result' \in Results /\ (pc' = "done" <=> result'.kind # "none")
    BY <1>6, <2>1 DEF Forbidden, ReadBody, Attempt, Results, TypeOK
  <2>5. TypeOK'
    <3>1. pc' \in {"drain"}
      BY <1>6 DEF Forbidden, ReadBody, Attempt
    <3> QED
      BY <2>1, <2>2, <2>3, <2>4, <3>1 DEF TypeOK
  <2>6. LoopInv'
    BY <1>6, <2>1 DEF Forbidden, ReadBody, Attempt, TypeOK, LoopInv
  <2>7. ResultInv' /\ ConnectionsReleased'
    BY <1>6, <2>1 DEF Forbidden, ReadBody, Attempt, TypeOK, LoopInv, ResultInv,
       ConnectionsReleased
  <2>8. RejectedMeansAllForbidden' /\ KeptResponseIsNewest'
    BY <1>6, <2>1 DEF Forbidden, ReadBody, Attempt, TypeOK, LoopInv, ResultInv,
       RejectedMeansAllForbidden, KeptResponseIsNewest
  <2> QED
    BY <2>5, <2>6, <2>7, <2>8
<1>7. CASE Busy
  <2>1. /\ saw' \in Seq(Outcomes) /\ Len(saw') = Len(saw) + 1 /\ Len(saw') <= MaxAttempts
        /\ \A n \in 1 .. Len(saw) : saw'[n] = saw[n]
        /\ saw'[Len(saw) + 1] = "busy"
    BY <1>7, AppendOutcome DEF Busy, ReadBody, Attempt, TypeOK, LoopInv, Outcomes
  <2>2. open' \subseteq 1 .. Len(saw')
    <3>1. open' = open \cup {Len(saw) + 1}
      BY <1>7 DEF Busy, ReadBody, Attempt
    <3>2. open \subseteq 1 .. Len(saw) /\ Len(saw) \in Nat
      BY DEF TypeOK
    <3> QED
      BY <2>1, <3>1, <3>2, OneMoreOpen
  <2>3. /\ held' \in 0 .. Len(saw') /\ lastErr' \in 0 .. Len(saw')
        /\ cancelled' \in BOOLEAN
    BY <1>7, <2>1 DEF Busy, ReadBody, Attempt, TypeOK, LoopInv
  <2>4. result' \in Results /\ (pc' = "done" <=> result'.kind # "none")
    BY <1>7, <2>1 DEF Busy, ReadBody, Attempt, Results, TypeOK
  <2>5. TypeOK'
    <3>1. pc' \in {"buffer"}
      BY <1>7 DEF Busy, ReadBody, Attempt
    <3> QED
      BY <2>1, <2>2, <2>3, <2>4, <3>1 DEF TypeOK
  <2>6. LoopInv'
    BY <1>7, <2>1 DEF Busy, ReadBody, Attempt, TypeOK, LoopInv
  <2>7. ResultInv' /\ ConnectionsReleased'
    BY <1>7, <2>1 DEF Busy, ReadBody, Attempt, TypeOK, LoopInv, ResultInv,
       ConnectionsReleased
  <2>8. RejectedMeansAllForbidden' /\ KeptResponseIsNewest'
    BY <1>7, <2>1 DEF Busy, ReadBody, Attempt, TypeOK, LoopInv, ResultInv,
       RejectedMeansAllForbidden, KeptResponseIsNewest
  <2> QED
    BY <2>5, <2>6, <2>7, <2>8
<1>8. CASE Buffered
  <2>1. saw' = saw /\ saw \in Seq(Outcomes) /\ Len(saw) \in Nat /\ Len(saw) <= MaxAttempts
    BY <1>8 DEF Buffered, IsLast, TypeOK
  <2>2. open' \subseteq 1 .. Len(saw')
    BY <1>8, <2>1 DEF Buffered, IsLast, TypeOK
  <2>3. /\ held' \in 0 .. Len(saw') /\ lastErr' \in 0 .. Len(saw')
        /\ cancelled' \in BOOLEAN
    BY <1>8, <2>1 DEF Buffered, IsLast, TypeOK, LoopInv
  <2>4. result' \in Results /\ (pc' = "done" <=> result'.kind # "none")
    BY <1>8, <2>1 DEF Buffered, IsLast, Results, TypeOK
  <2>5. TypeOK'
    <3>1. pc' \in {"next", "sleep"}
      BY <1>8 DEF Buffered, IsLast
    <3> QED
      BY <2>1, <2>2, <2>3, <2>4, <3>1 DEF TypeOK
  <2>6. LoopInv'
    BY <1>8, <2>1 DEF Buffered, IsLast, TypeOK, LoopInv
  <2>7. ResultInv' /\ ConnectionsReleased'
    BY <1>8, <2>1 DEF Buffered, IsLast, TypeOK, LoopInv, ResultInv,
       ConnectionsReleased
  <2>8. RejectedMeansAllForbidden' /\ KeptResponseIsNewest'
    BY <1>8, <2>1 DEF Buffered, IsLast, TypeOK, LoopInv, ResultInv,
       RejectedMeansAllForbidden, KeptResponseIsNewest
  <2> QED
    BY <2>5, <2>6, <2>7, <2>8
<1>9. CASE Drained
  <2>1. saw' = saw /\ saw \in Seq(Outcomes) /\ Len(saw) \in Nat /\ Len(saw) <= MaxAttempts
    BY <1>9 DEF Drained, TypeOK
  <2>2. open' \subseteq 1 .. Len(saw')
    BY <1>9, <2>1 DEF Drained, TypeOK
  <2>3. /\ held' \in 0 .. Len(saw') /\ lastErr' \in 0 .. Len(saw')
        /\ cancelled' \in BOOLEAN
    BY <1>9, <2>1 DEF Drained, TypeOK, LoopInv
  <2>4. result' \in Results /\ (pc' = "done" <=> result'.kind # "none")
    BY <1>9, <2>1 DEF Drained, Results, TypeOK
  <2>5. TypeOK'
    <3>1. pc' \in {"refresh"}
      BY <1>9 DEF Drained
    <3> QED
      BY <2>1, <2>2, <2>3, <2>4, <3>1 DEF TypeOK
  <2>6. LoopInv'
    BY <1>9, <2>1 DEF Drained, TypeOK, LoopInv
  <2>7. ResultInv' /\ ConnectionsReleased'
    BY <1>9, <2>1 DEF Drained, TypeOK, LoopInv, ResultInv,
       ConnectionsReleased
  <2>8. RejectedMeansAllForbidden' /\ KeptResponseIsNewest'
    BY <1>9, <2>1 DEF Drained, TypeOK, LoopInv, ResultInv,
       RejectedMeansAllForbidden, KeptResponseIsNewest
  <2> QED
    BY <2>5, <2>6, <2>7, <2>8
<1>10. CASE Refresh
  BY <1>10 DEF Refresh, Return, Result, Results, TypeOK, LoopInv, ResultInv,
     ConnectionsReleased, RejectedMeansAllForbidden, KeptResponseIsNewest
<1>11. CASE Wake \/ Cancel \/ UNCHANGED vars
  BY <1>11 DEF Wake, Cancel, vars, Results, TypeOK, LoopInv, ResultInv,
     ConnectionsReleased, RejectedMeansAllForbidden, KeptResponseIsNewest
<1> QED
  BY <1>1, <1>2, <1>3, <1>4, <1>5, <1>6, <1>7, <1>8, <1>9, <1>10, <1>11 DEF Next, Step

\* Every reachable state of the loop satisfies the inductive invariant.
LEMMA Invariance == Spec => []Inv
  BY InitInv, NextInv, PTL DEF Spec

\* The state of the loop is always of its type; in particular no call makes more
\* than MaxAttempts attempts (doWithRetry).
THEOREM TypeCorrect == Spec => []TypeOK
<1>1. Inv => TypeOK
  BY DEF Inv
<1> QED
  BY <1>1, Invariance, PTL

\* No response keeps its connection but the one handed to the caller, whatever
\* the number of attempts (doWithRetry, drainAndClose, bufferResponse).
THEOREM NoConnectionLeaks == Spec => []ConnectionsReleased
<1>1. Inv => ConnectionsReleased
  BY DEF Inv
<1> QED
  BY <1>1, Invariance, PTL

\* The advice to sign in again is given only after nothing but 403s.
THEOREM RejectedOnlyByBackend == Spec => []RejectedMeansAllForbidden
<1>1. Inv => RejectedMeansAllForbidden
  BY DEF Inv
<1> QED
  BY <1>1, Invariance, PTL

\* The response kept for the end is the newest busy one.
THEOREM NewestIsKept == Spec => []KeptResponseIsNewest
<1>1. Inv => KeptResponseIsNewest
  BY DEF Inv
<1> QED
  BY <1>1, Invariance, PTL

-----------------------------------------------------------------------------
(* A request, which makes several.                                          *)

\* Sessions begun, in both shapes of the request: taking out the reasoning uses up
\* what is left of the first one.
Begun == (IF stripped THEN Attempts ELSE 0) + attempt

\* The requests those sessions can have sent: MaxAttempts for each that is over,
\* and what the current call has seen.
Allowance ==
    IF phase \in {"again", "failed"} THEN Begun * MaxAttempts
    ELSE (Begun - 1) * MaxAttempts + Len(saw)

\* A call that has returned a response to be read returns it open.
HandedOpen ==
    result.kind = "response" /\ saw[result.n] # "busy" => result.n \in open

SessionInv ==
    /\ phase \in {"again", "calling", "refusing", "waiting", "serving", "served", "failed"}
    /\ attempt \in 0 .. Attempts
    /\ reasoning \in BOOLEAN /\ stripped \in BOOLEAN
    /\ phase \notin {"again", "failed"} => attempt >= 1
    /\ phase = "calling" => HandedOpen
    /\ phase = "refusing" => result.kind = "response" /\ open \subseteq {result.n}
    /\ phase \in {"waiting", "serving"} => open = {result.n}
    /\ phase \in {"again", "failed", "served"} => open = {}

CountInv == sends \in Nat /\ sends <= Allowance

GatewayInv == Inv /\ SessionInv /\ CountInv

\* A call begins as RetryClient does, in a context that may have ended, if nothing
\* was left open.
LEMMA CallBegins ==
  ASSUME NewCall, open' = {}, cancelled' \in BOOLEAN
  PROVE  Inv' /\ Len(saw') = 0
<1>1. saw' \in Seq(Outcomes) /\ Len(saw') = 0
  BY DEF NewCall
<1>2. result' = [kind |-> "none", n |-> 0] /\ result' \in Results
  BY AttemptsAssumption DEF NewCall, Result, Results
<1>3. pc' = "next" /\ held' = 0 /\ lastErr' = 0
  BY DEF NewCall
<1>4. TypeOK'
  <2>1. Len(saw') <= MaxAttempts
    BY <1>1, AttemptsAssumption
  <2>2. held' \in 0 .. Len(saw') /\ lastErr' \in 0 .. Len(saw') /\ open' \subseteq 1 .. Len(saw')
    BY <1>1, <1>3
  <2>3. pc' = "done" <=> result'.kind # "none"
    BY <1>2, <1>3
  <2> QED
    BY <1>1, <1>2, <1>3, <2>1, <2>2, <2>3 DEF TypeOK
<1>5. LoopInv' /\ ResultInv'
  BY <1>1, <1>2, <1>3 DEF LoopInv, ResultInv
<1>6. (ConnectionsReleased /\ RejectedMeansAllForbidden /\ KeptResponseIsNewest)'
  BY <1>2, <1>3 DEF ConnectionsReleased, RejectedMeansAllForbidden, KeptResponseIsNewest
<1> QED
  BY <1>1, <1>4, <1>5, <1>6 DEF Inv

\* Nothing else touches what a call has come to, except that connections close.
LEMMA CallRests ==
  ASSUME Inv, cancelled' \in BOOLEAN, UNCHANGED callVars, open' \subseteq open
  PROVE  Inv'
  BY DEF Inv, TypeOK, LoopInv, ResultInv, ConnectionsReleased,
     RejectedMeansAllForbidden, KeptResponseIsNewest, callVars

\* Products grow with their first factor.
LEMMA Multiply ==
  ASSUME NEW a \in Nat, NEW b \in Nat, NEW m \in Nat, a <= b
  PROVE  a * m \in Nat /\ a * m <= b * m /\ (a + 1) * m = a * m + m
  OBVIOUS

\* A session that is over has used what it was allowed at most.
LEMMA AllowanceLasts ==
  ASSUME GatewayInv, phase \notin {"again", "failed"}
  PROVE  /\ Begun \in Nat /\ Begun >= 1 /\ MaxAttempts \in Nat
         /\ Allowance <= Begun * MaxAttempts
         /\ Begun * MaxAttempts \in Nat
<1>1. /\ attempt \in 1 .. Attempts /\ stripped \in BOOLEAN
      /\ Len(saw) \in 0 .. MaxAttempts
  BY DEF GatewayInv, SessionInv, Inv, TypeOK
<1>2. Begun \in Nat /\ Begun >= 1 /\ MaxAttempts \in Nat
  BY <1>1, SessionsAssumption, AttemptsAssumption DEF Begun
<1> DEFINE k == Begun - 1
<1>3. k \in Nat /\ k + 1 = Begun
  BY <1>2
<1>4. k * MaxAttempts \in Nat /\ (k + 1) * MaxAttempts = k * MaxAttempts + MaxAttempts
  BY <1>2, <1>3, Multiply
<1>5. Allowance = k * MaxAttempts + Len(saw)
  BY DEF Allowance
<1> HIDE DEF k
<1> QED
  BY <1>1, <1>2, <1>3, <1>4, <1>5

\* A step of the session that leaves the call as it is: what may have been sent
\* does not become less.
LEMMA SessionMoves ==
  ASSUME GatewayInv, SessionUnchanged, open' \subseteq open,
         phase \notin {"again", "failed"}
  PROVE  Inv' /\ CountInv'
<1>1. /\ UNCHANGED <<callVars, attempt, stripped, cancelled, sends>>
      /\ cancelled \in BOOLEAN
      /\ sends \in Nat /\ sends <= Allowance /\ Allowance \in Int
  BY AllowanceLasts DEF SessionUnchanged, GatewayInv, Inv, TypeOK, CountInv, Allowance
<1>2. Inv'
  BY <1>1, CallRests DEF GatewayInv
<1>3. Begun' = Begun /\ saw' = saw
  BY <1>1 DEF Begun, callVars
<1>4. CASE phase' \in {"again", "failed"}
  <2>1. Allowance' = Begun * MaxAttempts
    BY <1>3, <1>4 DEF Allowance
  <2> QED
    BY <1>1, <1>2, <2>1, AllowanceLasts DEF CountInv
<1>5. CASE phase' \notin {"again", "failed"}
  <2>1. Allowance' = Allowance
    BY <1>3, <1>5 DEF Allowance
  <2> QED
    BY <1>1, <1>2, <2>1 DEF CountInv
<1> QED
  BY <1>4, <1>5

LEMMA GatewayInitInv == GatewayInit => GatewayInv
<1> SUFFICES ASSUME GatewayInit PROVE GatewayInv
  OBVIOUS
<1>1. Inv
  BY InitInv DEF GatewayInit
<1>2. SessionInv
  <2>1. attempt \in 0 .. Attempts
    BY SessionsAssumption DEF GatewayInit
  <2> QED
    BY <2>1, Zenon DEF GatewayInit, Init, SessionInv
<1>3. CountInv
  BY AttemptsAssumption, SessionsAssumption DEF GatewayInit, Init, CountInv, Allowance, Begun
<1> QED
  BY <1>1, <1>2, <1>3 DEF GatewayInv

\* A step of the call: every exchange adds an outcome to what was seen.
LEMMA CallStepInv ==
  ASSUME GatewayInv, Call
  PROVE  GatewayInv'
<1>1. Inv'
  BY NextInv DEF GatewayInv, Call, Next
<1>2. HandedOpen'
  <2>1. Inv /\ Step
    BY DEF GatewayInv, Call
  <2>2. result.kind = "none" \/ pc = "done"
    BY <2>1 DEF Inv, TypeOK
  <2>3. CASE Delivered
    BY <2>1, <2>3 DEF Delivered, Return, Result, HandedOpen
  <2>4. CASE Exhausted
    BY <2>1, <2>4 DEF Exhausted, Return, Result, HandedOpen, Inv, LoopInv
  <2>5. CASE ~Delivered /\ ~Exhausted
    <3>1. result' = result \/ result'.kind \in {"ctx", "auth", "transport"}
      BY <2>1, <2>5 DEF Step, BeginAttempt, GetToken, Unreachable, Forbidden, Drained,
         Refresh, Busy, Buffered, ReadBody, Wake, Return, Result
    <3>2. pc # "done"
      BY <2>1, <2>5 DEF Step, BeginAttempt, GetToken, Unreachable, Forbidden, Drained,
         Refresh, Busy, Buffered, ReadBody, Wake
    <3> QED
      BY <2>2, <3>1, <3>2 DEF HandedOpen
  <2> QED
    BY <2>3, <2>4, <2>5
<1>3. SessionInv'
  BY <1>2 DEF GatewayInv, SessionInv, Call, sessionVars
<1>4. CountInv'
  <2>1. /\ sends \in Nat /\ sends <= Allowance
        /\ phase = "calling" /\ UNCHANGED <<phase, attempt, stripped>>
        /\ saw \in Seq(Outcomes)
    BY DEF GatewayInv, CountInv, SessionInv, Call, sessionVars, Inv, TypeOK
  <2> DEFINE before == (Begun - 1) * MaxAttempts
  <2>2. Begun \in Nat /\ Begun >= 1 /\ MaxAttempts \in Nat
    BY <2>1, AllowanceLasts
  <2>3. before \in Nat
    <3>1. Begun - 1 \in Nat
      BY <2>2
    <3> QED
      BY <2>2, <3>1, Multiply
  <2>4. Allowance = before + Len(saw) /\ Allowance' = before + Len(saw')
    BY <2>1 DEF Allowance, Begun
  <2> HIDE DEF before
  <2>5. CASE pc = "exchange"
    <3>1. Len(saw') = Len(saw) + 1
      BY <2>1, <2>5 DEF Call, Step, BeginAttempt, GetToken, Unreachable, Delivered,
         Forbidden, Drained, Refresh, Busy, Buffered, ReadBody, Wake, Exhausted, Return
    <3>2. sends' = sends + 1
      BY <2>5 DEF Call
    <3> QED
      BY <2>1, <2>3, <2>4, <3>1, <3>2 DEF CountInv
  <2>6. CASE pc # "exchange"
    <3>1. saw' = saw
      BY <2>6 DEF Call, Step, BeginAttempt, GetToken, Unreachable, Delivered,
         Forbidden, Drained, Refresh, Busy, Buffered, ReadBody, Wake, Exhausted
    <3>2. sends' = sends
      BY <2>6 DEF Call
    <3> QED
      BY <2>1, <2>4, <3>1, <3>2 DEF CountInv
  <2> QED
    BY <2>5, <2>6
<1> QED
  BY <1>1, <1>3, <1>4 DEF GatewayInv

\* The top of the loop: a new session has MaxAttempts more to send.
LEMMA AgainInv ==
  ASSUME GatewayInv, Again
  PROVE  GatewayInv'
<1>1. /\ phase = "again" /\ open = {} /\ UNCHANGED <<reasoning, stripped, open, cancelled, sends>>
      /\ attempt \in 0 .. Attempts /\ stripped \in BOOLEAN
      /\ sends \in Nat /\ sends <= Begun * MaxAttempts /\ cancelled \in BOOLEAN
  BY DEF GatewayInv, SessionInv, CountInv, Allowance, Inv, TypeOK, Again
<1>2. CASE attempt = Attempts \/ cancelled
  <2>1. phase' = "failed" /\ UNCHANGED <<callVars, attempt>>
    BY <1>2 DEF Again
  <2>2. Inv'
    BY <2>1, <1>1, CallRests DEF GatewayInv
  <2>3. SessionInv'
    BY <2>1, <1>1 DEF GatewayInv, SessionInv
  <2>4. CountInv'
    BY <2>1, <1>1 DEF CountInv, Allowance, Begun
  <2> QED
    BY <2>2, <2>3, <2>4 DEF GatewayInv
<1>3. CASE ~(attempt = Attempts \/ cancelled)
  <2>1. NewCall /\ attempt' = attempt + 1
    BY <1>3 DEF Again
  <2>2. Inv' /\ Len(saw') = 0
    BY <2>1, <1>1, CallBegins
  <2>3. SessionInv'
    <3>1. attempt' \in 1 .. Attempts
      BY <2>1, <1>1, <1>3, SessionsAssumption
    <3>2. HandedOpen' /\ phase' = "calling"
      BY <2>1 DEF NewCall, Result, HandedOpen
    <3>3. attempt' \in 0 .. Attempts /\ attempt' >= 1
      BY <3>1
    <3> QED
      BY <1>1, <3>2, <3>3, Zenon DEF GatewayInv, SessionInv
  <2>4. CountInv'
    <3>1. Begun' = Begun + 1 /\ Begun \in Nat
      BY <2>1, <1>1, SessionsAssumption DEF Begun
    <3>2. Allowance' = Begun * MaxAttempts
      BY <2>1, <2>2, <3>1, AttemptsAssumption DEF Allowance, NewCall
    <3> QED
      BY <1>1, <3>2 DEF CountInv
  <2> QED
    BY <2>2, <2>3, <2>4 DEF GatewayInv
<1> QED
  BY <1>2, <1>3

\* Starting over without the reasoning: at most Attempts sessions were used up.
LEMMA RefusalReadInv ==
  ASSUME GatewayInv, RefusalRead
  PROVE  GatewayInv'
<1>1. PICK invalid \in BOOLEAN : Answer(invalid)
  BY DEF RefusalRead
<1>2. /\ phase = "refusing" /\ open' = open \ {result.n} /\ open \subseteq {result.n}
      /\ UNCHANGED <<callVars, cancelled, sends>>
      /\ attempt \in 1 .. Attempts /\ stripped \in BOOLEAN /\ reasoning \in BOOLEAN
      /\ sends \in Nat /\ sends <= Allowance /\ cancelled \in BOOLEAN
  BY DEF GatewayInv, SessionInv, CountInv, Inv, TypeOK, RefusalRead
<1>3. open' = {} /\ open' \subseteq open
  BY <1>2
<1>4. Inv'
  BY <1>2, <1>3, CallRests DEF GatewayInv
<1>5. sends <= Begun * MaxAttempts /\ Begun * MaxAttempts \in Nat /\ Begun \in Nat /\ MaxAttempts \in Nat
  <2>1. Allowance <= Begun * MaxAttempts /\ Begun * MaxAttempts \in Nat /\ Begun \in Nat /\ MaxAttempts \in Nat
    BY <1>2, AllowanceLasts
  <2>2. Allowance \in Int
    BY <1>2, <2>1 DEF Allowance, GatewayInv, Inv, TypeOK
  <2> QED
    BY <1>2, <2>1, <2>2
<1>6. CASE invalid /\ ~stripped /\ reasoning
  <2>1. phase' = "again" /\ stripped' = TRUE /\ reasoning' = FALSE /\ attempt' = 0
    BY <1>1, <1>6 DEF Answer
  <2>2. SessionInv'
    <3>1. attempt' \in 0 .. Attempts
      BY <2>1, SessionsAssumption
    <3> QED
      BY <2>1, <1>3, <3>1, Zenon DEF SessionInv
  <2>3. CountInv'
    <3>1. Begun = attempt /\ Begun' = Attempts
      BY <1>2, <1>6, <2>1, SessionsAssumption DEF Begun
    <3>2. Begun * MaxAttempts <= Attempts * MaxAttempts
      BY <1>2, <1>5, <3>1, SessionsAssumption, Multiply
    <3>3. Attempts * MaxAttempts \in Nat
      BY <1>5, SessionsAssumption, Multiply
    <3>4. Allowance' = Attempts * MaxAttempts
      BY <2>1, <3>1 DEF Allowance
    <3> QED
      BY <1>2, <1>5, <3>2, <3>3, <3>4 DEF CountInv
  <2> QED
    BY <1>4, <2>2, <2>3 DEF GatewayInv
<1>7. CASE ~(invalid /\ ~stripped /\ reasoning)
  <2>1. phase' = "failed" /\ UNCHANGED <<attempt, reasoning, stripped>>
    BY <1>1, <1>7 DEF Answer
  <2>2. SessionInv'
    BY <2>1, <1>3 DEF GatewayInv, SessionInv
  <2>3. CountInv'
    BY <2>1, <1>2, <1>5 DEF CountInv, Allowance, Begun
  <2> QED
    BY <1>4, <2>2, <2>3 DEF GatewayInv
<1> QED
  BY <1>6, <1>7

\* Each step of the request keeps the invariant.
LEMMA GatewayNextInv == GatewayInv /\ [GatewayNext]_gatewayVars => GatewayInv'
<1> SUFFICES ASSUME GatewayInv, [GatewayNext]_gatewayVars PROVE GatewayInv'
  OBVIOUS
<1>1. CASE Call
  BY <1>1, CallStepInv
<1>2. CASE Again
  BY <1>2, AgainInv
<1>3. CASE RefusalRead
  BY <1>3, RefusalReadInv
<1>4. CASE SessionOpens \/ SessionFails \/ SessionRefused
  <2>1. SessionUnchanged /\ CallReturned /\ open' = open
    BY <1>4 DEF SessionOpens, SessionFails, SessionRefused, GoOn
  <2>2. phase = "calling" /\ pc = "done" /\ HandedOpen
    BY <2>1 DEF CallReturned, GatewayInv, SessionInv
  <2>3. Inv' /\ CountInv'
    BY <2>1, <2>2, SessionMoves
  <2>4. open \subseteq IF result.kind = "response" /\ saw[result.n] # "busy" THEN {result.n} ELSE {}
    BY <2>2 DEF GatewayInv, Inv, ConnectionsReleased
  <2>5. UNCHANGED <<result, attempt, reasoning, stripped>>
    BY <2>1 DEF SessionUnchanged, callVars
  <2>6. SessionInv
    BY DEF GatewayInv
  <2>7. CASE SessionOpens
    <3>1. phase' = "waiting" /\ open = {result.n}
      BY <2>2, <2>4, <2>7 DEF SessionOpens, GoOn, IsOK, HandedOpen
    <3> QED
      BY <2>1, <2>2, <2>3, <2>5, <2>6, <3>1 DEF SessionInv, GatewayInv
  <2>8. CASE SessionFails
    <3>1. phase' = "again" /\ open = {}
      BY <2>4, <2>8 DEF SessionFails, GoOn
    <3> QED
      BY <2>1, <2>2, <2>3, <2>5, <2>6, <3>1 DEF SessionInv, GatewayInv
  <2>9. CASE SessionRefused
    <3>1. phase' = "refusing" /\ result.kind = "response" /\ open \subseteq {result.n}
      BY <2>4, <2>9 DEF SessionRefused, GoOn
    <3> QED
      BY <2>1, <2>2, <2>3, <2>5, <2>6, <3>1 DEF SessionInv, GatewayInv
  <2> QED
    BY <1>4, <2>7, <2>8, <2>9
<1>5. CASE FirstOutput \/ TimerFires \/ EmptyBody \/ WaitCancelled \/ WaitBreaks \/ HandlerReturns
  <2>1. /\ SessionUnchanged
        /\ phase \in {"waiting", "serving"}
        /\ \/ phase' = "serving" /\ open' = open
           \/ phase' \in {"again", "failed", "served"} /\ open' = open \ {result.n}
    BY <1>5 DEF FirstOutput, TimerFires, EmptyBody, WaitCancelled, WaitBreaks, HandlerReturns,
       GoOn, Close
  <2>2. open = {result.n} /\ SessionInv
    BY <2>1 DEF GatewayInv, SessionInv
  <2>3. Inv' /\ CountInv'
    BY <2>1, SessionMoves
  <2>4. UNCHANGED <<result, attempt, reasoning, stripped>>
    BY <2>1 DEF SessionUnchanged, callVars
  <2>5. SessionInv'
    BY <2>1, <2>2, <2>4 DEF SessionInv
  <2> QED
    BY <2>3, <2>5 DEF GatewayInv
<1>6. CASE ClientLeaves \/ UNCHANGED gatewayVars
  <2>1. /\ UNCHANGED <<callVars, open, sessionVars, sends>>
        /\ cancelled' \in BOOLEAN
    BY <1>6 DEF ClientLeaves, Cancel, gatewayVars, vars, callVars, GatewayInv, Inv, TypeOK
  <2>2. Inv'
    BY <2>1, CallRests DEF GatewayInv
  <2>3. UNCHANGED <<phase, attempt, reasoning, stripped, open, result, saw, sends>>
    BY <2>1 DEF sessionVars, callVars
  <2>4. SessionInv'
    BY <2>3 DEF GatewayInv, SessionInv, HandedOpen
  <2>5. CountInv'
    BY <2>3 DEF GatewayInv, CountInv, Allowance, Begun
  <2> QED
    BY <2>2, <2>4, <2>5 DEF GatewayInv
<1> QED
  BY <1>1, <1>2, <1>3, <1>4, <1>5, <1>6 DEF GatewayNext, Progress

LEMMA GatewayInvariance == GatewaySpec => []GatewayInv
  BY GatewayInitInv, GatewayNextInv, PTL DEF GatewaySpec

\* What RetryClient promises of one call holds of every call a request makes: no
\* response keeps its connection but the one being read or handed over.
THEOREM CallsReleaseConnections == GatewaySpec => []ConnectionsReleased
<1>1. GatewayInv => ConnectionsReleased
  BY DEF GatewayInv, Inv
<1> QED
  BY <1>1, GatewayInvariance, PTL

\* A shape of the request is sent at most Attempts * MaxAttempts times, and a
\* second one only once the reasoning was taken out (openStream, doWithRetry).
THEOREM SendsAreBounded == GatewaySpec => []SendsBounded
<1>1. GatewayInv => SendsBounded
  <2> SUFFICES ASSUME GatewayInv PROVE SendsBounded
    OBVIOUS
  <2> DEFINE shapes == IF stripped THEN 2 ELSE 1
  <2>1. /\ attempt \in 0 .. Attempts /\ stripped \in BOOLEAN
        /\ MaxAttempts \in Nat /\ Attempts \in Nat
        /\ sends \in Nat /\ sends <= Allowance /\ Len(saw) \in 0 .. MaxAttempts
    BY SessionsAssumption, AttemptsAssumption
       DEF GatewayInv, SessionInv, CountInv, Inv, TypeOK
  <2>2. Begun \in Nat /\ shapes * Attempts \in Nat /\ Begun <= shapes * Attempts
    BY <2>1 DEF Begun
  <2>3. /\ Begun * MaxAttempts \in Nat /\ shapes * Attempts * MaxAttempts \in Nat
        /\ Begun * MaxAttempts <= shapes * Attempts * MaxAttempts
    <3> HIDE DEF shapes
    <3> QED
      BY <2>1, <2>2, Multiply
  <2>4. sends <= Begun * MaxAttempts
    <3>1. CASE phase \in {"again", "failed"}
      BY <2>1, <3>1 DEF Allowance
    <3>2. CASE phase \notin {"again", "failed"}
      <4>1. Allowance <= Begun * MaxAttempts
        BY <3>2, AllowanceLasts
      <4>2. Allowance \in Int
        BY <2>1, <2>2 DEF Allowance
      <4> QED
        BY <2>1, <2>3, <4>1, <4>2
    <3> QED
      BY <3>1, <3>2
  <2>5. sends <= shapes * Attempts * MaxAttempts
    <3> HIDE DEF shapes
    <3> QED
      BY <2>1, <2>3, <2>4
  <2> QED
    BY <2>5 DEF SendsBounded
<1> QED
  BY <1>1, GatewayInvariance, PTL

\* A request holds one connection at most, that of its last session: every layer
\* closes what it was handed before the next session begins and before it fails
\* (startSession, openStreamOnce, the handlers).
THEOREM OneConnectionIsHeld == GatewaySpec => []HoldsOneConnection
<1>1. GatewayInv => HoldsOneConnection
  BY DEF GatewayInv, SessionInv, HoldsOneConnection
<1> QED
  BY <1>1, GatewayInvariance, PTL
=============================================================================
