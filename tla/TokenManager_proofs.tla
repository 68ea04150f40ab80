------------------------ MODULE TokenManager_proofs ------------------------
(***************************************************************************)
(* TokenManager for any callers, any number of refreshes and crashes: its  *)
(* type invariant, its three safety invariants, and that it implements     *)
(* TokenRegister.                                                          *)
(*                                                                         *)
(* None of the properties is inductive alone. The inductive invariant      *)
(* relates what a refresh carries (the grant it sent, the reply, the token *)
(* it will hand out) and what each waiter may be handed to the credentials *)
(* in memory, which only that refresh can change.                          *)
(***************************************************************************)
EXTENDS TokenManager, TLAPS

\* Nobody holds a token the auth server has not issued.
IssuedInv == creds.access <= server.access /\ stored.access <= server.access

\* What a refresh carries, against the credentials only it may change.
Carried(k) ==
    /\ call[k].stage = "sent" => call[k].grant = creds.grant
    /\ call[k].stage = "answered" =>
          /\ creds.access < call[k].reply.access
          /\ call[k].reply.access <= server.access
          /\ server.grant # 0
          /\ call[k].reply.grant # 0 =>
                creds.grant < call[k].reply.grant /\ call[k].reply.grant <= server.grant
    /\ call[k].stage \in {"save", "write"} => call[k].token # 0
    /\ call[k].stage \in {"save", "write", "finish"} /\ call[k].token # 0
          => call[k].token = creds.access
    /\ call[k].stage = "write" => call[k].image = creds.access

CarriedInv == \A k \in Calls : Carried(k)

\* What call k will hand out, once that is decided.
Decided(k) == call[k].stage \in {"finish", "cleared", "closed"} /\ call[k].token # 0

\* A waiter waits for a call that exists; the tokens it may be handed include
\* the current one, and the call's once that is decided.
Answerable(c) ==
    /\ caller[c].pc = "waiting" <=> window[c] # {}
    /\ caller[c].pc = "waiting" =>
          /\ call[caller[c].call].stage # "free"
          /\ creds.access \in window[c]
          /\ Decided(caller[c].call) => call[caller[c].call].token \in window[c]
    /\ caller[c].pc = "done" => caller[c].token # 0

WaiterInv == \A c \in Callers : Answerable(c)

\* The source is up to date whenever no Save is due or under way.
SavedInv ==
    Writable /\ ~unsaved /\ (\A k \in Calls : call[k].stage \notin {"save", "write"})
        => stored = creds

IInv ==
    /\ TypeOK
    /\ SingleFlight
    /\ IssuedInv
    /\ CarriedInv
    /\ WaiterInv
    /\ SavedInv
    /\ GrantNotDropped

-----------------------------------------------------------------------------

\* What the type invariant says of a single call and a single caller.
LEMMA TypeFacts ==
  ASSUME TypeOK
  PROVE  /\ \A k \in Calls : call[k] \in CallRecord
         /\ \A c \in Callers : caller[c] \in CallerRecord
         /\ \A c \in Callers : caller[c].pc = "waiting" => caller[c].call \in Calls
  BY DEF TypeOK, CallerRecord

\* A new refreshCall is well typed, at any stage.
LEMMA NewCallType ==
  ASSUME NEW s \in Stages
  PROVE  /\ NewCall(s) \in CallRecord
         /\ NewCall(s).stage = s /\ NewCall(s).token = 0
  BY ConstantsAssumption DEF NewCall, CallRecord, Issued, Nothing, Tokens, Grants

\* A call stays well typed when its stage moves on and one field is filled in.
LEMMA CallUpdates ==
  ASSUME NEW q \in CallRecord, NEW s \in Stages
  PROVE  /\ \A g \in Grants : [q EXCEPT !.stage = s, !.grant = g] \in CallRecord
         /\ \A i \in Tokens : [q EXCEPT !.stage = s, !.image = i] \in CallRecord
  BY DEF CallRecord

\* The program starts with no refresh, and with what the source holds.
LEMMA InitIInv == Init => IInv
<1> SUFFICES ASSUME Init PROVE IInv
  OBVIOUS
<1> USE ConstantsAssumption
<1>1. creds \in Credentials /\ creds.access \in {0, 1} /\ creds.grant \in {0, 1}
  BY DEF Init, Credentials, Tokens, Grants
<1>2. server = [access |-> 1, grant |-> creds.grant] /\ server \in Issued
  BY <1>1 DEF Init, Issued, Tokens, Grants
<1>3. \A k \in Calls : call[k] = NewCall("free")
  BY DEF Init
<1>4. call \in [Calls -> CallRecord]
  BY NewCallType DEF Init, Stages
<1>5. caller \in [Callers -> CallerRecord] /\ \A c \in Callers : caller[c] = IdleCaller
  BY DEF Init, IdleCaller, CallerRecord, Tokens
<1>6. TypeOK
  <2>1. \A c \in Callers : caller[c].pc = "waiting" <=> caller[c].call # NoCall
    BY <1>5 DEF IdleCaller
  <2>2. window \in [Callers -> SUBSET Tokens]
    BY DEF Init
  <2>3. crashes \in 0 .. MaxCrash
    BY DEF Init
  <2>4. stored \in Credentials /\ inflight \in Calls \cup {NoCall}
    BY <1>1 DEF Init
  <2>5. unsaved \in BOOLEAN /\ lost \in BOOLEAN
    BY DEF Init
  <2> QED
    BY <1>1, <1>2, <1>4, <1>5, <2>1, <2>2, <2>3, <2>4, <2>5 DEF TypeOK
<1>7. SingleFlight
  BY <1>3, NewCallType DEF Init, SingleFlight, Running, Stages
<1>8. IssuedInv /\ CarriedInv
  BY <1>1, <1>2, <1>3, NewCallType DEF Init, IssuedInv, CarriedInv, Carried, Stages
<1>9. WaiterInv
  BY <1>5 DEF Init, WaiterInv, Answerable, IdleCaller
<1>10. SavedInv /\ GrantNotDropped
  BY <1>2 DEF Init, SavedInv, GrantNotDropped
<1> QED
  BY <1>6, <1>7, <1>8, <1>9, <1>10 DEF IInv
-----------------------------------------------------------------------------

\* Every step keeps the variables within their types.
LEMMA TypeNext ==
  ASSUME TypeOK, [Next]_vars
  PROVE  TypeOK'
<1> USE ConstantsAssumption, TypeFacts, NewCallType
<1> USE DEF managerVars, historyVars, Tokens, Grants
<1>1. ASSUME NEW c \in Callers, TokenAtOnce(c) PROVE TypeOK'
  <2> DEFINE r == [caller[c] EXCEPT !.pc = "done", !.token = creds.access]
  <2>1. caller[c] \in CallerRecord /\ creds.access \in Tokens
    BY DEF TypeOK, Credentials
  <2>2. r \in CallerRecord /\ r.pc = "done" /\ r.call = caller[c].call
    BY <2>1 DEF CallerRecord
  <2>3. caller' = [caller EXCEPT ![c] = r]
    BY <1>1 DEF TokenAtOnce
  <2>4. caller' \in [Callers -> CallerRecord]
    BY <2>2, <2>3 DEF TypeOK
  <2> QED
    BY <1>1, <2>2, <2>3, <2>4 DEF TokenAtOnce, TypeOK
<1>2. ASSUME NEW c \in Callers, TokenWaits(c) PROVE TypeOK'
  BY <1>2 DEF TokenWaits, JoinOrStart, Wait, TypeOK, CallRecord, CallerRecord, Stages, Issued
<1>3. ASSUME NEW c \in Callers, ForceRefresh(c) PROVE TypeOK'
  BY <1>3 DEF ForceRefresh, JoinOrStart, Wait, TypeOK, CallRecord, CallerRecord, Stages, Issued
<1>4. ASSUME NEW c \in Callers, Receive(c) PROVE TypeOK'
  BY <1>4 DEF Receive, Release, IdleCaller, TypeOK, CallRecord, CallerRecord, Stages, Issued
<1>5. ASSUME NEW c \in Callers, GiveUp(c) PROVE TypeOK'
  BY <1>5 DEF GiveUp, Release, IdleCaller, TypeOK, CallRecord, CallerRecord, Stages, Issued
<1>6. ASSUME NEW c \in Callers, Leave(c) PROVE TypeOK'
  BY <1>6 DEF Leave, IdleCaller, TypeOK, CallRecord, CallerRecord, Stages, Issued
<1>7. ASSUME NEW k \in Calls, Begin(k) PROVE TypeOK'
  <2> DEFINE r == [call[k] EXCEPT !.stage = "sent", !.grant = creds.grant]
  <2>1. r \in CallRecord
    <3>1. call[k] \in CallRecord /\ "sent" \in Stages /\ creds.grant \in Grants
      BY DEF Stages, TypeOK, Credentials
    <3> QED
      BY <3>1, CallUpdates
  <2>2. call' = [call EXCEPT ![k] = r]
    BY <1>7 DEF Begin
  <2>3. call' \in [Calls -> CallRecord]
    BY <2>1, <2>2 DEF TypeOK
  <2> QED
    BY <1>7, <2>3 DEF Begin, TypeOK
<1>8. ASSUME NEW k \in Calls, ServerRefresh(k) PROVE TypeOK'
  <2>1. server' \in Issued
    BY <1>8 DEF ServerRefresh, TypeOK, Issued
  <2>2. call' \in [Calls -> CallRecord]
    BY <1>8 DEF ServerRefresh, TypeOK, CallRecord, Stages, Issued
  <2> QED
    BY <1>8, <2>1, <2>2 DEF ServerRefresh, TypeOK
<1>9. ASSUME NEW k \in Calls, RefreshFails(k) PROVE TypeOK'
  BY <1>9 DEF RefreshFails, NewCall, Credentials, TypeOK, CallRecord, CallerRecord,
     Stages, Issued
<1>10. ASSUME NEW k \in Calls, Apply(k) PROVE TypeOK'
  <2>1. creds' \in Credentials
    BY <1>10 DEF Apply, ApplyUnderLock, NewCreds, TypeOK, Credentials, CallRecord, Issued, Life
  <2>2. call' \in [Calls -> CallRecord]
    BY <1>10 DEF Apply, ApplyUnderLock, TypeOK, CallRecord, Issued, Stages
  <2>3. window' \in [Callers -> SUBSET Tokens]
    BY <1>10, <2>1 DEF Apply, ApplyUnderLock, TypeOK, Credentials
  <2> QED
    BY <1>10, <2>1, <2>2, <2>3 DEF Apply, ApplyUnderLock, TypeOK
<1>11. ASSUME NEW k \in Calls, SaveSkipped(k) PROVE TypeOK'
  <2>1. call' \in [Calls -> CallRecord]
    BY <1>11 DEF SaveSkipped, TypeOK, CallRecord, Stages
  <2> QED
    BY <1>11, <2>1 DEF SaveSkipped, TypeOK
<1>12. ASSUME NEW k \in Calls, SaveReads(k) PROVE TypeOK'
  <2> DEFINE r == [call[k] EXCEPT !.stage = "write", !.image = creds.access]
  <2>1. r \in CallRecord
    <3>1. call[k] \in CallRecord /\ "write" \in Stages /\ creds.access \in Tokens
      BY DEF Stages, TypeOK, Credentials
    <3> QED
      BY <3>1, CallUpdates
  <2>2. call' = [call EXCEPT ![k] = r]
    BY <1>12 DEF SaveReads
  <2>3. call' \in [Calls -> CallRecord]
    BY <2>1, <2>2 DEF TypeOK
  <2> QED
    BY <1>12, <2>3 DEF SaveReads, TypeOK
<1>13. ASSUME NEW k \in Calls, SaveRenames(k) PROVE TypeOK'
  <2> DEFINE r == [call[k] EXCEPT !.stage = "finish", !.image = 0]
  <2>1. r \in CallRecord
    <3>1. call[k] \in CallRecord /\ "finish" \in Stages /\ 0 \in Tokens
      BY DEF Stages, TypeOK
    <3> QED
      BY <3>1, CallUpdates
  <2>2. call' = [call EXCEPT ![k] = r]
    BY <1>13 DEF SaveRenames
  <2>3. call' \in [Calls -> CallRecord]
    BY <2>1, <2>2 DEF TypeOK
  <2>4. stored' \in Credentials
    BY <1>13 DEF SaveRenames, TypeOK, CallRecord, Credentials
  <2>5. unsaved' \in BOOLEAN /\ lost' \in BOOLEAN
    BY <1>13 DEF SaveRenames, TypeOK
  <2> QED
    BY <1>13, <2>3, <2>4, <2>5 DEF SaveRenames, TypeOK
<1>14. ASSUME NEW k \in Calls, SaveFails(k) PROVE TypeOK'
  <2> DEFINE r == [call[k] EXCEPT !.stage = "finish", !.image = 0]
  <2>1. r \in CallRecord
    <3>1. call[k] \in CallRecord /\ "finish" \in Stages /\ 0 \in Tokens
      BY DEF Stages, TypeOK
    <3> QED
      BY <3>1, CallUpdates
  <2>2. call' = [call EXCEPT ![k] = r]
    BY <1>14 DEF SaveFails
  <2>3. call' \in [Calls -> CallRecord]
    BY <2>1, <2>2 DEF TypeOK
  <2> QED
    BY <1>14, <2>3 DEF SaveFails, TypeOK
<1>15. ASSUME NEW k \in Calls, Clear(k) PROVE TypeOK'
  <2>1. call' \in [Calls -> CallRecord]
    BY <1>15 DEF Clear, TypeOK, CallRecord, Stages
  <2> QED
    BY <1>15, <2>1 DEF Clear, TypeOK
<1>16. ASSUME NEW k \in Calls, Close(k) PROVE TypeOK'
  <2>1. [call[k] EXCEPT !.stage = "closed"] \in CallRecord /\ NewCall("free") \in CallRecord
    BY DEF CallRecord, Stages
  <2>2. call' \in [Calls -> CallRecord]
    BY <1>16, <2>1 DEF Close, TypeOK
  <2> QED
    BY <1>16, <2>2 DEF Close, TypeOK
<1>17. ASSUME NEW t, Tick(t) PROVE TypeOK'
  BY <1>17 DEF Tick, Older, TypeOK, Credentials, Life
<1>18. CASE OtherToolRotates
  BY <1>18 DEF OtherToolRotates, TypeOK, Credentials, Life, Issued
<1>19. CASE CrashAndRestart
  <2>1. call' \in [Calls -> CallRecord]
    BY <1>19 DEF CrashAndRestart, Stages
  <2>2. caller' \in [Callers -> CallerRecord] /\ \A c \in Callers : caller'[c] = IdleCaller
    BY <1>19 DEF CrashAndRestart, IdleCaller, CallerRecord
  <2>3. window' \in [Callers -> SUBSET Tokens]
    BY <1>19 DEF CrashAndRestart
  <2>4. crashes' \in 0 .. MaxCrash
    BY <1>19 DEF CrashAndRestart, TypeOK
  <2> QED
    BY <1>19, <2>1, <2>2, <2>3, <2>4 DEF CrashAndRestart, TypeOK, IdleCaller
<1>20. CASE UNCHANGED vars
  BY <1>20 DEF vars, TypeOK
<1> QED
  BY <1>1, <1>2, <1>3, <1>4, <1>5, <1>6, <1>7, <1>8, <1>9, <1>10, <1>11, <1>12, <1>13,
     <1>14, <1>15, <1>16, <1>17, <1>18, <1>19, <1>20 DEF Next, CallerStep, RefreshStep

\* A step of refresh k touches no other call.
OnlyCall(k) == \A j \in Calls \ {k} : call'[j] = call[j]

\* The effect of each step of a refresh on its own call, field by field.
LEMMA Effects ==
  ASSUME TypeOK, NEW k \in Calls
  PROVE  /\ RefreshStep(k) => OnlyCall(k)
         /\ Begin(k) => call'[k].stage = "sent" /\ call'[k].grant = creds.grant
         /\ ServerRefresh(k) =>
               /\ call'[k].stage = "answered"
               /\ call'[k].reply.access = server'.access
               /\ call'[k].reply.grant # 0 =>
                     call'[k].reply.grant = server'.grant /\ server'.grant = server.grant + 1
               /\ call'[k].reply.grant = 0 => server'.grant = server.grant
         /\ RefreshFails(k) =>
               call'[k].stage = "finish" /\ call'[k].token \in {0, creds.access}
         /\ Apply(k) =>
               call'[k].stage = "save" /\ call'[k].token = call[k].reply.access
         /\ SaveSkipped(k) => call'[k].stage = "finish" /\ call'[k].token = call[k].token
         /\ SaveReads(k) =>
               /\ call'[k].stage = "write" /\ call'[k].token = call[k].token
               /\ call'[k].image = creds.access
         /\ SaveRenames(k) \/ SaveFails(k) =>
               call'[k].stage = "finish" /\ call'[k].token = call[k].token
         /\ Clear(k) => call'[k].stage = "cleared" /\ call'[k].token = call[k].token
         /\ Close(k) => \/ call'[k] = NewCall("free") /\ Waiters(k) = {}
                        \/ call'[k].stage = "closed" /\ call'[k].token = call[k].token
<1> DEFINE r1 == [call[k] EXCEPT !.stage = "sent", !.grant = creds.grant]
           r2(rotated) == [call[k] EXCEPT !.stage = "answered", !.grant = 0,
                   !.reply = [access |-> server.access + 1,
                              grant |-> IF rotated = 1 THEN server.grant + 1 ELSE 0]]
           r3 == [call[k] EXCEPT !.stage = "write", !.image = creds.access]
           r4 == [call[k] EXCEPT !.stage = "finish", !.image = 0]
<1> USE TypeFacts
<1>1. /\ r1.stage = "sent" /\ r1.grant = creds.grant
      /\ \A rotated \in {0, 1} :
            /\ r2(rotated).stage = "answered"
            /\ r2(rotated).reply = [access |-> server.access + 1,
                              grant |-> IF rotated = 1 THEN server.grant + 1 ELSE 0]
      /\ r3.stage = "write" /\ r3.image = creds.access /\ r3.token = call[k].token
      /\ r4.stage = "finish" /\ r4.token = call[k].token
  BY DEF CallRecord
<1>2. /\ Begin(k) => call' = [call EXCEPT ![k] = r1]
      /\ SaveReads(k) => call' = [call EXCEPT ![k] = r3]
      /\ SaveRenames(k) \/ SaveFails(k) => call' = [call EXCEPT ![k] = r4]
  BY DEF Begin, SaveReads, SaveRenames, SaveFails
<1>3. ServerRefresh(k) => \E rotated \in {0, 1} :
          /\ call' = [call EXCEPT ![k] = r2(rotated)]
          /\ server' = [access |-> server.access + 1, grant |-> server.grant + rotated]
  BY DEF ServerRefresh
<1>4. Begin(k) => OnlyCall(k) /\ call'[k] = r1
  BY <1>2 DEF TypeOK, OnlyCall
<1>5. SaveReads(k) => OnlyCall(k) /\ call'[k] = r3
  BY <1>2 DEF TypeOK, OnlyCall
<1>6. SaveRenames(k) \/ SaveFails(k) => OnlyCall(k) /\ call'[k] = r4
  BY <1>2 DEF TypeOK, OnlyCall
<1>7. ServerRefresh(k) =>
         /\ OnlyCall(k)
         /\ \E rotated \in {0, 1} :
               /\ call'[k] = r2(rotated)
               /\ server' = [access |-> server.access + 1, grant |-> server.grant + rotated]
  BY <1>3 DEF TypeOK, OnlyCall
<1>8. ServerRefresh(k) =>
               /\ call'[k].stage = "answered"
               /\ call'[k].reply.access = server'.access
               /\ call'[k].reply.grant # 0 =>
                     call'[k].reply.grant = server'.grant /\ server'.grant = server.grant + 1
               /\ call'[k].reply.grant = 0 => server'.grant = server.grant
  <2> SUFFICES ASSUME ServerRefresh(k), NEW rotated \in {0, 1},
                      call'[k] = r2(rotated),
                      server' = [access |-> server.access + 1, grant |-> server.grant + rotated]
               PROVE  /\ call'[k].stage = "answered"
                      /\ call'[k].reply.access = server'.access
                      /\ call'[k].reply.grant # 0 =>
                            call'[k].reply.grant = server'.grant /\ server'.grant = server.grant + 1
                      /\ call'[k].reply.grant = 0 => server'.grant = server.grant
    BY <1>7
  <2> HIDE DEF r2
  <2> QED
    BY <1>1 DEF TypeOK, Issued, Grants
<1> HIDE DEF r1, r2, r3, r4
<1>9. RefreshFails(k) =>
         OnlyCall(k) /\ call'[k].stage = "finish" /\ call'[k].token \in {0, creds.access}
  BY DEF RefreshFails, NewCall, TypeOK, OnlyCall
<1>10. Apply(k) =>
         OnlyCall(k) /\ call'[k].stage = "save" /\ call'[k].token = call[k].reply.access
  BY DEF Apply, ApplyUnderLock, NewCall, TypeOK, OnlyCall
<1>11. SaveSkipped(k) =>
         OnlyCall(k) /\ call'[k].stage = "finish" /\ call'[k].token = call[k].token
  BY DEF SaveSkipped, TypeOK, CallRecord, OnlyCall
<1>12. Clear(k) =>
         OnlyCall(k) /\ call'[k].stage = "cleared" /\ call'[k].token = call[k].token
  BY DEF Clear, TypeOK, CallRecord, OnlyCall
<1>13. Close(k) => /\ OnlyCall(k)
                   /\ \/ call'[k] = NewCall("free") /\ Waiters(k) = {}
                      \/ call'[k].stage = "closed" /\ call'[k].token = call[k].token
  BY DEF Close, TypeOK, CallRecord, OnlyCall
<1> QED
  BY <1>1, <1>4, <1>5, <1>6, <1>7, <1>8, <1>9, <1>10, <1>11, <1>12, <1>13 DEF RefreshStep

\* A caller that joins or starts a refresh waits for the call now in flight.
LEMMA Joining ==
  ASSUME TypeOK, NEW c \in Callers, JoinOrStart(c)
  PROVE  /\ caller'[c].pc = "waiting" /\ caller'[c].call = inflight'
         /\ caller'[c].token = caller[c].token
         /\ window'[c] = {creds.access}
         /\ \A d \in Callers \ {c} : caller'[d] = caller[d] /\ window'[d] = window[d]
         /\ \/ inflight # NoCall /\ UNCHANGED <<inflight, call>>
            \/ /\ inflight = NoCall /\ inflight' \in Calls
               /\ call[inflight'].stage = "free"
               /\ call' = [call EXCEPT ![inflight'] = NewCall("start")]
<1> USE TypeFacts
<1>1. Wait(c, inflight') =>
         /\ caller'[c].pc = "waiting" /\ caller'[c].call = inflight'
         /\ caller'[c].token = caller[c].token
         /\ \A d \in Callers \ {c} : caller'[d] = caller[d]
  BY DEF Wait, TypeOK, CallerRecord
<1>2. Wait(c, inflight') =>
         /\ window'[c] = {creds.access}
         /\ \A d \in Callers \ {c} : window'[d] = window[d]
  BY DEF Wait, TypeOK
<1> QED
  BY <1>1, <1>2 DEF JoinOrStart

\* A caller that stops waiting leaves the calls as they are, except that a closed
\* call nobody waits for any more is given back.
LEMMA Releasing ==
  ASSUME TypeOK, NEW c \in Callers, caller[c].pc = "waiting", Release(c)
  PROVE  /\ window'[c] = {}
         /\ \A d \in Callers \ {c} : window'[d] = window[d]
         /\ \A k \in Calls :
               \/ call'[k] = call[k]
               \/ /\ call[k].stage = "closed" /\ Waiters(k) = {c}
                  /\ call'[k] = NewCall("free")
  BY TypeFacts DEF Release, TypeOK

\* At most one call is in flight, and m.inflight is that one.
LEMMA SingleFlightNext ==
  ASSUME IInv, [Next]_vars
  PROVE  SingleFlight'
<1> USE ConstantsAssumption
<1> USE DEF IInv, SingleFlight, Running, managerVars
<1>1. ASSUME NEW c \in Callers, JoinOrStart(c) PROVE SingleFlight'
  <2>1. CASE UNCHANGED <<inflight, call>>
    BY <2>1
  <2>2. CASE /\ inflight = NoCall /\ inflight' \in Calls
             /\ call' = [call EXCEPT ![inflight'] = NewCall("start")]
    BY <2>2 DEF TypeOK, NewCall
  <2> QED
    BY <1>1, <2>1, <2>2, Joining
<1>2. ASSUME NEW c \in Callers, Receive(c) \/ GiveUp(c) PROVE SingleFlight'
  <2>1. caller[c].pc = "waiting" /\ Release(c) /\ inflight' = inflight
    BY <1>2 DEF Receive, GiveUp
  <2>2. NewCall("free").stage = "free"
    BY DEF NewCall
  <2>3. \A k \in Calls :
           \/ call'[k] = call[k]
           \/ call[k].stage = "closed" /\ call'[k].stage = "free"
    BY <2>1, <2>2, Releasing
  <2> QED
    BY <2>1, <2>3
<1>3. ASSUME NEW c \in Callers, TokenAtOnce(c) \/ Leave(c) PROVE SingleFlight'
  BY <1>3 DEF TokenAtOnce, Leave
<1>4. ASSUME NEW k \in Calls,
             \/ Begin(k) \/ ServerRefresh(k) \/ RefreshFails(k) \/ Apply(k)
             \/ SaveSkipped(k) \/ SaveReads(k) \/ SaveRenames(k) \/ SaveFails(k)
      PROVE  SingleFlight'
  <2>1. Running(k) /\ inflight' = inflight
    BY <1>4 DEF Begin, ServerRefresh, RefreshFails, Apply, ApplyUnderLock, SaveSkipped,
       SaveReads, SaveRenames, SaveFails
  <2>2. Running(k)' /\ OnlyCall(k)
    BY <1>4, Effects DEF RefreshStep
  <2> QED
    BY <2>1, <2>2 DEF OnlyCall
<1>5. ASSUME NEW k \in Calls, Clear(k) PROVE SingleFlight'
  <2>1. OnlyCall(k) /\ ~Running(k)' /\ inflight' = NoCall
    BY <1>5, Effects DEF Clear, RefreshStep
  <2>2. inflight = k
    BY <1>5 DEF Clear
  <2>3. \A j \in Calls : ~Running(j)'
    BY <2>1, <2>2 DEF OnlyCall
  <2> QED
    BY <2>1, <2>3
<1>6. ASSUME NEW k \in Calls, Close(k) PROVE SingleFlight'
  BY <1>6, Effects DEF Close, RefreshStep, OnlyCall, NewCall
<1>7. CASE CrashAndRestart
  BY <1>7 DEF CrashAndRestart, NewCall
<1>8. CASE (\E t \in {creds.access, stored.access} \ {0} : Tick(t)) \/ OtherToolRotates
  BY <1>8 DEF Tick, OtherToolRotates
<1>9. CASE UNCHANGED vars
  BY <1>9 DEF vars
<1> QED
  BY <1>1, <1>2, <1>3, <1>4, <1>5, <1>6, <1>7, <1>8, <1>9
     DEF Next, CallerStep, RefreshStep, TokenWaits, ForceRefresh

\* Only the call in flight carries anything.
LEMMA OneRuns ==
  ASSUME SingleFlight, NEW k \in Calls, Running(k)
  PROVE  \A j \in Calls \ {k} : call[j].stage \in {"free", "cleared", "closed"}
  BY DEF SingleFlight, Running

\* A call that is not running carries nothing.
LEMMA IdleCarries ==
  ASSUME NEW j \in Calls, call[j].stage \in {"free", "start", "cleared", "closed"}
  PROVE  Carried(j)
  BY DEF Carried

\* While the credentials stay, and the auth server only issues more, a call that
\* is not touched carries what it did.
LEMMA CarriedKept ==
  ASSUME IInv, NEW j \in Calls, call'[j] = call[j],
         creds'.access = creds.access, creds'.grant = creds.grant,
         server'.access >= server.access, server'.grant >= server.grant,
         server' \in Issued
  PROVE  Carried(j)'
<1>1. Carried(j) /\ server \in Issued /\ call[j].reply \in Issued
  BY TypeFacts DEF IInv, TypeOK, CarriedInv, CallRecord
<1> QED
  BY <1>1 DEF Carried, Issued, Tokens, Grants

\* What a refresh carries stays right from step to step.
LEMMA CarriedNext ==
  ASSUME IInv, [Next]_vars
  PROVE  CarriedInv'
<1> USE ConstantsAssumption
<1> USE DEF IInv, managerVars
<1>0. /\ server \in Issued /\ server' \in Issued /\ TypeOK'
      /\ server.access >= server.access /\ server.grant >= server.grant
  BY TypeNext DEF TypeOK, Issued, Tokens, Grants
<1>1. ASSUME NEW c \in Callers, TokenWaits(c) \/ ForceRefresh(c) PROVE CarriedInv'
  <2>1. creds' = creds /\ server' = server /\ JoinOrStart(c)
    BY <1>1 DEF TokenWaits, ForceRefresh
  <2>2. \A j \in Calls : call'[j] = call[j] \/ call'[j].stage = "start"
    BY <2>1, Joining DEF TypeOK, NewCall
  <2> QED
    BY <1>0, <2>1, <2>2, CarriedKept, IdleCarries DEF CarriedInv, Carried
<1>2. ASSUME NEW c \in Callers, Receive(c) \/ GiveUp(c) PROVE CarriedInv'
  <2>1. caller[c].pc = "waiting" /\ Release(c) /\ creds' = creds /\ server' = server
    BY <1>2 DEF Receive, GiveUp
  <2>2. NewCall("free").stage = "free"
    BY DEF NewCall
  <2>3. \A j \in Calls : call'[j] = call[j] \/ call'[j].stage = "free"
    BY <2>1, <2>2, Releasing
  <2> QED
    BY <1>0, <2>1, <2>3, CarriedKept DEF CarriedInv, Carried
<1>3. ASSUME NEW c \in Callers, TokenAtOnce(c) \/ Leave(c) PROVE CarriedInv'
  BY <1>0, <1>3, CarriedKept DEF TokenAtOnce, Leave, CarriedInv
<1>4. ASSUME NEW k \in Calls, RefreshStep(k), Carried(k)', ~Close(k) PROVE CarriedInv'
  <2>1. OnlyCall(k)
    BY <1>4, Effects
  <2>2. Running(k)
    BY <1>4, Effects DEF RefreshStep, Running, Begin, ServerRefresh, RefreshFails, Apply,
       ApplyUnderLock, SaveSkipped, SaveReads, SaveRenames, SaveFails, Clear
  <2>3. \A j \in Calls \ {k} : call'[j].stage \in {"free", "cleared", "closed"}
    BY <2>1, <2>2, OneRuns DEF OnlyCall
  <2>4. \A j \in Calls \ {k} : Carried(j)'
    BY <2>3 DEF Carried
  <2> QED
    BY <1>4, <2>4 DEF CarriedInv
<1>5. ASSUME NEW k \in Calls, Close(k) PROVE CarriedInv'
  <2>1. /\ OnlyCall(k)
        /\ call'[k].stage \in {"free", "closed"}
        /\ creds' = creds
        /\ server' = server
    BY <1>5, Effects DEF Close, RefreshStep, NewCall
  <2>2. Carried(k)'
    BY <2>1 DEF Carried
  <2>3. \A j \in Calls \ {k} : Carried(j)'
    BY <1>0, <2>1, CarriedKept DEF OnlyCall
  <2> QED
    BY <2>2, <2>3 DEF CarriedInv
<1>6. ASSUME NEW k \in Calls, Begin(k) PROVE Carried(k)'
  BY <1>6, Effects DEF Begin, Carried
<1>7. ASSUME NEW k \in Calls, ServerRefresh(k) PROVE Carried(k)'
  <2>1. /\ call'[k].stage = "answered" /\ call'[k].reply.access = server'.access
        /\ call'[k].reply.grant # 0 =>
              call'[k].reply.grant = server'.grant /\ server'.grant = server.grant + 1
        /\ call'[k].reply.grant = 0 => server'.grant = server.grant
    BY <1>7, Effects
  <2>2. /\ creds' = creds
        /\ call[k].grant = server.grant
        /\ server.grant # 0
        /\ call[k].stage = "sent"
        /\ \E rotated \in {0, 1} : server' = [access |-> server.access + 1, grant |-> server.grant + rotated]
    BY <1>7 DEF ServerRefresh
  <2>3. creds.grant = server.grant /\ creds.access <= server.access
    BY <2>2 DEF CarriedInv, Carried, IssuedInv
  <2>4. /\ creds.access \in Tokens
        /\ server.access \in Tokens
        /\ server.grant \in Grants
        /\ server'.grant \in Grants
    BY <1>0 DEF TypeOK, Credentials, Issued
  <2>5. /\ server'.access = server.access + 1
        /\ server'.grant = server.grant \/ server'.grant = server.grant + 1
    BY <2>2, <2>4 DEF Grants
  <2>6. creds.access < server'.access
    BY <2>3, <2>4, <2>5 DEF Tokens
  <2>7. server'.grant # 0 /\ (server'.grant # server.grant => creds.grant < server'.grant)
    BY <2>2, <2>3, <2>4, <2>5 DEF Grants
  <2>8. call'[k].reply.grant # 0 => creds.grant < call'[k].reply.grant
    BY <2>1, <2>3, <2>4 DEF Grants
  <2>9. server'.access <= server'.access /\ server'.grant <= server'.grant
    BY <1>0 DEF Issued, Tokens, Grants
  <2> QED
    BY <2>1, <2>2, <2>6, <2>7, <2>8, <2>9 DEF Carried
<1>8. ASSUME NEW k \in Calls, RefreshFails(k) PROVE Carried(k)'
  BY <1>8, Effects DEF RefreshFails, Carried
<1>9. ASSUME NEW k \in Calls, Apply(k) PROVE Carried(k)'
  <2>1. call[k].stage = "answered" /\ creds'.access = call[k].reply.access
    BY <1>9 DEF Apply, ApplyUnderLock, NewCreds
  <2>2. /\ creds.access < call[k].reply.access
        /\ creds.access \in Tokens
        /\ call[k].reply.access \in Tokens
    BY <2>1, TypeFacts DEF CarriedInv, Carried, TypeOK, Credentials, CallRecord, Issued
  <2>3. call[k].reply.access # 0
    BY <2>2 DEF Tokens
  <2>4. call'[k].stage = "save" /\ call'[k].token = call[k].reply.access
    BY <1>9, Effects
  <2> QED
    BY <2>1, <2>3, <2>4 DEF Carried
<1>10. ASSUME NEW k \in Calls, SaveSkipped(k) \/ SaveReads(k) PROVE Carried(k)'
  BY <1>10, Effects DEF SaveSkipped, SaveReads, CarriedInv, Carried
<1>11. ASSUME NEW k \in Calls, SaveRenames(k) \/ SaveFails(k) PROVE Carried(k)'
  BY <1>11, Effects DEF SaveRenames, SaveFails, CarriedInv, Carried
<1>12. ASSUME NEW k \in Calls, Clear(k) PROVE Carried(k)'
  BY <1>12, Effects DEF Carried
<1>13. ASSUME NEW t, Tick(t) PROVE CarriedInv'
  <2>1. creds'.access = creds.access /\ creds'.grant = creds.grant
    BY <1>13 DEF Tick, TypeOK, Credentials
  <2> QED
    BY <1>0, <1>13, <2>1, CarriedKept DEF Tick, CarriedInv
<1>14. CASE OtherToolRotates
  <2>1. server'.access >= server.access /\ server'.grant >= server.grant
    BY <1>0, <1>14 DEF OtherToolRotates, Issued, Tokens, Grants
  <2> QED
    BY <1>0, <1>14, <2>1, CarriedKept DEF OtherToolRotates, CarriedInv
<1>15. CASE CrashAndRestart
  BY <1>15 DEF CrashAndRestart, NewCall, CarriedInv, Carried
<1>16. CASE UNCHANGED vars
  BY <1>16 DEF vars, CarriedInv, Carried
<1>17. ASSUME NEW k \in Calls, RefreshStep(k) PROVE CarriedInv'
  BY <1>4, <1>5, <1>6, <1>7, <1>8, <1>9, <1>10, <1>11, <1>12, <1>17 DEF RefreshStep
<1> QED
  BY <1>1, <1>2, <1>3, <1>13, <1>14, <1>15, <1>16, <1>17 DEF Next, CallerStep

\* Whoever is left alone, with its call not given back and no new token decided
\* behind its back, is as well off as before.
LEMMA AnswerableKept ==
  ASSUME IInv, NEW d \in Callers, caller'[d] = caller[d], window'[d] = window[d],
         creds'.access = creds.access,
         NEW k \in Calls, caller[d].call = k,
         call[k].stage # "free" => call'[k].stage # "free",
         Decided(k)' => \/ Decided(k) /\ call'[k].token = call[k].token
                        \/ call'[k].token = creds.access
  PROVE  Answerable(d)'
  BY DEF IInv, WaiterInv, Answerable

\* The same for a caller that is not waiting.
LEMMA AnswerableIdle ==
  ASSUME IInv, NEW d \in Callers, caller'[d] = caller[d], window'[d] = window[d],
         caller[d].pc # "waiting"
  PROVE  Answerable(d)'
  BY DEF IInv, WaiterInv, Answerable

\* What each waiter may be handed stays right from step to step.
LEMMA WaiterNext ==
  ASSUME IInv, [Next]_vars
  PROVE  WaiterInv'
<1> USE ConstantsAssumption, TypeFacts
<1> USE DEF IInv, managerVars
<1>1. ASSUME NEW c \in Callers, TokenWaits(c) \/ ForceRefresh(c) PROVE WaiterInv'
  <2>1. creds' = creds /\ JoinOrStart(c)
    BY <1>1 DEF TokenWaits, ForceRefresh
  <2>2. /\ caller'[c].pc = "waiting"
        /\ caller'[c].call = inflight'
        /\ window'[c] = {creds.access}
        /\ \A d \in Callers \ {c} : caller'[d] = caller[d] /\ window'[d] = window[d]
    BY <2>1, Joining
  <2>3. CASE inflight # NoCall /\ UNCHANGED <<inflight, call>>
    <3>1. inflight \in Calls /\ Running(inflight)
      BY <2>3 DEF TypeOK, SingleFlight
    <3>2. Carried(inflight)
      BY <3>1 DEF CarriedInv
    <3>3. Answerable(c)'
      BY <2>1, <2>2, <2>3, <3>1, <3>2 DEF Answerable, Decided, Running, Carried
    <3>4. \A d \in Callers \ {c} : Answerable(d)'
      BY <2>1, <2>2, <2>3 DEF WaiterInv, Answerable, Decided
    <3> QED
      BY <3>3, <3>4 DEF WaiterInv
  <2>4. CASE /\ inflight = NoCall /\ inflight' \in Calls
             /\ call[inflight'].stage = "free"
             /\ call' = [call EXCEPT ![inflight'] = NewCall("start")]
    <3>1. call'[inflight'].stage = "start" /\ \A j \in Calls \ {inflight'} : call'[j] = call[j]
      BY <2>4 DEF TypeOK, NewCall
    <3>2. Answerable(c)'
      BY <2>1, <2>2, <3>1 DEF Answerable, Decided
    <3>3. \A d \in Callers \ {c} : caller[d].pc = "waiting"
                => call'[caller[d].call] = call[caller[d].call]
      BY <2>4, <3>1 DEF WaiterInv, Answerable
    <3>4. \A d \in Callers \ {c} : Answerable(d)'
      BY <2>1, <2>2, <3>3 DEF WaiterInv, Answerable, Decided
    <3> QED
      BY <3>2, <3>4 DEF WaiterInv
  <2> QED
    BY <2>1, <2>3, <2>4, Joining
<1>2. ASSUME NEW c \in Callers, Receive(c) \/ GiveUp(c) PROVE WaiterInv'
  <2>1. caller[c].pc = "waiting" /\ Release(c) /\ creds' = creds
    BY <1>2 DEF Receive, GiveUp
  <2>2. /\ caller'[c].pc # "waiting" /\ (caller'[c].pc = "done" => caller'[c].token # 0)
        /\ \A d \in Callers \ {c} : caller'[d] = caller[d]
    BY <1>2 DEF Receive, GiveUp, TypeOK, IdleCaller
  <2>3. window'[c] = {} /\ \A d \in Callers \ {c} : window'[d] = window[d]
    BY <2>1, Releasing
  <2>4. \A k \in Calls : call'[k] = call[k] \/ Waiters(k) = {c}
    BY <2>1, Releasing
  <2>5. \A d \in Callers \ {c} : caller[d].pc = "waiting"
              => call'[caller[d].call] = call[caller[d].call]
    BY <2>4 DEF Waiters
  <2>6. \A d \in Callers \ {c} : Answerable(d)'
    BY <2>1, <2>2, <2>3, <2>5 DEF WaiterInv, Answerable, Decided
  <2>7. Answerable(c)'
    BY <2>2, <2>3 DEF Answerable
  <2> QED
    BY <2>6, <2>7 DEF WaiterInv
<1>3. ASSUME NEW c \in Callers, TokenAtOnce(c) \/ Leave(c) PROVE WaiterInv'
  <2>1. creds' = creds /\ call' = call /\ window' = window
    BY <1>3 DEF TokenAtOnce, Leave
  <2>2. /\ caller[c].pc # "waiting" /\ caller'[c].pc # "waiting"
        /\ caller'[c].pc = "done" => caller'[c].token # 0
        /\ \A d \in Callers \ {c} : caller'[d] = caller[d]
    BY <1>3 DEF TokenAtOnce, Leave, NeedsRefresh, TypeOK, CallerRecord, IdleCaller
  <2> QED
    BY <2>1, <2>2 DEF WaiterInv, Answerable, Decided
<1>4. ASSUME NEW k \in Calls, RefreshStep(k), caller' = caller, window' = window,
             creds' = creds, call'[k].stage # "free",
             Decided(k)' => \/ Decided(k) /\ call'[k].token = call[k].token
                            \/ call'[k].token = creds.access
      PROVE  WaiterInv'
  <2>1. \A j \in Calls \ {k} : call'[j] = call[j]
    BY <1>4, Effects DEF OnlyCall
  <2>2. ASSUME NEW d \in Callers PROVE Answerable(d)'
    <3>1. CASE caller[d].pc = "waiting"
      <4>1. caller[d].call \in Calls
        BY <3>1
      <4>2. CASE caller[d].call = k
        BY <1>4, <4>2, AnswerableKept
      <4>3. CASE caller[d].call # k
        BY <1>4, <2>1, <4>1, <4>3 DEF WaiterInv, Answerable, Decided
      <4> QED
        BY <4>2, <4>3
    <3>2. CASE caller[d].pc # "waiting"
      BY <1>4, <3>2, AnswerableIdle
    <3> QED
      BY <3>1, <3>2
  <2> QED
    BY <2>2 DEF WaiterInv
<1>5. ASSUME NEW k \in Calls, Begin(k) \/ ServerRefresh(k) \/ SaveReads(k) PROVE WaiterInv'
  <2>1. call'[k].stage \in {"sent", "answered", "write"}
    BY <1>5, Effects
  <2>2. caller' = caller /\ window' = window /\ creds' = creds
    BY <1>5 DEF Begin, ServerRefresh, SaveReads
  <2> QED
    BY <1>4, <1>5, <2>1, <2>2 DEF RefreshStep, Decided
<1>6. ASSUME NEW k \in Calls, RefreshFails(k) PROVE WaiterInv'
  <2>1. call'[k].stage = "finish" /\ call'[k].token \in {0, creds.access}
    BY <1>6, Effects
  <2>2. caller' = caller /\ window' = window /\ creds' = creds
    BY <1>6 DEF RefreshFails
  <2> QED
    BY <1>4, <1>6, <2>1, <2>2 DEF RefreshStep, Decided
<1>7. ASSUME NEW k \in Calls, SaveSkipped(k) \/ SaveRenames(k) \/ SaveFails(k) PROVE WaiterInv'
  <2>1. call'[k].stage = "finish" /\ call'[k].token = call[k].token
    BY <1>7, Effects
  <2>2. /\ caller' = caller
        /\ window' = window
        /\ creds' = creds
        /\ call[k].stage \in {"save", "write"}
    BY <1>7 DEF SaveSkipped, SaveRenames, SaveFails
  <2>3. call[k].token # 0 => call[k].token = creds.access
    BY <2>2 DEF CarriedInv, Carried
  <2> QED
    BY <1>4, <1>7, <2>1, <2>2, <2>3 DEF RefreshStep, Decided
<1>8. ASSUME NEW k \in Calls, Clear(k) PROVE WaiterInv'
  <2>1. call'[k].stage = "cleared" /\ call'[k].token = call[k].token
    BY <1>8, Effects
  <2>2. caller' = caller /\ window' = window /\ creds' = creds /\ call[k].stage = "finish"
    BY <1>8 DEF Clear
  <2> QED
    BY <1>4, <1>8, <2>1, <2>2 DEF RefreshStep, Decided
<1>9. ASSUME NEW k \in Calls, Close(k) PROVE WaiterInv'
  <2>1. \/ call'[k] = NewCall("free") /\ Waiters(k) = {}
        \/ call'[k].stage = "closed" /\ call'[k].token = call[k].token
    BY <1>9, Effects
  <2>2. caller' = caller /\ window' = window /\ creds' = creds /\ call[k].stage = "cleared"
    BY <1>9 DEF Close
  <2>3. \A j \in Calls \ {k} : call'[j] = call[j]
    BY <1>9, Effects DEF RefreshStep, OnlyCall
  <2>4. CASE Waiters(k) = {}
    <3>1. \A d \in Callers : caller[d].pc = "waiting"
                => call'[caller[d].call] = call[caller[d].call]
      BY <2>3, <2>4 DEF Waiters
    <3> QED
      BY <2>2, <3>1 DEF WaiterInv, Answerable, Decided
  <2>5. CASE call'[k].stage = "closed" /\ call'[k].token = call[k].token
    BY <1>4, <1>9, <2>2, <2>5 DEF RefreshStep, Decided
  <2> QED
    BY <2>1, <2>4, <2>5
<1>10. ASSUME NEW k \in Calls, Apply(k) PROVE WaiterInv'
  <2>1. /\ caller' = caller
        /\ window' = [c \in Callers |->
              IF caller[c].pc = "waiting" THEN window[c] \cup {creds'.access} ELSE {}]
    BY <1>10 DEF Apply, ApplyUnderLock
  <2>2. call'[k].stage = "save" /\ \A j \in Calls \ {k} : call'[j] = call[j]
    BY <1>10, Effects DEF RefreshStep, OnlyCall
  <2>3. ~Decided(k)' /\ \A j \in Calls \ {k} : Decided(j)' <=> Decided(j)
    BY <2>2 DEF Decided
  <2> QED
    BY <2>1, <2>2, <2>3 DEF WaiterInv, Answerable
<1>11. ASSUME NEW t, Tick(t) PROVE WaiterInv'
  <2>1. creds'.access = creds.access
    BY <1>11 DEF Tick, TypeOK, Credentials
  <2> QED
    BY <1>11, <2>1 DEF Tick, WaiterInv, Answerable, Decided
<1>12. CASE OtherToolRotates
  BY <1>12 DEF OtherToolRotates, WaiterInv, Answerable, Decided
<1>13. CASE CrashAndRestart
  BY <1>13 DEF CrashAndRestart, IdleCaller, WaiterInv, Answerable
<1>14. CASE UNCHANGED vars
  BY <1>14 DEF vars, WaiterInv, Answerable, Decided
<1> QED
  BY <1>1, <1>2, <1>3, <1>5, <1>6, <1>7, <1>8, <1>9, <1>10, <1>11, <1>12, <1>13, <1>14
     DEF Next, CallerStep, RefreshStep

\* Nobody holds a token before the auth server has issued it.
LEMMA IssuedNext ==
  ASSUME IInv, [Next]_vars
  PROVE  IssuedInv'
<1> USE DEF IInv, managerVars
<1>1. /\ creds.access \in Nat /\ stored.access \in Nat /\ server.access \in Nat
      /\ creds.access <= server.access /\ stored.access <= server.access
  BY DEF TypeOK, Credentials, Issued, Tokens, IssuedInv
<1>2. CASE creds' = creds /\ stored' = stored /\ server' = server
  BY <1>2 DEF IssuedInv
<1>3. ASSUME NEW k \in Calls, ServerRefresh(k) PROVE IssuedInv'
  <2>1. server'.access = server.access + 1 /\ creds' = creds /\ stored' = stored
    BY <1>3 DEF ServerRefresh
  <2> QED
    BY <1>1, <2>1 DEF IssuedInv
<1>4. ASSUME NEW k \in Calls, Apply(k) PROVE IssuedInv'
  <2>1. /\ creds'.access = call[k].reply.access /\ call[k].stage = "answered"
        /\ stored' = stored /\ server' = server
    BY <1>4 DEF Apply, ApplyUnderLock, NewCreds
  <2> QED
    BY <1>1, <2>1 DEF IssuedInv, CarriedInv, Carried
<1>5. ASSUME NEW k \in Calls, SaveRenames(k) PROVE IssuedInv'
  <2>1. /\ stored'.access = call[k].image
        /\ creds' = creds
        /\ server' = server
        /\ call[k].stage = "write"
    BY <1>5 DEF SaveRenames, TypeOK, Credentials
  <2> QED
    BY <1>1, <2>1 DEF IssuedInv, CarriedInv, Carried
<1>6. ASSUME NEW t, Tick(t) PROVE IssuedInv'
  <2>1. creds'.access = creds.access /\ stored'.access = stored.access /\ server' = server
    BY <1>6 DEF Tick, TypeOK, Credentials
  <2> QED
    BY <1>1, <2>1 DEF IssuedInv
<1>7. CASE OtherToolRotates
  <2>1. /\ server'.access = server.access + 1 /\ stored'.access = server.access + 1
        /\ creds' = creds
    BY <1>7 DEF OtherToolRotates
  <2> QED
    BY <1>1, <2>1 DEF IssuedInv
<1>8. CASE CrashAndRestart
  BY <1>1, <1>8 DEF CrashAndRestart, IssuedInv
<1>9. ASSUME NEW c \in Callers, CallerStep(c)
      PROVE  creds' = creds /\ stored' = stored /\ server' = server
  BY <1>9 DEF CallerStep, TokenAtOnce, TokenWaits, ForceRefresh, Receive, GiveUp, Leave
<1>10. ASSUME NEW k \in Calls, RefreshStep(k), ~ServerRefresh(k), ~Apply(k), ~SaveRenames(k)
       PROVE  creds' = creds /\ stored' = stored /\ server' = server
  BY <1>10 DEF RefreshStep, Begin, RefreshFails, SaveSkipped, SaveReads, SaveFails,
     Clear, Close
<1>11. CASE UNCHANGED vars
  BY <1>2, <1>11 DEF vars
<1> QED
  BY <1>2, <1>3, <1>4, <1>5, <1>6, <1>7, <1>8, <1>9, <1>10, <1>11 DEF Next, RefreshStep

\* The source holds what the process holds, unless a Save is due, under way or failed.
LEMMA SavedNext ==
  ASSUME IInv, [Next]_vars
  PROVE  SavedInv'
<1> USE DEF IInv, managerVars, historyVars
<1> DEFINE Saving == \E k \in Calls : call[k].stage \in {"save", "write"}
<1>1. SavedInv <=> (Writable /\ ~unsaved /\ ~Saving => stored = creds)
  BY DEF SavedInv
<1>2. SavedInv' <=> (Writable /\ ~unsaved' /\ ~Saving' => stored' = creds')
  BY DEF SavedInv
<1>3. ASSUME NEW c \in Callers, CallerStep(c) PROVE SavedInv'
  <2>1. creds' = creds /\ stored' = stored /\ unsaved' = unsaved
    BY <1>3 DEF CallerStep, TokenAtOnce, TokenWaits, ForceRefresh, Receive, GiveUp, Leave
  <2>2. /\ NewCall("start").stage = "start" /\ NewCall("free").stage = "free"
    BY DEF NewCall
  <2>3. \A k \in Calls : call[k].stage \in {"save", "write"} => call'[k] = call[k]
    <3>1. CASE TokenAtOnce(c) \/ Leave(c)
      BY <3>1 DEF TokenAtOnce, Leave
    <3>2. CASE TokenWaits(c) \/ ForceRefresh(c)
      <4>1. JoinOrStart(c)
        BY <3>2 DEF TokenWaits, ForceRefresh
      <4>2. \/ call' = call
            \/ /\ inflight' \in Calls /\ call[inflight'].stage = "free"
               /\ call' = [call EXCEPT ![inflight'] = NewCall("start")]
        BY <4>1, Joining
      <4> QED
        BY <4>2 DEF TypeOK
    <3>3. CASE Receive(c) \/ GiveUp(c)
      <4>1. caller[c].pc = "waiting" /\ Release(c)
        BY <3>3 DEF Receive, GiveUp
      <4> QED
        BY <4>1, Releasing
    <3> QED
      BY <1>3, <3>1, <3>2, <3>3 DEF CallerStep
  <2>4. Saving => Saving'
    BY <2>3
  <2> HIDE DEF Saving
  <2> QED
    BY <1>1, <1>2, <2>1, <2>4
<1>4. ASSUME NEW k \in Calls, Begin(k) \/ ServerRefresh(k) \/ RefreshFails(k) \/ Clear(k) \/ Close(k)
      PROVE  SavedInv'
  <2>1. /\ creds' = creds
        /\ stored' = stored
        /\ unsaved' = unsaved
        /\ call[k].stage \notin {"save", "write"}
    BY <1>4 DEF Begin, ServerRefresh, RefreshFails, Clear, Close
  <2>2. \A j \in Calls \ {k} : call'[j] = call[j]
    BY <1>4, Effects DEF RefreshStep, OnlyCall
  <2>3. Saving => Saving'
    BY <2>1, <2>2
  <2> HIDE DEF Saving
  <2> QED
    BY <1>1, <1>2, <2>1, <2>3
<1>5. ASSUME NEW k \in Calls, Apply(k) \/ SaveReads(k) PROVE SavedInv'
  <2>1. call'[k].stage \in {"save", "write"}
    BY <1>5, Effects
  <2> QED
    BY <2>1 DEF SavedInv
<1>6. ASSUME NEW k \in Calls, SaveSkipped(k) PROVE SavedInv'
  BY <1>6 DEF SaveSkipped, SavedInv
<1>7. ASSUME NEW k \in Calls, SaveRenames(k) PROVE SavedInv'
  <2>1. /\ stored' = [creds EXCEPT !.access = call[k].image] /\ creds' = creds
        /\ call[k].stage = "write"
    BY <1>7 DEF SaveRenames
  <2>2. call[k].image = creds.access
    BY <2>1 DEF CarriedInv, Carried
  <2>3. stored' = creds'
    BY <2>1, <2>2 DEF TypeOK, Credentials
  <2> QED
    BY <2>3 DEF SavedInv
<1>8. ASSUME NEW k \in Calls, SaveFails(k) PROVE SavedInv'
  BY <1>8 DEF SaveFails, SavedInv
<1>9. ASSUME NEW t, Tick(t) PROVE SavedInv'
  BY <1>9 DEF Tick, SavedInv
<1>10. CASE OtherToolRotates
  BY <1>10 DEF OtherToolRotates, SavedInv
<1>11. CASE CrashAndRestart
  BY <1>11 DEF CrashAndRestart, SavedInv
<1>12. CASE UNCHANGED vars
  BY <1>12 DEF vars, SavedInv
<1> QED
  BY <1>3, <1>4, <1>5, <1>6, <1>7, <1>8, <1>9, <1>10, <1>11, <1>12 DEF Next, RefreshStep

\* The grant in force stays where the process, a restart or the reply can find it.
LEMMA GrantNext ==
  ASSUME IInv, [Next]_vars
  PROVE  GrantNotDropped'
<1> USE DEF IInv, managerVars, historyVars
<1> DEFINE Coming == \E k \in Calls :
              call[k].stage = "answered" /\ call[k].reply.grant = server.grant
<1>1. GrantNotDropped <=>
         lost \/ stored.grant = server.grant \/ creds.grant = server.grant \/ Coming
  BY DEF GrantNotDropped
<1>2. GrantNotDropped' <=>
         lost' \/ stored'.grant = server'.grant \/ creds'.grant = server'.grant \/ Coming'
  BY DEF GrantNotDropped
<1>3. ASSUME NEW c \in Callers, CallerStep(c) PROVE GrantNotDropped'
  <2>1. creds' = creds /\ stored' = stored /\ lost' = lost /\ server' = server
    BY <1>3 DEF CallerStep, TokenAtOnce, TokenWaits, ForceRefresh, Receive, GiveUp, Leave
  <2>3. \A k \in Calls : call[k].stage = "answered" => call'[k] = call[k]
    <3>1. CASE TokenAtOnce(c) \/ Leave(c)
      BY <3>1 DEF TokenAtOnce, Leave
    <3>2. CASE TokenWaits(c) \/ ForceRefresh(c)
      <4>1. JoinOrStart(c)
        BY <3>2 DEF TokenWaits, ForceRefresh
      <4>2. \/ call' = call
            \/ /\ inflight' \in Calls /\ call[inflight'].stage = "free"
               /\ call' = [call EXCEPT ![inflight'] = NewCall("start")]
        BY <4>1, Joining
      <4> QED
        BY <4>2 DEF TypeOK
    <3>3. CASE Receive(c) \/ GiveUp(c)
      <4>1. caller[c].pc = "waiting" /\ Release(c)
        BY <3>3 DEF Receive, GiveUp
      <4> QED
        BY <4>1, Releasing
    <3> QED
      BY <1>3, <3>1, <3>2, <3>3 DEF CallerStep
  <2>4. Coming => Coming'
    BY <2>1, <2>3
  <2> HIDE DEF Coming
  <2> QED
    BY <1>1, <1>2, <2>1, <2>4
<1>4. ASSUME NEW k \in Calls, \/ Begin(k) \/ SaveSkipped(k) \/ SaveReads(k) \/ SaveFails(k)
                              \/ Clear(k) \/ Close(k)
      PROVE  GrantNotDropped'
  <2>1. /\ creds' = creds /\ stored' = stored /\ lost' = lost /\ server' = server
        /\ call[k].stage # "answered"
    BY <1>4 DEF Begin, SaveSkipped, SaveReads, SaveFails, Clear, Close
  <2>2. \A j \in Calls \ {k} : call'[j] = call[j]
    BY <1>4, Effects DEF RefreshStep, OnlyCall
  <2>3. Coming => Coming'
    BY <2>1, <2>2
  <2> HIDE DEF Coming
  <2> QED
    BY <1>1, <1>2, <2>1, <2>3
<1>5. ASSUME NEW k \in Calls, ServerRefresh(k) PROVE GrantNotDropped'
  <2>1. /\ call[k].stage = "sent" /\ call[k].grant = server.grant
        /\ creds' = creds
    BY <1>5 DEF ServerRefresh
  <2>2. creds.grant = server.grant
    BY <2>1 DEF CarriedInv, Carried
  <2>3. /\ call'[k].stage = "answered"
        /\ call'[k].reply.grant # 0 => call'[k].reply.grant = server'.grant
        /\ call'[k].reply.grant = 0 => server'.grant = server.grant
    BY <1>5, Effects
  <2> QED
    BY <2>1, <2>2, <2>3 DEF GrantNotDropped
<1>6. ASSUME NEW k \in Calls, RefreshFails(k) PROVE GrantNotDropped'
  <2>1. CASE call[k].stage = "answered"
    BY <1>6, <2>1 DEF RefreshFails, GrantNotDropped
  <2>2. CASE call[k].stage # "answered"
    <3>1. /\ creds' = creds /\ stored' = stored /\ server' = server
          /\ lost' <=> lost
      BY <1>6, <2>2 DEF RefreshFails
    <3>2. \A j \in Calls \ {k} : call'[j] = call[j]
      BY <1>6, Effects DEF RefreshStep, OnlyCall
    <3>3. Coming => Coming'
      BY <2>2, <3>1, <3>2
    <3> HIDE DEF Coming
    <3> QED
      BY <1>1, <1>2, <3>1, <3>3
  <2> QED
    BY <2>1, <2>2
<1>7. ASSUME NEW k \in Calls, Apply(k) PROVE GrantNotDropped'
  <2>1. /\ call[k].stage = "answered"
        /\ creds'.grant = IF call[k].reply.grant # 0 THEN call[k].reply.grant ELSE creds.grant
        /\ stored' = stored /\ lost' = lost /\ server' = server
    BY <1>7 DEF Apply, ApplyUnderLock, NewCreds
  <2>2. Running(k)
    BY <2>1 DEF Running
  <2>3. \A j \in Calls \ {k} : call[j].stage # "answered"
    BY <2>2, OneRuns
  <2>4. Carried(k)
    BY DEF CarriedInv
  <2>5. /\ server.grant # 0 /\ server.grant \in Nat /\ creds.grant \in Nat
        /\ call[k].reply.grant \in Nat
        /\ call[k].reply.grant # 0 =>
              creds.grant < call[k].reply.grant /\ call[k].reply.grant <= server.grant
    BY <2>1, <2>4, TypeFacts DEF Carried, TypeOK, Credentials, CallRecord, Issued, Grants
  <2>6. CASE lost \/ stored.grant = server.grant
    BY <2>1, <2>6 DEF GrantNotDropped
  <2>7. CASE creds.grant = server.grant
    BY <2>1, <2>5, <2>7 DEF GrantNotDropped
  <2>8. CASE call[k].reply.grant = server.grant
    BY <2>1, <2>5, <2>8 DEF GrantNotDropped
  <2>9. lost \/ stored.grant = server.grant \/ creds.grant = server.grant
        \/ call[k].reply.grant = server.grant
    BY <2>3 DEF GrantNotDropped
  <2> QED
    BY <2>6, <2>7, <2>8, <2>9
<1>8. ASSUME NEW k \in Calls, SaveRenames(k) PROVE GrantNotDropped'
  <2>1. /\ stored' = [creds EXCEPT !.access = call[k].image]
        /\ creds' = creds
        /\ server' = server
        /\ lost' = (lost \/ OverwritesLiveGrant) /\ call[k].stage = "write"
    BY <1>8 DEF SaveRenames
  <2>2. \A j \in Calls \ {k} : call'[j] = call[j]
    BY <1>8, Effects DEF RefreshStep, OnlyCall
  <2>3. Coming => Coming'
    BY <2>1, <2>2
  <2>4. stored.grant = server.grant => lost' \/ creds'.grant = server'.grant
    BY <2>1 DEF OverwritesLiveGrant
  <2>5. lost => lost'
    BY <2>1
  <2> HIDE DEF Coming
  <2> QED
    BY <1>1, <1>2, <2>1, <2>3, <2>4, <2>5
<1>9. ASSUME NEW t, Tick(t) PROVE GrantNotDropped'
  <2>1. /\ creds'.grant = creds.grant /\ stored'.grant = stored.grant
        /\ server' = server /\ lost' = lost /\ call' = call
    BY <1>9 DEF Tick, TypeOK, Credentials
  <2> QED
    BY <2>1 DEF GrantNotDropped
<1>10. CASE OtherToolRotates
  BY <1>10 DEF OtherToolRotates, GrantNotDropped
<1>11. CASE CrashAndRestart
  BY <1>11 DEF CrashAndRestart, GrantNotDropped
<1>12. CASE UNCHANGED vars
  BY <1>12 DEF vars, GrantNotDropped
<1> QED
  BY <1>3, <1>4, <1>5, <1>6, <1>7, <1>8, <1>9, <1>10, <1>11, <1>12 DEF Next, RefreshStep

\* The inductive invariant holds throughout.
LEMMA Invariance == Spec => []IInv
<1>1. IInv /\ [Next]_vars => IInv'
  BY TypeNext, SingleFlightNext, IssuedNext, CarriedNext, WaiterNext, SavedNext, GrantNext
     DEF IInv
<1> QED
  BY InitIInv, <1>1, PTL DEF Spec

-----------------------------------------------------------------------------

\* Every variable keeps its type, whatever the number of callers and refreshes.
THEOREM TypeCorrect == Spec => []TypeOK
<1>1. IInv => TypeOK
  BY DEF IInv
<1> QED
  BY Invariance, <1>1, PTL

\* At most one refresh runs, and it is the one m.inflight names: two requests
\* never spend the same grant (manager.go joinOrStartLocked and runRefresh).
THEOREM OneRefreshAtATime == Spec => []SingleFlight
<1>1. IInv => SingleFlight
  BY DEF IInv
<1> QED
  BY Invariance, <1>1, PTL

\* The grant in force is never dropped by the process itself (runRefresh, Save).
THEOREM GrantIsKept == Spec => []GrantNotDropped
<1>1. IInv => GrantNotDropped
  BY DEF IInv
<1> QED
  BY Invariance, <1>1, PTL

\* Save never publishes a torn or an outdated pair of tokens, although it reads
\* m.creds without the mutex (creds.go Save, called by runRefresh).
THEOREM SavedFileIsCurrent == Spec => []SavedPairIsCurrent
<1>1. IInv => SavedPairIsCurrent
  BY ConstantsAssumption DEF IInv, SavedInv, SingleFlight, Running, SavedPairIsCurrent
<1> QED
  BY Invariance, <1>1, PTL

-----------------------------------------------------------------------------

\* Each caller step of the manager is a step of the register, or none at all.
LEMMA CallerRefines ==
  ASSUME IInv, IInv', NEW c \in Callers, CallerStep(c)
  PROVE  [Register!Next]_(Register!vars)
<1> DEFINE answer == [d \in Callers |-> IF caller[d].pc = "done" THEN caller[d].token ELSE 0]
<1> USE TypeFacts
<1> USE DEF IInv, managerVars
<1>0. window \in [Callers -> SUBSET Tokens]
  BY DEF TypeOK
<1>1. ASSUME TokenAtOnce(c) PROVE Register!AnswerAtOnce(c)
  <2>1. /\ creds' = creds /\ window' = window /\ caller[c].pc = "idle" /\ creds.access # 0
    BY <1>1 DEF TokenAtOnce, NeedsRefresh
  <2>2. /\ caller'[c].pc = "done" /\ caller'[c].token = creds.access
        /\ \A d \in Callers \ {c} : caller'[d] = caller[d]
    BY <1>1 DEF TokenAtOnce, TypeOK, CallerRecord
  <2>3. answer' = [answer EXCEPT ![c] = creds.access]
    BY <2>2
  <2>4. window[c] = {}
    BY <2>1 DEF WaiterInv, Answerable
  <2> QED
    BY <2>1, <2>3, <2>4 DEF Register!AnswerAtOnce, Register!Asking
<1>2. ASSUME TokenWaits(c) \/ ForceRefresh(c) PROVE Register!Ask(c)
  <2>1. creds' = creds /\ JoinOrStart(c) /\ caller[c].pc # "waiting"
    BY <1>2 DEF TokenWaits, ForceRefresh
  <2>2. /\ caller'[c].pc = "waiting" /\ \A d \in Callers \ {c} : caller'[d] = caller[d]
    BY <2>1, Joining
  <2>3. answer' = [answer EXCEPT ![c] = 0]
    BY <2>2
  <2>4. window[c] = {}
    BY <2>1 DEF WaiterInv, Answerable
  <2>5. window' = [window EXCEPT ![c] = {creds.access}]
    BY <2>1 DEF JoinOrStart, Wait
  <2> QED
    BY <2>1, <2>3, <2>4, <2>5 DEF Register!Ask, Register!Asking
<1>3. ASSUME Receive(c) PROVE Register!Answer(c) \/ Register!Refuse(c)
  <2> DEFINE t == call[caller[c].call].token
  <2>1. /\ creds' = creds /\ caller[c].pc = "waiting" /\ call[caller[c].call].stage = "closed"
        /\ window' = [window EXCEPT ![c] = {}]
    BY <1>3 DEF Receive, Release
  <2>2. caller' = [caller EXCEPT ![c] =
              IF t = 0 THEN IdleCaller ELSE [pc |-> "done", call |-> NoCall, token |-> t]]
    BY <1>3 DEF Receive
  <2>3. window[c] # {} /\ (t # 0 => t \in window[c])
    BY <2>1 DEF WaiterInv, Answerable, Decided
  <2> HIDE DEF t
  <2>4. CASE t = 0
    <3>1. caller'[c].pc = "idle" /\ \A d \in Callers \ {c} : caller'[d] = caller[d]
      BY <2>2, <2>4 DEF TypeOK, IdleCaller
    <3>2. answer' = [answer EXCEPT ![c] = 0]
      BY <3>1
    <3> QED
      BY <2>1, <2>3, <3>2 DEF Register!Refuse, Register!Asking
  <2>5. CASE t # 0
    <3>1. /\ caller'[c].pc = "done" /\ caller'[c].token = t
          /\ \A d \in Callers \ {c} : caller'[d] = caller[d]
      BY <2>2, <2>5 DEF TypeOK
    <3>2. answer' = [answer EXCEPT ![c] = t]
      BY <3>1
    <3> QED
      BY <2>1, <2>3, <2>5, <3>2 DEF Register!Answer
  <2> QED
    BY <2>4, <2>5
<1>4. ASSUME GiveUp(c) PROVE Register!Refuse(c)
  <2>1. creds' = creds /\ caller[c].pc = "waiting" /\ window' = [window EXCEPT ![c] = {}]
    BY <1>4 DEF GiveUp, Release
  <2>2. caller'[c].pc = "idle" /\ \A d \in Callers \ {c} : caller'[d] = caller[d]
    BY <1>4 DEF GiveUp, TypeOK, IdleCaller
  <2>3. answer' = [answer EXCEPT ![c] = 0]
    BY <2>2
  <2>4. window[c] # {}
    BY <2>1 DEF WaiterInv, Answerable
  <2> QED
    BY <2>1, <2>3, <2>4 DEF Register!Refuse, Register!Asking
<1>5. ASSUME Leave(c) PROVE Register!Leave(c)
  <2>1. creds' = creds /\ caller[c].pc = "done" /\ window' = window
    BY <1>5 DEF Leave
  <2>2. caller'[c].pc = "idle" /\ \A d \in Callers \ {c} : caller'[d] = caller[d]
    BY <1>5 DEF Leave, TypeOK, IdleCaller
  <2>3. answer' = [answer EXCEPT ![c] = 0]
    BY <2>2
  <2>4. window[c] = {}
    BY <2>1 DEF WaiterInv, Answerable
  <2> QED
    BY <2>1, <2>3, <2>4 DEF Register!Leave, Register!Asking
<1> QED
  BY <1>1, <1>2, <1>3, <1>4, <1>5 DEF CallerStep, Register!Next

\* TokenManager implements TokenRegister: single-flight refreshes, joins, degraded
\* answers, Save, crashes and other tools never hand a caller a token that was not
\* the current one at some moment of its call.
THEOREM ManagerIsARegister == Spec => ImplementsRegister
<1> USE DEF managerVars, historyVars
<1>1. Init => Register!Init
  <2> SUFFICES ASSUME Init PROVE Register!Init
    OBVIOUS
  <2>1. creds.access \in Nat /\ window = [c \in Callers |-> {}]
    BY DEF Init
  <2>2. \A c \in Callers : caller[c].pc = "idle"
    BY DEF Init, IdleCaller
  <2> QED
    BY <2>1, <2>2 DEF Register!Init
<1>2. IInv /\ IInv' /\ [Next]_vars => [Register!Next]_(Register!vars)
  <2> SUFFICES ASSUME IInv, IInv', [Next]_vars
               PROVE  [Register!Next]_(Register!vars)
    OBVIOUS
  <2>1. ASSUME creds'.access = creds.access, caller' = caller, window' = window
        PROVE  UNCHANGED Register!vars
    BY <2>1 DEF Register!vars
  <2>2. ASSUME NEW k \in Calls, Apply(k) PROVE Register!Renew
    <3>1. /\ call[k].stage = "answered" /\ creds'.access = call[k].reply.access
          /\ caller' = caller
          /\ window' = [c \in Callers |->
                IF caller[c].pc = "waiting" THEN window[c] \cup {creds'.access} ELSE {}]
      BY <2>2 DEF Apply, ApplyUnderLock, NewCreds
    <3>2. creds'.access \in Nat /\ creds'.access > creds.access
      <4>1. /\ creds.access \in Nat /\ call[k].reply.access \in Nat
            /\ creds.access < call[k].reply.access
        BY <3>1, TypeFacts DEF IInv, TypeOK, CarriedInv, Carried, CallRecord,
           Credentials, Issued, Tokens
      <4> QED
        BY <3>1, <4>1
    <3>3. \A c \in Callers : caller[c].pc = "waiting" <=> window[c] # {}
      BY DEF IInv, WaiterInv, Answerable
    <3> QED
      BY <3>1, <3>2, <3>3 DEF Register!Renew, Register!Asking
  <2>3. ASSUME NEW k \in Calls, RefreshStep(k), ~Apply(k)
        PROVE  creds' = creds /\ caller' = caller /\ window' = window
    BY <2>3 DEF RefreshStep, Begin, ServerRefresh, RefreshFails, SaveSkipped, SaveReads,
       SaveRenames, SaveFails, Clear, Close
  <2>4. ASSUME NEW t, Tick(t)
        PROVE  creds'.access = creds.access /\ caller' = caller /\ window' = window
    BY <2>4 DEF Tick, IInv, TypeOK, Credentials
  <2>5. CASE OtherToolRotates
    BY <2>1, <2>5 DEF OtherToolRotates
  <2>6. CASE CrashAndRestart
    <3>1. creds'.access \in Nat
      BY <2>6 DEF CrashAndRestart, IInv, TypeOK, Credentials, Tokens
    <3>2. window' = [c \in Callers |-> {}] /\ \A c \in Callers : caller'[c].pc = "idle"
      BY <2>6 DEF CrashAndRestart, IdleCaller
    <3> QED
      BY <3>1, <3>2 DEF Register!Next, Register!Restart
  <2>7. CASE UNCHANGED vars
    BY <2>1, <2>7 DEF vars
  <2> QED
    BY <2>1, <2>2, <2>3, <2>4, <2>5, <2>6, <2>7, CallerRefines DEF Next, Register!Next
<1> QED
  BY <1>1, <1>2, Invariance, PTL DEF Spec, ImplementsRegister, Register!Spec
=============================================================================
