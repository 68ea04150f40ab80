---------------------------- MODULE TokenManager ----------------------------
(***************************************************************************)
(* internal/auth: the Manager that owns the credentials of the process.    *)
(*                                                                         *)
(* Callers ask for a token (Token) or, after the backend answered 403,     *)
(* for a new one (ForceRefresh). At most one refresh runs: it has its own  *)
(* goroutine, talks to the auth server without holding the mutex, stores   *)
(* the result, writes the credentials file and releases whoever waits.     *)
(*                                                                         *)
(* An atomic step is what the code does under one acquisition of m.mu, or  *)
(* one effect outside it: an exchange with the auth server, a read of the  *)
(* shared credentials by Save, the rename that publishes the file.         *)
(*                                                                         *)
(* Tokens and refresh tokens ("grants") are numbered in the order the auth *)
(* server issues them; 0 stands for the empty string.                      *)
(***************************************************************************)
EXTENDS Naturals, FiniteSets

CONSTANTS
    Callers,        \* goroutines serving client requests
    Calls,          \* refreshCall objects; one is reused once collected
    NoCall,         \* the nil *refreshCall
    Writable,       \* the source is a file kirogo may write (creds.go Writable)
    MaxToken,       \* bound: access tokens the auth server issues
    MaxGrant,       \* bound: refresh tokens the auth server issues
    MaxCrash        \* bound: crashes of the process

ASSUME ConstantsAssumption ==
    /\ NoCall \notin Calls
    /\ Writable \in BOOLEAN
    /\ MaxToken \in Nat \ {0} /\ MaxGrant \in Nat \ {0} /\ MaxCrash \in Nat

VARIABLES
    creds,          \* *m.creds
    inflight,       \* m.inflight
    call,           \* the refreshCall objects and the goroutines that run them
    caller,         \* what each caller is doing
    stored,         \* the credential source a restart would load
    server,         \* the auth server: the last access token and grant it issued
    window,         \* history: the tokens current since the caller began to wait
    unsaved,        \* history: stored is known to differ from creds
    lost,           \* history: a reply was lost, the process crashed, or Save
                    \* overwrote a grant another tool had just stored
    crashes         \* crashes so far

managerVars == <<creds, inflight, call>>
historyVars == <<unsaved, lost, crashes>>
vars == <<managerVars, caller, stored, server, window, historyVars>>

Tokens == 0 .. MaxToken
Grants == 0 .. MaxGrant

\* ExpiresAt against the clock: more than refreshThreshold left, inside the
\* threshold, past it, or the zero time.
Life == {"fresh", "due", "expired", "unknown"}

Credentials == [access : Tokens, grant : Grants, life : Life]
Issued      == [access : Tokens, grant : Grants]
Nothing     == [access |-> 0, grant |-> 0]

\* Where runRefresh is. "free": no such object. "closed": done is closed.
Stages == {"free", "start", "sent", "answered", "save", "write",
           "finish", "cleared", "closed"}

\* grant: the refresh token copied from creds. reply: the auth server's answer
\* (grant 0 when it did not rotate). image: the access token Save has read.
\* token: call.token, 0 when call.err is set.
CallRecord == [stage : Stages, grant : Grants, reply : Issued,
               image : Tokens, token : Tokens]

NewCall(stage) == [stage |-> stage, grant |-> 0, reply |-> Nothing,
                   image |-> 0, token |-> 0]

\* token: what Token or ForceRefresh last returned, 0 for an error. A caller
\* that waits with a token is in ForceRefresh: the backend rejected that token.
CallerRecord == [pc : {"idle", "waiting", "done"}, call : Calls \cup {NoCall},
                 token : Tokens]

IdleCaller == [pc |-> "idle", call |-> NoCall, token |-> 0]

TypeOK ==
    /\ creds \in Credentials
    /\ inflight \in Calls \cup {NoCall}
    /\ call \in [Calls -> CallRecord]
    /\ caller \in [Callers -> CallerRecord]
    /\ \A c \in Callers : caller[c].pc = "waiting" <=> caller[c].call # NoCall
    /\ stored \in Credentials
    /\ server \in Issued
    /\ window \in [Callers -> SUBSET Tokens]
    /\ unsaved \in BOOLEAN
    /\ lost \in BOOLEAN
    /\ crashes \in 0 .. MaxCrash

\* parseCredentials refuses a source that has neither token.
Init ==
    /\ creds \in [access : {0, 1}, grant : {0, 1}, life : Life]
    /\ creds.access # 0 \/ creds.grant # 0
    /\ inflight = NoCall
    /\ call = [k \in Calls |-> NewCall("free")]
    /\ caller = [c \in Callers |-> IdleCaller]
    /\ stored = creds
    /\ server = [access |-> 1, grant |-> creds.grant]
    /\ window = [c \in Callers |-> {}]
    /\ unsaved = FALSE
    /\ lost = FALSE
    /\ crashes = 0

-----------------------------------------------------------------------------
(* The callers' side: Token, ForceRefresh, joinOrStartLocked, waitFor.      *)

NeedsRefresh == creds.access = 0 \/ creds.life # "fresh"

Expired == creds.life \in {"expired", "unknown"}

Waiters(k) == {c \in Callers : caller[c].call = k}

Wait(c, k) ==
    /\ caller' = [caller EXCEPT ![c].pc = "waiting", ![c].call = k]
    /\ window' = [window EXCEPT ![c] = {creds.access}]

\* A variant that forgets to look at m.inflight.
JoinOrStart_AlwaysStarts(c) ==
    \E k \in {n \in Calls : call[n].stage = "free"} :
        /\ inflight' = k
        /\ call' = [call EXCEPT ![k] = NewCall("start")]
        /\ Wait(c, k)

JoinOrStart(c) ==
    \/ /\ inflight # NoCall
       /\ Wait(c, inflight)
       /\ UNCHANGED <<inflight, call>>
    \/ /\ inflight = NoCall
       /\ \E k \in {n \in Calls : call[n].stage = "free"} :
             /\ inflight' = k
             /\ call' = [call EXCEPT ![k] = NewCall("start")]
             /\ Wait(c, k)

\* Token finds a token with more than the threshold left.
TokenAtOnce(c) ==
    /\ caller[c].pc = "idle"
    /\ ~NeedsRefresh
    /\ caller' = [caller EXCEPT ![c].pc = "done", ![c].token = creds.access]
    /\ UNCHANGED <<managerVars, stored, server, window, historyVars>>

\* Token has to wait for a refresh.
TokenWaits(c) ==
    /\ caller[c].pc = "idle"
    /\ NeedsRefresh
    /\ JoinOrStart(c)
    /\ UNCHANGED <<creds, stored, server, historyVars>>

\* The backend answered 403 to the token this caller was handed.
ForceRefresh(c) ==
    /\ caller[c].pc = "done"
    /\ JoinOrStart(c)
    /\ UNCHANGED <<creds, stored, server, historyVars>>

\* Caller c drops its reference. The garbage collector takes a closed call that
\* nobody refers to any more.
Release(c) ==
    LET k == caller[c].call IN
        /\ call' = IF call[k].stage = "closed" /\ Waiters(k) = {c}
                      THEN [call EXCEPT ![k] = NewCall("free")] ELSE call
        /\ window' = [window EXCEPT ![c] = {}]

\* waitFor: done is closed. The caller gets the token, or the error.
Receive(c) ==
    /\ caller[c].pc = "waiting"
    /\ call[caller[c].call].stage = "closed"
    /\ LET token == call[caller[c].call].token IN
          caller' = [caller EXCEPT ![c] =
              IF token = 0 THEN IdleCaller
                           ELSE [pc |-> "done", call |-> NoCall, token |-> token]]
    /\ Release(c)
    /\ UNCHANGED <<creds, inflight, stored, server, historyVars>>

\* A variant in which the caller keeps its reference when it gives up.
GiveUp_KeepsCall(c) ==
    /\ caller[c].pc = "waiting"
    /\ caller' = [caller EXCEPT ![c].pc = "idle"]
    /\ Release(c)
    /\ UNCHANGED <<creds, inflight, stored, server, historyVars>>

\* waitFor: the caller's context ends first. The refresh goes on without it.
GiveUp(c) ==
    /\ caller[c].pc = "waiting"
    /\ caller' = [caller EXCEPT ![c] = IdleCaller]
    /\ Release(c)
    /\ UNCHANGED <<creds, inflight, stored, server, historyVars>>

\* The caller is through with its token.
Leave(c) ==
    /\ caller[c].pc = "done"
    /\ caller' = [caller EXCEPT ![c] = IdleCaller]
    /\ UNCHANGED <<managerVars, stored, server, window, historyVars>>

-----------------------------------------------------------------------------
(* The refresh goroutine: runRefresh.                                       *)

\* The credentials are copied under the mutex, which is then let go.
Begin(k) ==
    /\ call[k].stage = "start"
    /\ call' = [call EXCEPT ![k].stage = "sent", ![k].grant = creds.grant]
    /\ UNCHANGED <<creds, inflight, caller, stored, server, window, historyVars>>

\* The auth server honours the grant in force, and may replace it.
ServerRefresh(k) ==
    /\ call[k].stage = "sent"
    /\ call[k].grant = server.grant /\ server.grant # 0
    /\ server.access < MaxToken
    /\ \E rotated \in {0, 1} :
          /\ server.grant + rotated <= MaxGrant
          /\ server' = [access |-> server.access + 1, grant |-> server.grant + rotated]
          /\ call' = [call EXCEPT
                ![k].stage = "answered", ![k].grant = 0,
                ![k].reply = [access |-> server.access + 1,
                              grant  |-> IF rotated = 1 THEN server.grant + 1 ELSE 0]]
    /\ UNCHANGED <<creds, inflight, caller, stored, window, historyVars>>

\* No usable answer: no refresh token to send, refused, unreachable, timed out
\* (30s client, 45s context), not JSON; the auth server may have answered all
\* the same. The current token will do while it has not expired.
RefreshFails(k) ==
    /\ call[k].stage \in {"sent", "answered"}
    /\ lost' = (lost \/ call[k].stage = "answered")
    /\ call' = [call EXCEPT ![k] =
          [NewCall("finish") EXCEPT !.token =
              IF creds.access # 0 /\ ~Expired THEN creds.access ELSE 0]]
    /\ UNCHANGED <<creds, inflight, caller, stored, server, window, unsaved, crashes>>

\* The credentials after an answer, with ExpiresAt at distance l. Two variants:
\* one misses the rotated grant, one keeps the access token it had.
NewCreds_MissesGrant(reply, l) ==
    [access |-> reply.access, grant |-> creds.grant, life |-> l]

NewCreds_KeepsAccess(reply, l) ==
    [access |-> creds.access, grant |-> creds.grant, life |-> l]

NewCreds(reply, l) ==
    [access |-> reply.access,
     grant  |-> IF reply.grant # 0 THEN reply.grant ELSE creds.grant,
     life   |-> l]

\* The mutex is held over the update; the call stays in flight until Save has run.
ApplyUnderLock(k, stillInflight) ==
    /\ call[k].stage = "answered"
    /\ \E l \in {"fresh", "due", "expired"} : creds' = NewCreds(call[k].reply, l)
    /\ call' = [call EXCEPT ![k] = [NewCall("save") EXCEPT !.token = call[k].reply.access]]
    /\ window' = [c \in Callers |->
          IF caller[c].pc = "waiting" THEN window[c] \cup {creds'.access} ELSE {}]
    /\ inflight' = stillInflight
    /\ UNCHANGED <<caller, stored, server, historyVars>>

\* A variant that lets the next refresh start before Save has run.
Apply_ClearsEarly(k) == ApplyUnderLock(k, NoCall)

\* The answer replaces the credentials. Any ExpiresIn is possible, and
\* expiryBuffer is taken off it.
Apply(k) == ApplyUnderLock(k, inflight)

\* Save on a source that cannot be written does nothing.
SaveSkipped(k) ==
    /\ call[k].stage = "save"
    /\ ~Writable
    /\ call' = [call EXCEPT ![k].stage = "finish"]
    /\ UNCHANGED <<creds, inflight, caller, stored, server, window, historyVars>>

\* Save works on m.creds itself, without the mutex: it reads the access token...
SaveReads(k) ==
    /\ call[k].stage = "save"
    /\ Writable
    /\ call' = [call EXCEPT ![k].stage = "write", ![k].image = creds.access]
    /\ UNCHANGED <<creds, inflight, caller, stored, server, window, historyVars>>

\* Save does not look at what it replaces: another tool may have rotated the
\* grant and written the new one since.
OverwritesLiveGrant == stored.grant = server.grant /\ creds.grant # server.grant

\* ...then the rest, and publishes everything with one rename.
SaveRenames(k) ==
    /\ call[k].stage = "write"
    /\ stored' = [creds EXCEPT !.access = call[k].image]
    /\ unsaved' = FALSE
    /\ lost' = (lost \/ OverwritesLiveGrant)
    /\ call' = [call EXCEPT ![k].stage = "finish", ![k].image = 0]
    /\ UNCHANGED <<creds, inflight, caller, server, window, crashes>>

\* A step of Save fails: the old file stays, and the refresh still succeeds.
SaveFails(k) ==
    /\ call[k].stage = "write"
    /\ unsaved' = TRUE
    /\ call' = [call EXCEPT ![k].stage = "finish", ![k].image = 0]
    /\ UNCHANGED <<creds, inflight, caller, stored, server, window, lost, crashes>>

\* A variant that forgets to close the channel.
Clear_WithoutClose(k) ==
    /\ call[k].stage = "finish"
    /\ inflight' = NoCall
    /\ call' = [call EXCEPT ![k] = NewCall("free")]
    /\ UNCHANGED <<creds, caller, stored, server, window, historyVars>>

\* The deferred function: the call stops being the one in flight...
Clear(k) ==
    /\ call[k].stage = "finish"
    /\ inflight' = IF inflight = k THEN NoCall ELSE inflight
    /\ call' = [call EXCEPT ![k].stage = "cleared"]
    /\ UNCHANGED <<creds, caller, stored, server, window, historyVars>>

\* ...and only then are its waiters released.
Close(k) ==
    /\ call[k].stage = "cleared"
    /\ call' = [call EXCEPT ![k] = IF Waiters(k) = {} THEN NewCall("free")
                                   ELSE [@ EXCEPT !.stage = "closed"]]
    /\ UNCHANGED <<creds, inflight, caller, stored, server, window, historyVars>>

-----------------------------------------------------------------------------
(* What happens around the manager.                                         *)

Older(l) == CASE l = "fresh" -> "due" [] l = "due" -> "expired"

\* Time passes for access token t, wherever it is held.
Tick(t) ==
    LET age(held) == IF held.access = t THEN [held EXCEPT !.life = Older(@)] ELSE held
    IN  /\ \A held \in {creds, stored} : held.access = t => held.life \in {"fresh", "due"}
        /\ creds' = age(creds)
        /\ stored' = age(stored)
        /\ UNCHANGED <<inflight, call, caller, server, window, historyVars>>

\* Another tool (kiro-cli, Kiro IDE) refreshes with the stored grant, which the
\* auth server replaces, and rewrites the source. kirogo does not notice.
OtherToolRotates ==
    /\ stored.grant = server.grant /\ stored.grant # 0
    /\ server.access < MaxToken /\ server.grant < MaxGrant
    /\ server' = [access |-> server.access + 1, grant |-> server.grant + 1]
    /\ stored' = [access |-> server.access + 1, grant |-> server.grant + 1, life |-> "fresh"]
    /\ unsaved' = TRUE
    /\ UNCHANGED <<managerVars, caller, window, lost, crashes>>

\* The process dies at any point and is started again: credentials are loaded
\* from the source, a half-written temporary file is not looked at.
CrashAndRestart ==
    /\ crashes < MaxCrash
    /\ crashes' = crashes + 1
    /\ creds' = stored
    /\ inflight' = NoCall
    /\ call' = [k \in Calls |-> NewCall("free")]
    /\ caller' = [c \in Callers |-> IdleCaller]
    /\ window' = [c \in Callers |-> {}]
    /\ unsaved' = FALSE
    /\ lost' = TRUE
    /\ UNCHANGED <<stored, server>>

-----------------------------------------------------------------------------

CallerStep(c) ==
    \/ TokenAtOnce(c) \/ TokenWaits(c) \/ ForceRefresh(c)
    \/ Receive(c) \/ GiveUp(c) \/ Leave(c)

RefreshStep(k) ==
    \/ Begin(k) \/ ServerRefresh(k) \/ RefreshFails(k) \/ Apply(k)
    \/ SaveSkipped(k) \/ SaveReads(k) \/ SaveRenames(k) \/ SaveFails(k)
    \/ Clear(k) \/ Close(k)

Next ==
    \/ \E c \in Callers : CallerStep(c)
    \/ \E k \in Calls : RefreshStep(k)
    \/ \E t \in {creds.access, stored.access} \ {0} : Tick(t)
    \/ OtherToolRotates
    \/ CrashAndRestart

\* A refresh goroutine keeps running: the exchange with the auth server is
\* bounded by timeouts, nothing else blocks. A waiter whose channel is closed
\* is woken. Nothing obliges time, other tools or the callers' own requests.
Fairness ==
    /\ \A k \in Calls : WF_vars(RefreshStep(k))
    /\ \A c \in Callers : WF_vars(Receive(c))

Spec == Init /\ [][Next]_vars /\ Fairness

-----------------------------------------------------------------------------
(* Properties.                                                              *)

\* A call that still has to be cleared.
Running(k) == call[k].stage \notin {"free", "cleared", "closed"}

\* Concurrent callers share one refresh: whatever has not been cleared is the
\* call m.inflight points to, so two requests never reach the auth server with
\* the same grant, and two Saves never overlap (manager.go:229, :257).
SingleFlight == \A k \in Calls : Running(k) <=> inflight = k

\* Save reads m.creds without the mutex, and the file it publishes still holds
\* tokens that belong together: the ones the process holds, as soon as no
\* refresh is in flight and no write failed (manager.go:353, creds.go:279).
SavedPairIsCurrent ==
    Writable /\ inflight = NoCall /\ ~unsaved => stored = creds

\* The grant in force is not dropped: without a lost reply, a crash or a rename
\* over another tool's write, it is in memory, in the source, or in the reply
\* about to be applied (manager.go:339-354). Losing it means signing in again.
GrantNotDropped ==
    \/ lost
    \/ stored.grant = server.grant
    \/ creds.grant = server.grant
    \/ \E k \in Calls : call[k].stage = "answered" /\ call[k].reply.grant = server.grant

\* Every caller that waits is answered, also when the caller whose context
\* started the refresh is gone: the refresh is detached from it (manager.go:264).
WaitersAreReleased ==
    \A c \in Callers : caller[c].pc = "waiting" ~> caller[c].pc # "waiting"

\* The register the callers see: a token handed over was the process's current
\* token at some moment between the call and its return, through joins,
\* degraded refreshes, and new refreshes started before the waiters woke up.
Register == INSTANCE TokenRegister WITH
    current <- creds.access,
    answer  <- [c \in Callers |->
                   IF caller[c].pc = "done" THEN caller[c].token ELSE 0]

ImplementsRegister == Register!Spec

\* ForceRefresh's comment (manager.go:243-247): it renews the token
\* unconditionally, and joining a refresh in flight is as good, since that one
\* fetches a brand-new token. So ForceRefresh never returns, as a success, the
\* token the backend has just rejected.
ForcedTokenIsNew ==
    [][\A c \in Callers :
          caller[c].pc = "waiting" /\ caller'[c].pc = "done"
             => caller'[c].token # caller[c].token]_vars
=============================================================================
