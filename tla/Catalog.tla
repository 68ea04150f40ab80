------------------------------- MODULE Catalog -------------------------------
(***************************************************************************)
(* internal/catalog with its callers: the model list is fetched page by    *)
(* page before kirogo starts to listen (loadCatalog in main.go) and again  *)
(* whenever a request finds it older than its TTL (EnsureFresh).           *)
(*                                                                         *)
(* Upstream's catalog changes under the fetches: it is a version number,   *)
(* and a fetched list is known by the first and the last version that      *)
(* contributed a page. An atomic step lies between two lock operations or  *)
(* two pages.                                                              *)
(***************************************************************************)
EXTENDS Naturals

CONSTANTS
    Requests,       \* goroutines that list models or prepare a chat request
    Boot,           \* the main goroutine, inside loadCatalog
    Nobody,         \* the holder of a free mutex
    MaxPages,       \* maxPages, 10 in the code
    BootAttempts,   \* startupCatalogAttempts, 6 in the code
    MaxVersion      \* bound: versions of upstream's catalog

Fetchers == Requests \cup {Boot}

ASSUME CatalogAssumption ==
    /\ Boot \notin Requests
    /\ Nobody \notin Fetchers
    /\ MaxPages \in Nat \ {0} /\ BootAttempts \in Nat \ {0} /\ MaxVersion \in Nat

VARIABLES
    upstream,       \* the version of the backend's catalog
    served,         \* models, byID and defaultModel, replaced as one
    age,            \* fetchedAt against the TTL; "none" is the zero time
    holder,         \* who holds refreshMu
    pc,             \* where each goroutine is
    page,           \* pages it has fetched
    got,            \* what it has collected
    bootAttempt,    \* loadCatalog's attempt
    bootError       \* what the last startup attempt failed with

vars == <<upstream, served, age, holder, pc, page, got, bootAttempt, bootError>>

\* found: some entry had a model id.
Lists == [found : BOOLEAN, first : 0 .. MaxVersion, last : 0 .. MaxVersion]
Nothing == [found |-> FALSE, first |-> 0, last |-> 0]

\* "transport": the network failed. "refused": it did in a way that waiting does
\* not change: TLS, the proxy, a cancelled context. "api": Kiro answered with an
\* error status (APIError), or the refresh endpoint did (RefreshError). "rejected":
\* 403 on every attempt. "empty": no models, or an answer that is not JSON.
Errors == {"transport", "refused", "api", "rejected", "empty"}

TypeOK ==
    /\ upstream \in 0 .. MaxVersion
    /\ served \in Lists
    /\ age \in {"none", "fresh", "stale"}
    /\ holder \in Fetchers \cup {Nobody}
    /\ pc \in [Fetchers -> {"idle", "queue", "page", "install", "sleep", "up",
                            "down", "answered"}]
    /\ \A f \in Fetchers : pc[f] \in {"page", "install"} <=> holder = f
    /\ page \in [Fetchers -> 0 .. MaxPages]
    /\ got \in [Fetchers -> Lists]
    /\ bootAttempt \in 1 .. BootAttempts
    /\ bootError \in Errors \cup {"none"}

Init ==
    /\ upstream = 0
    /\ served = Nothing
    /\ age = "none"
    /\ holder = Nobody
    /\ pc = [f \in Fetchers |-> IF f = Boot THEN "queue" ELSE "idle"]
    /\ page = [f \in Fetchers |-> 0]
    /\ got = [f \in Fetchers |-> Nothing]
    /\ bootAttempt = 1
    /\ bootError = "none"

-----------------------------------------------------------------------------
(* Refresh, run by whoever holds refreshMu.                                 *)

bootVars == <<bootAttempt, bootError>>

\* A variant that does not wait for the mutex.
Lock_NoWait(f) ==
    /\ pc[f] = "queue"
    /\ holder' = f
    /\ pc' = [pc EXCEPT ![f] = "page"]
    /\ UNCHANGED <<upstream, served, age, page, got, bootVars>>

Lock(f) ==
    /\ pc[f] = "queue"
    /\ holder = Nobody
    /\ holder' = f
    /\ pc' = [pc EXCEPT ![f] = "page"]
    /\ UNCHANGED <<upstream, served, age, page, got, bootVars>>

Collect(f, found) ==
    got' = [got EXCEPT ![f] =
        [found |-> @.found \/ found, last |-> upstream,
         first |-> IF page[f] = 0 THEN upstream ELSE @.first]]

\* A variant that follows nextToken wherever it leads.
Page_NoCap(f) ==
    /\ pc[f] = "page"
    /\ \E found, more \in BOOLEAN :
          /\ Collect(f, found)
          /\ page' = [page EXCEPT ![f] = (@ + 1) % MaxPages]
          /\ pc' = [pc EXCEPT ![f] = IF more THEN "page" ELSE "install"]
    /\ UNCHANGED <<upstream, served, age, holder, bootVars>>

\* One page. Entries without a model id are skipped; a nextToken asks for
\* another page, up to the cap.
Page(f) ==
    /\ pc[f] = "page"
    /\ \E found, more \in BOOLEAN :
          /\ Collect(f, found)
          /\ page' = [page EXCEPT ![f] = @ + 1]
          /\ pc' = [pc EXCEPT ![f] =
                IF more /\ page'[f] < MaxPages THEN "page" ELSE "install"]
    /\ UNCHANGED <<upstream, served, age, holder, bootVars>>

\* retryableAtStartup: neither APIError nor RefreshError, and no category of
\* classifyTransportError that IsTransientTransport rules out; what it does not
\* recognise is a "network error", which is worth the wait.
RetryableAtStartup(error) == error \in {"transport", "rejected", "empty"}

\* Refresh returns and lets go of refreshMu. A request goes on with whatever
\* list there is; loadCatalog goes on to serve, waits, or gives up.
RefreshReturned(f, error) ==
    /\ page' = [page EXCEPT ![f] = 0]
    /\ got' = [got EXCEPT ![f] = Nothing]
    /\ holder' = Nobody
    /\ IF f # Boot
          THEN pc' = [pc EXCEPT ![f] = "answered"] /\ UNCHANGED bootError
          ELSE /\ bootError' = error
               /\ pc' = [pc EXCEPT ![f] =
                     IF error = "none" THEN "up"
                     ELSE IF RetryableAtStartup(error) /\ bootAttempt < BootAttempts
                     THEN "sleep" ELSE "down"]
    /\ UNCHANGED bootAttempt

\* ListAvailableModels fails: no token, no connection, an error status, a
\* timeout, or the request's own context has ended.
PageFails(f) ==
    /\ pc[f] = "page"
    /\ \E error \in Errors : RefreshReturned(f, error)
    /\ UNCHANGED <<upstream, served, age>>

\* A variant that installs an empty list as well.
Install_TakesEmpty(f) ==
    /\ pc[f] = "install"
    /\ served' = got[f] /\ age' = "fresh" /\ RefreshReturned(f, "none")
    /\ UNCHANGED upstream

\* The list is complete: it replaces the old one under the lock, unless it is empty.
Install(f) ==
    /\ pc[f] = "install"
    /\ IF got[f].found
          THEN served' = got[f] /\ age' = "fresh" /\ RefreshReturned(f, "none")
          ELSE RefreshReturned(f, "empty") /\ UNCHANGED <<served, age>>
    /\ UNCHANGED upstream

-----------------------------------------------------------------------------
(* Who refreshes: requests past the TTL, and the main goroutine at startup. *)

\* A request arrives; kirogo listens once the catalog is loaded. EnsureFresh
\* reads the age and does not look again when it gets the mutex.
EnsureFresh(r) ==
    /\ pc[Boot] = "up"
    /\ pc[r] = "idle"
    /\ pc' = [pc EXCEPT ![r] = IF age = "fresh" THEN "answered" ELSE "queue"]
    /\ UNCHANGED <<upstream, served, age, holder, page, got, bootVars>>

\* The goroutine is free for another request.
Done(r) ==
    /\ pc[r] = "answered"
    /\ pc' = [pc EXCEPT ![r] = "idle"]
    /\ UNCHANGED <<upstream, served, age, holder, page, got, bootVars>>

\* A variant that does not count the attempts.
BootAgain_NotCounted ==
    /\ pc[Boot] = "sleep"
    /\ pc' = [pc EXCEPT ![Boot] = "queue"]
    /\ UNCHANGED <<upstream, served, age, holder, page, got, bootVars>>

\* The wait between two startup attempts is over.
BootAgain ==
    /\ pc[Boot] = "sleep"
    /\ pc' = [pc EXCEPT ![Boot] = "queue"]
    /\ bootAttempt' = bootAttempt + 1
    /\ UNCHANGED <<upstream, served, age, holder, page, got, bootError>>

Publish ==
    /\ upstream < MaxVersion
    /\ upstream' = upstream + 1
    /\ UNCHANGED <<served, age, holder, pc, page, got, bootVars>>

Expire ==
    /\ age = "fresh"
    /\ age' = "stale"
    /\ UNCHANGED <<upstream, served, holder, pc, page, got, bootVars>>

-----------------------------------------------------------------------------

RefreshStep(f) == Page(f) \/ PageFails(f) \/ Install(f)

Next ==
    \/ \E f \in Fetchers : Lock(f) \/ RefreshStep(f)
    \/ \E r \in Requests : EnsureFresh(r) \/ Done(r)
    \/ BootAgain \/ Publish \/ Expire

Spec == Init /\ [][Next]_vars

-----------------------------------------------------------------------------
(* Properties.                                                              *)

\* Whoever serves has models to serve: kirogo does not listen before a fetch
\* has brought some, and no later refresh, failed or empty, takes them away.
ServesModels == pc[Boot] = "up" => served.found /\ age # "none"

\* The list never goes back: pages of the new one were all produced by upstream
\* no earlier than those of the list it replaces, because fetches, and not just
\* swaps, are serialised (catalog.go:117-118).
NeverGoesBack ==
    [][served' # served /\ served.found => served'.first >= served.last]_served
=============================================================================
