-------------------------- MODULE Lifecycle_proofs --------------------------
(***************************************************************************)
(* Catalog and Lifecycle for any requests, any number of pages and startup *)
(* attempts and any history of upstream's list: the types, what is served, *)
(* that the list never goes back, and that a clean exit cuts nothing off.  *)
(***************************************************************************)
EXTENDS Lifecycle, TLAPS

-----------------------------------------------------------------------------
(* The catalog. That its list never goes back needs the mutex: what a fetch *)
(* has collected is no older than the list it will replace, because that    *)
(* list cannot change meanwhile.                                            *)

\* What a fetch has collected, against the list that is served.
FetchInv ==
    /\ served.last <= upstream
    /\ \A f \in Fetchers : page[f] > 0 =>
          /\ served.last <= got[f].first
          /\ got[f].last <= upstream
    /\ \A f \in Fetchers : pc[f] \notin {"page", "install"} => page[f] = 0
    /\ \A f \in Fetchers : pc[f] = "page" => page[f] < MaxPages
    /\ \A f \in Fetchers : pc[f] = "install" => page[f] > 0

\* Boot is past its own fetch when others may begin theirs.
BootInv ==
    /\ pc[Boot] \notin {"idle", "answered"}
    /\ pc[Boot] = "sleep" => bootAttempt < BootAttempts
    /\ served.found => age # "none"

CatalogInv == TypeOK /\ FetchInv /\ BootInv /\ ServesModels

LEMMA FetchersFact ==
  /\ Boot \in Fetchers
  /\ \A r \in Requests : r \in Fetchers /\ r # Boot
  /\ \A f \in Fetchers : f # Nobody
  BY CatalogAssumption DEF Fetchers

LEMMA ListsFact ==
  /\ Nothing \in Lists
  /\ \A l \in Lists : l.found \in BOOLEAN /\ l.first \in 0 .. MaxVersion /\ l.last \in 0 .. MaxVersion
  BY CatalogAssumption DEF Nothing, Lists

\* Nothing has been fetched.
LEMMA CatalogInitInv == Init => CatalogInv
<1> SUFFICES ASSUME Init PROVE CatalogInv
  OBVIOUS
<1> USE CatalogAssumption, FetchersFact, ListsFact
<1>1. TypeOK
  BY DEF Init, TypeOK, Errors
<1>2. FetchInv
  BY DEF Init, FetchInv, Nothing
<1>3. BootInv /\ ServesModels
  BY DEF Init, BootInv, ServesModels, Nothing
<1> QED
  BY <1>1, <1>2, <1>3 DEF CatalogInv

\* Whoever has the mutex is alone: no other fetch is under way.
LEMMA Alone ==
  ASSUME CatalogInv, NEW f \in Fetchers, pc[f] \in {"page", "install"}
  PROVE  /\ holder = f
         /\ \A g \in Fetchers \ {f} : pc[g] \notin {"page", "install"} /\ page[g] = 0
  BY DEF CatalogInv, TypeOK, FetchInv

\* Refresh returns without having touched the list.
LEMMA ReturnKeepsInv ==
  ASSUME CatalogInv, NEW f \in Fetchers, pc[f] \in {"page", "install"},
         NEW error \in Errors, RefreshReturned(f, error),
         UNCHANGED <<upstream, served, age>>
  PROVE  CatalogInv'
<1> USE FetchersFact, CatalogAssumption
<1>1. holder = f /\ \A g \in Fetchers \ {f} : pc[g] \notin {"page", "install"} /\ page[g] = 0
  BY Alone
<1>2. error # "none"
  BY DEF Errors
<1>3. TypeOK'
  BY <1>1, <1>2, ListsFact DEF CatalogInv, TypeOK, RefreshReturned, RetryableAtStartup
<1>4. FetchInv'
  BY <1>1, <1>2 DEF CatalogInv, TypeOK, FetchInv, RefreshReturned
<1>5. BootInv' /\ ServesModels'
  BY <1>1, <1>2 DEF CatalogInv, TypeOK, BootInv, ServesModels, RefreshReturned
<1> QED
  BY <1>3, <1>4, <1>5 DEF CatalogInv

\* The step that replaces the list keeps the invariant, and goes forward.
LEMMA InstallInv ==
  ASSUME CatalogInv, NEW f \in Fetchers, Install(f)
  PROVE  CatalogInv' /\ (served.found /\ served' # served => served'.first >= served.last)
<1> USE FetchersFact, CatalogAssumption
<1>1. pc[f] = "install" /\ holder = f /\ page[f] > 0
      /\ \A g \in Fetchers \ {f} : pc[g] \notin {"page", "install"} /\ page[g] = 0
  BY Alone DEF Install, CatalogInv, FetchInv
<1>2. CASE got[f].found
  <2>1. /\ served' = got[f] /\ age' = "fresh" /\ RefreshReturned(f, "none")
        /\ UNCHANGED upstream
    BY <1>2 DEF Install
  <2>2. TypeOK'
    BY <1>1, <2>1, ListsFact DEF CatalogInv, TypeOK, RefreshReturned, Errors
  <2>3. FetchInv'
    BY <1>1, <2>1, ListsFact DEF CatalogInv, TypeOK, FetchInv, RefreshReturned
  <2>4. BootInv' /\ ServesModels'
    BY <1>1, <1>2, <2>1 DEF CatalogInv, TypeOK, BootInv, ServesModels, RefreshReturned
  <2>5. served'.first >= served.last
    BY <1>1, <2>1, ListsFact DEF CatalogInv, TypeOK, FetchInv
  <2> QED
    BY <2>2, <2>3, <2>4, <2>5 DEF CatalogInv
<1>3. CASE ~got[f].found
  BY <1>1, <1>3, ReturnKeepsInv DEF Install, Errors
<1> QED
  BY <1>2, <1>3

\* A page adds a version that is no older than what is served.
LEMMA PageInv ==
  ASSUME CatalogInv, NEW f \in Fetchers, Page(f)
  PROVE  CatalogInv'
<1> USE FetchersFact, CatalogAssumption
<1>1. pc[f] = "page" /\ holder = f
      /\ \A g \in Fetchers \ {f} : pc[g] \notin {"page", "install"} /\ page[g] = 0
  BY Alone DEF Page
<1>2. PICK found \in BOOLEAN, more \in BOOLEAN :
         /\ Collect(f, found)
         /\ page' = [page EXCEPT ![f] = @ + 1]
         /\ pc' = [pc EXCEPT ![f] =
               IF more /\ page'[f] < MaxPages THEN "page" ELSE "install"]
  BY DEF Page
<1>3. UNCHANGED <<upstream, served, age, holder, bootAttempt, bootError>>
  BY DEF Page, bootVars
<1>4. page[f] \in Nat /\ page[f] < MaxPages /\ page'[f] = page[f] + 1
  BY <1>1, <1>2 DEF CatalogInv, TypeOK, FetchInv
<1>5. got' = [got EXCEPT ![f] =
         [found |-> got[f].found \/ found, last |-> upstream,
          first |-> IF page[f] = 0 THEN upstream ELSE got[f].first]]
  BY <1>2 DEF Collect
<1>6. got'[f].last = upstream /\ got'[f].first = (IF page[f] = 0 THEN upstream ELSE got[f].first)
  BY <1>5 DEF CatalogInv, TypeOK
<1>7. TypeOK'
  <2>1. got'[f] \in Lists
    BY <1>5, ListsFact DEF CatalogInv, TypeOK, Lists
  <2>2. got' \in [Fetchers -> Lists]
    BY <1>5, <2>1 DEF CatalogInv, TypeOK
  <2>3. page' \in [Fetchers -> 0 .. MaxPages]
    BY <1>2, <1>4 DEF CatalogInv, TypeOK
  <2>4. /\ pc' \in [Fetchers -> {"idle", "queue", "page", "install", "sleep", "up",
                            "down", "answered"}]
        /\ \A g \in Fetchers : pc'[g] \in {"page", "install"} <=> holder' = g
    BY <1>1, <1>2, <1>3 DEF CatalogInv, TypeOK
  <2> QED
    BY <1>3, <2>2, <2>3, <2>4 DEF CatalogInv, TypeOK
<1>8. FetchInv'
  <2>1. \A g \in Fetchers \ {f} : pc'[g] = pc[g] /\ page'[g] = page[g] /\ got'[g] = got[g]
    BY <1>2, <1>5 DEF CatalogInv, TypeOK
  <2>2. pc'[f] = (IF more /\ page'[f] < MaxPages THEN "page" ELSE "install")
    BY <1>2 DEF CatalogInv, TypeOK
  <2>3. served.last <= upstream
    BY DEF CatalogInv, FetchInv
  <2>4. served.last \in Nat /\ upstream \in Nat
    BY ListsFact DEF CatalogInv, TypeOK
  <2> QED
    BY <1>1, <1>3, <1>4, <1>6, <2>1, <2>2, <2>3, <2>4 DEF CatalogInv, FetchInv
<1>9. BootInv' /\ ServesModels'
  BY <1>1, <1>2, <1>3 DEF CatalogInv, TypeOK, BootInv, ServesModels
<1> QED
  BY <1>7, <1>8, <1>9 DEF CatalogInv

\* Each step keeps the invariant.
LEMMA CatalogNextInv == CatalogInv /\ [Next]_vars => CatalogInv'
<1> SUFFICES ASSUME CatalogInv, [Next]_vars PROVE CatalogInv'
  OBVIOUS
<1> USE FetchersFact, CatalogAssumption
<1>1. ASSUME NEW f \in Fetchers, Lock(f) PROVE CatalogInv'
  <2>1. TypeOK'
    BY <1>1 DEF CatalogInv, TypeOK, Lock, bootVars
  <2>2. FetchInv'
    BY <1>1 DEF CatalogInv, TypeOK, FetchInv, Lock
  <2>3. BootInv' /\ ServesModels'
    BY <1>1 DEF CatalogInv, TypeOK, BootInv, ServesModels, Lock, bootVars
  <2> QED
    BY <2>1, <2>2, <2>3 DEF CatalogInv
<1>2. ASSUME NEW f \in Fetchers, Page(f) PROVE CatalogInv'
  BY <1>2, PageInv
<1>3. ASSUME NEW f \in Fetchers, PageFails(f) PROVE CatalogInv'
  BY <1>3, ReturnKeepsInv DEF PageFails
<1>4. ASSUME NEW f \in Fetchers, Install(f) PROVE CatalogInv'
  BY <1>4, InstallInv
<1>5. ASSUME NEW r \in Requests, EnsureFresh(r) \/ Done(r) PROVE CatalogInv'
  <2>1. /\ UNCHANGED <<upstream, served, age, holder, page, got, bootAttempt, bootError>>
        /\ pc[r] \in {"idle", "answered"}
        /\ \E s \in {"idle", "queue", "answered"} : pc' = [pc EXCEPT ![r] = s]
    BY <1>5 DEF EnsureFresh, Done, bootVars
  <2>2. TypeOK'
    BY <2>1 DEF CatalogInv, TypeOK
  <2>3. FetchInv' /\ BootInv' /\ ServesModels'
    BY <2>1 DEF CatalogInv, TypeOK, FetchInv, BootInv, ServesModels
  <2> QED
    BY <2>2, <2>3 DEF CatalogInv
<1>6. CASE BootAgain
  <2>1. TypeOK'
    BY <1>6 DEF CatalogInv, TypeOK, BootInv, BootAgain
  <2>2. FetchInv' /\ BootInv' /\ ServesModels'
    BY <1>6 DEF CatalogInv, TypeOK, FetchInv, BootInv, ServesModels, BootAgain
  <2> QED
    BY <2>1, <2>2 DEF CatalogInv
<1>7. CASE Publish
  <2>1. TypeOK'
    BY <1>7 DEF CatalogInv, TypeOK, Publish, bootVars
  <2>2. FetchInv'
    BY <1>7, ListsFact DEF CatalogInv, TypeOK, FetchInv, Publish
  <2>3. BootInv' /\ ServesModels'
    BY <1>7 DEF CatalogInv, TypeOK, BootInv, ServesModels, Publish, bootVars
  <2> QED
    BY <2>1, <2>2, <2>3 DEF CatalogInv
<1>8. CASE Expire \/ UNCHANGED vars
  BY <1>8 DEF CatalogInv, TypeOK, FetchInv, BootInv, ServesModels, Expire, bootVars, vars
<1> QED
  BY <1>1, <1>2, <1>3, <1>4, <1>5, <1>6, <1>7, <1>8 DEF Next, RefreshStep

LEMMA CatalogInvariance == Spec => []CatalogInv
  BY CatalogInitInv, CatalogNextInv, PTL DEF Spec

\* The variables keep their types, and the mutex is held by whoever fetches.
THEOREM TypeCorrect == Spec => []TypeOK
<1>1. CatalogInv => TypeOK
  BY DEF CatalogInv
<1> QED
  BY <1>1, CatalogInvariance, PTL

\* Whoever serves has models to serve, for any requests and however refreshes
\* fail (Refresh, loadCatalog).
THEOREM ModelsAreServed == Spec => []ServesModels
<1>1. CatalogInv => ServesModels
  BY DEF CatalogInv
<1> QED
  BY <1>1, CatalogInvariance, PTL

\* Only a complete fetch changes the list, and to one that is no older.
LEMMA StepGoesForward ==
  ASSUME CatalogInv, [Next]_vars, served' # served, served.found
  PROVE  served'.first >= served.last
<1>1. \E f \in Fetchers : Install(f)
  BY DEF Next, RefreshStep, vars, bootVars, Lock, Page, PageFails, EnsureFresh, Done,
     BootAgain, Publish, Expire
<1> QED
  BY <1>1, InstallInv

\* The list never goes back, for any requests and any number of pages: fetches,
\* and not only swaps, are serialised (Refresh).
THEOREM ListGoesForward == Spec => NeverGoesBack
<1>1. CatalogInv /\ [Next]_vars
        => [served' # served /\ served.found => served'.first >= served.last]_served
  BY StepGoesForward
<1> QED
  BY <1>1, CatalogInvariance, PTL DEF Spec, NeverGoesBack

-----------------------------------------------------------------------------
(* The process: the catalog's invariant holds under it.                     *)

\* What run knows of the catalog and the requests at each of its stages.
ProcInv ==
    /\ proc \in Starting \cup {"serving", "draining", "exited"}
    /\ failed \in BOOLEAN /\ signalled \in BOOLEAN
    /\ exit \in {"none", "ok", "error", "killed"}
    /\ proc = "exited" <=> exit # "none"
    /\ proc \in {"serving", "draining"} \/ failed \/ signalled => pc[Boot] = "up"
    /\ proc \in Starting => \A r \in Requests : pc[r] = "idle"
    /\ exit = "ok" => pc[Boot] = "up" /\ \A r \in Requests : pc[r] = "idle"

LifeInv == CatalogInv /\ ProcInv

LEMMA LifeInitInv == LifecycleInit => LifeInv
<1> SUFFICES ASSUME LifecycleInit PROVE LifeInv
  OBVIOUS
<1>1. CatalogInv
  BY CatalogInitInv DEF LifecycleInit
<1>2. ProcInv
  BY FetchersFact DEF LifecycleInit, Init, ProcInv, Starting, Sources
<1> QED
  BY <1>1, <1>2 DEF LifeInv

\* A step of the catalog: a model list once loaded stays loaded, and a request
\* that is idle stays so unless it is the one that arrives.
LEMMA CatalogStep ==
  ASSUME LifeInv, proc # "exited", UNCHANGED procVars,
         \/ \E f \in Fetchers : Lock(f) \/ RefreshStep(f)
         \/ \E r \in Requests : Arrive(r) \/ Done(r)
         \/ BootAgain \/ Publish \/ Expire
  PROVE  LifeInv'
<1> USE FetchersFact
<1>1. CatalogInv'
  BY CatalogNextInv DEF LifeInv, Next, Arrive
<1>2. \/ \E f \in Fetchers : /\ pc[f] \in {"queue", "page", "install"}
                             /\ \A g \in Fetchers \ {f} : pc'[g] = pc[g]
      \/ \E r \in Requests : /\ proc \in {"serving", "draining"} \/ pc[r] = "answered"
                             /\ \A g \in Fetchers \ {r} : pc'[g] = pc[g]
      \/ pc[Boot] = "sleep" /\ \A g \in Fetchers \ {Boot} : pc'[g] = pc[g]
      \/ pc' = pc
  <2>1. ASSUME NEW f \in Fetchers, Lock(f)
        PROVE  pc[f] = "queue" /\ \A g \in Fetchers \ {f} : pc'[g] = pc[g]
    BY <2>1 DEF Lock, LifeInv, CatalogInv, TypeOK
  <2>2. ASSUME NEW f \in Fetchers, RefreshStep(f)
        PROVE  pc[f] \in {"page", "install"} /\ \A g \in Fetchers \ {f} : pc'[g] = pc[g]
    BY <2>2 DEF RefreshStep, Page, PageFails, Install, RefreshReturned, LifeInv, CatalogInv, TypeOK
  <2>3. ASSUME NEW r \in Requests, Arrive(r)
        PROVE  proc \in {"serving", "draining"} /\ \A g \in Fetchers \ {r} : pc'[g] = pc[g]
    BY <2>3 DEF Arrive, EnsureFresh, LifeInv, CatalogInv, TypeOK
  <2>4. ASSUME NEW r \in Requests, Done(r)
        PROVE  pc[r] = "answered" /\ \A g \in Fetchers \ {r} : pc'[g] = pc[g]
    BY <2>4 DEF Done, LifeInv, CatalogInv, TypeOK
  <2>5. CASE BootAgain
    BY <2>5 DEF BootAgain, LifeInv, CatalogInv, TypeOK
  <2>6. CASE Publish \/ Expire
    BY <2>6 DEF Publish, Expire
  <2> QED
    BY <2>1, <2>2, <2>3, <2>4, <2>5, <2>6
<1>3. ProcInv'
  <2>1. UNCHANGED <<proc, failed, signalled, exit>>
    BY DEF procVars
  <2>2. pc[Boot] = "up" => pc'[Boot] = "up"
    BY <1>2
  <2>3. proc \in Starting => \A r \in Requests : pc[r] = "idle" /\ pc'[r] = "idle"
    BY <1>2 DEF LifeInv, ProcInv, Starting, Sources
  <2>4. exit = "none"
    BY DEF LifeInv, ProcInv
  <2> QED
    BY <2>1, <2>2, <2>3, <2>4 DEF LifeInv, ProcInv
<1> QED
  BY <1>1, <1>3 DEF LifeInv

\* A step of run leaves the catalog alone.
LEMMA RunLeavesCatalog == ASSUME CatalogInv, UNCHANGED vars PROVE CatalogInv'
  BY CatalogNextInv

\* Each step of the process keeps the invariant.
LEMMA LifeNextInv == LifeInv /\ [LifecycleNext]_lifeVars => LifeInv'
<1> SUFFICES ASSUME LifeInv, [LifecycleNext]_lifeVars PROVE LifeInv'
  OBVIOUS
<1>1. CASE LoadCredentials
  <2>1. /\ UNCHANGED <<vars, failed, signalled>>
        /\ proc \in Sources
        /\ \/ proc' \in Starting /\ exit' = exit
           \/ proc' = "exited" /\ exit' = "error"
    BY <1>1 DEF LoadCredentials, Configured, Ask, Discover, SQLite, Exit, Starting, Sources
  <2>2. CatalogInv'
    BY <2>1, RunLeavesCatalog DEF LifeInv
  <2>3. ProcInv'
    BY <2>1 DEF LifeInv, ProcInv, Starting, Sources, vars
  <2> QED
    BY <2>2, <2>3 DEF LifeInv
<1>2. CASE Loaded \/ ListenFails \/ Signal \/ RunSelects \/ Drained \/ DrainTimesOut
  <2>1. UNCHANGED vars
    BY <1>2 DEF Loaded, ListenFails, Signal, RunSelects, Drained, DrainTimesOut, vars
  <2>2. CatalogInv'
    BY <2>1, RunLeavesCatalog DEF LifeInv
  <2>3. CASE Loaded
    BY <2>1, <2>2, <2>3 DEF Loaded, Exit, LifeInv, ProcInv, Starting, Sources, vars
  <2>4. CASE ListenFails
    BY <2>1, <2>2, <2>4 DEF ListenFails, LifeInv, ProcInv, Starting, Sources, vars
  <2>5. CASE Signal
    <3>1. pc' = pc /\ failed' = failed
      BY <2>5 DEF Signal, vars
    <3>2. CASE proc \in Starting /\ Exit("killed") /\ UNCHANGED signalled
      BY <2>2, <3>1, <3>2 DEF Exit, LifeInv, ProcInv, Starting, Sources
    <3>3. CASE proc = "serving" /\ signalled' = TRUE /\ UNCHANGED <<proc, exit>>
      BY <2>2, <3>1, <3>3 DEF LifeInv, ProcInv, Starting, Sources
    <3> QED
      BY <2>5, <3>2, <3>3 DEF Signal
  <2>6. CASE RunSelects
    BY <2>1, <2>2, <2>6 DEF RunSelects, Exit, LifeInv, ProcInv, Starting, Sources, vars
  <2>7. CASE Drained
    BY <2>1, <2>2, <2>7 DEF Drained, InFlight, Exit, LifeInv, ProcInv, Starting, Sources, vars
  <2>8. CASE DrainTimesOut
    BY <2>1, <2>2, <2>8 DEF DrainTimesOut, Exit, LifeInv, ProcInv, Starting, Sources, vars
  <2> QED
    BY <1>2, <2>3, <2>4, <2>5, <2>6, <2>7, <2>8
<1>3. ASSUME NEW f \in Fetchers, Alive(Lock(f) \/ RefreshStep(f)) PROVE LifeInv'
  BY <1>3, CatalogStep DEF Alive
<1>4. ASSUME NEW r \in Requests, Alive(Arrive(r) \/ Done(r)) PROVE LifeInv'
  BY <1>4, CatalogStep DEF Alive
<1>5. CASE Alive(BootAgain \/ Publish \/ Expire)
  BY <1>5, CatalogStep DEF Alive
<1>6. CASE UNCHANGED lifeVars
  <2>1. UNCHANGED vars /\ UNCHANGED <<proc, failed, signalled, exit>> /\ pc' = pc
    BY <1>6 DEF lifeVars, procVars, vars
  <2>2. CatalogInv'
    BY <2>1, RunLeavesCatalog DEF LifeInv
  <2> QED
    BY <2>1, <2>2 DEF LifeInv, ProcInv
<1> QED
  BY <1>1, <1>2, <1>3, <1>4, <1>5, <1>6 DEF LifecycleNext, RunStep

LEMMA LifeInvariance == LifecycleSpec => []LifeInv
  BY LifeInitInv, LifeNextInv, PTL DEF LifecycleSpec

\* The types, and who runs when: nothing is served before the catalog is loaded.
THEOREM ProcessTypeCorrect == LifecycleSpec => []LifecycleTypeOK
<1>1. LifeInv => LifecycleTypeOK
  BY DEF LifeInv, ProcInv, CatalogInv, LifecycleTypeOK
<1> QED
  BY <1>1, LifeInvariance, PTL

\* A process that reports a clean stop cut no request off, and nobody was in
\* the middle of a refresh (run, http.Server.Shutdown).
THEOREM CleanStopIsDrained == LifecycleSpec => []CleanExitIsDrained
<1>1. LifeInv => CleanExitIsDrained
  <2> SUFFICES ASSUME LifeInv, exit = "ok" PROVE InFlight = {} /\ holder = Nobody
    BY DEF CleanExitIsDrained
  <2>1. pc[Boot] = "up" /\ \A r \in Requests : pc[r] = "idle"
    BY DEF LifeInv, ProcInv
  <2>2. \A f \in Fetchers : pc[f] \notin {"page", "install"}
    BY <2>1 DEF Fetchers
  <2>3. holder = Nobody
    BY <2>2 DEF LifeInv, CatalogInv, TypeOK
  <2> QED
    BY <2>1, <2>3 DEF InFlight
<1> QED
  BY <1>1, LifeInvariance, PTL

\* A process that serves has models to serve (loadCatalog, Refresh).
THEOREM ProcessServesModels == LifecycleSpec => []ServesModels
<1>1. LifeInv => ServesModels
  BY DEF LifeInv, CatalogInv
<1> QED
  BY <1>1, LifeInvariance, PTL
=============================================================================
