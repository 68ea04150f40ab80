------------------------------ MODULE Lifecycle ------------------------------
(***************************************************************************)
(* cmd/kirogo: run, from looking for credentials to the end of the         *)
(* process, around the model catalog, which startup has to load and which  *)
(* requests refresh. A signal ends the process at once until run catches   *)
(* it; then requests are drained, for ten seconds.                         *)
(*                                                                         *)
(* A credential source is asked once, so what it answers is a choice made  *)
(* when it is asked.                                                       *)
(***************************************************************************)
EXTENDS Catalog

VARIABLES
    proc,           \* where run is
    failed,         \* ListenAndServe has returned an error: errCh holds it
    signalled,      \* the context of NotifyContext is done
    exit            \* how the process ended

procVars == <<proc, failed, signalled, exit>>
lifeVars == <<vars, procVars>>

\* Looking for credentials, source by source; loading the catalog; serving;
\* Shutdown; and the end.
Sources == {"configured", "environment", "discovery", "discovered", "sqlite"}
Starting == Sources \cup {"loading"}

LifecycleInit ==
    /\ Init
    /\ proc = "configured"
    /\ failed = FALSE /\ signalled = FALSE
    /\ exit = "none"

Exit(how) ==
    /\ proc' = "exited"
    /\ exit' = how

-----------------------------------------------------------------------------
(* loadCredentials.                                                         *)

\* One source is asked: its credentials are used, or the next one's turn comes.
Ask(source, next) ==
    /\ proc = source
    /\ proc' \in {"loading", next}
    /\ UNCHANGED <<vars, failed, signalled, exit>>

\* A file named by KIRO_CREDS_FILE is used or startup fails: no other source
\* stands in for it.
Configured ==
    \/ Ask("configured", "environment")
    \/ /\ proc = "configured"
       /\ Exit("error")
       /\ UNCHANGED <<vars, failed, signalled>>

\* Discover finds a file with a refresh token, which is then read again: it may
\* have changed, or have fields of the wrong type. There is no second file.
Discover ==
    /\ proc = "discovery"
    /\ proc' \in {"discovered", "sqlite"}
    /\ UNCHANGED <<vars, failed, signalled, exit>>

\* The last source: without it there is nothing to start with.
SQLite ==
    /\ proc = "sqlite"
    /\ \/ proc' = "loading" /\ UNCHANGED exit
       \/ Exit("error")
    /\ UNCHANGED <<vars, failed, signalled>>

LoadCredentials ==
    \/ Configured
    \/ Ask("environment", "discovery")
    \/ Discover
    \/ Ask("discovered", "sqlite")
    \/ SQLite

-----------------------------------------------------------------------------
(* run, after loadCredentials.                                              *)

\* A step of the catalog while the process lives. Boot's turn comes with the
\* credentials.
Alive(step) == proc # "exited" /\ step /\ UNCHANGED procVars

FetchStep(f) == f = Boot => proc = "loading"

\* Requests come over connections that are open, also when accepting new ones has
\* failed, and while Shutdown has not found the connection idle.
Arrive(r) == proc \in {"serving", "draining"} /\ EnsureFresh(r)

\* loadCatalog has returned: --dump-models prints the list and stops.
Loaded ==
    /\ proc = "loading"
    /\ \/ pc[Boot] = "down" /\ Exit("error")
       \/ pc[Boot] = "up" /\ Exit("ok")
       \/ pc[Boot] = "up" /\ proc' = "serving" /\ UNCHANGED exit
    /\ UNCHANGED <<vars, failed, signalled>>

\* The address is taken, or accepting connections fails later.
ListenFails ==
    /\ proc = "serving" /\ ~failed
    /\ failed' = TRUE
    /\ UNCHANGED <<vars, proc, signalled, exit>>

\* Only a process that serves catches signals.
Signal ==
    /\ ~signalled
    /\ \/ proc \in Starting /\ Exit("killed") /\ UNCHANGED signalled
       \/ proc = "serving" /\ signalled' = TRUE /\ UNCHANGED <<proc, exit>>
    /\ UNCHANGED <<vars, failed>>

\* run's select: whichever is ready, and either if both are.
RunSelects ==
    /\ proc = "serving"
    /\ \/ failed /\ Exit("error")
       \/ signalled /\ proc' = "draining" /\ UNCHANGED exit
    /\ UNCHANGED <<vars, failed, signalled>>

InFlight == {r \in Requests : pc[r] # "idle"}

\* A variant that closes the connections and does not wait.
Drained_AtOnce ==
    /\ proc = "draining"
    /\ Exit("ok")
    /\ UNCHANGED <<vars, failed, signalled>>

\* Shutdown has closed the listener and waits for the requests that are open.
Drained ==
    /\ proc = "draining"
    /\ InFlight = {}
    /\ Exit("ok")
    /\ UNCHANGED <<vars, failed, signalled>>

\* Ten seconds are over: the process ends, and the requests with it.
DrainTimesOut ==
    /\ proc = "draining"
    /\ InFlight # {}
    /\ Exit("error")
    /\ UNCHANGED <<vars, failed, signalled>>

RunStep == LoadCredentials \/ Loaded \/ RunSelects \/ Drained \/ DrainTimesOut

-----------------------------------------------------------------------------

LifecycleNext ==
    \/ RunStep \/ ListenFails \/ Signal
    \/ \E f \in Fetchers : FetchStep(f) /\ Alive(Lock(f) \/ RefreshStep(f))
    \/ \E r \in Requests : Alive(Arrive(r) \/ Done(r))
    \/ Alive(BootAgain \/ Publish \/ Expire)

\* A page is bounded by the HTTP client's timeouts and the sleep by its length.
\* A mutex goes to whoever has waited long enough (Go's starvation mode). run
\* goes on when it can, and Shutdown within its ten seconds. Nobody need send a
\* signal, and a client may take for ever to read its answer.
Fairness ==
    /\ \A f \in Fetchers :
          /\ SF_lifeVars(FetchStep(f) /\ Alive(Lock(f)))
          /\ WF_lifeVars(FetchStep(f) /\ Alive(RefreshStep(f)))
    /\ WF_lifeVars(Alive(BootAgain))
    /\ WF_lifeVars(RunStep)

LifecycleSpec == LifecycleInit /\ [][LifecycleNext]_lifeVars /\ Fairness

-----------------------------------------------------------------------------
(* Properties.                                                              *)

\* The types, and who runs when: the catalog is loaded before anything is
\* served, and a signal is caught only from then on.
LifecycleTypeOK ==
    /\ TypeOK
    /\ proc \in Starting \cup {"serving", "draining", "exited"}
    /\ failed \in BOOLEAN /\ signalled \in BOOLEAN
    /\ exit \in {"none", "ok", "error", "killed"}
    /\ proc = "exited" <=> exit # "none"
    /\ proc \in {"serving", "draining"} \/ failed \/ signalled => pc[Boot] = "up"

\* A request past the TTL is not held up for ever while the process lives, by a
\* backend with endless pages or by the requests that queue for the mutex before it.
RequestsGoOn ==
    \A r \in Requests : pc[r] = "queue" ~> pc[r] = "answered" \/ proc = "exited"

\* Startup ends, serving or not, however the attempts fail; and a process that
\* is told to stop does stop, also if a client never finishes (main.go:144).
ProcessSettles ==
    /\ <>(proc \in {"serving", "exited"})
    /\ signalled ~> proc = "exited"

\* A process that reports a clean stop has let every request finish: requests
\* that were cut off make it report an error (main.go:146-149).
CleanExitIsDrained == exit = "ok" => InFlight = {} /\ holder = Nobody
=============================================================================
