--------------------------- MODULE GatewayProcess ---------------------------
(***************************************************************************)
(* The gateway process from the flip to ready until it exits: main in       *)
(* cmd/gateway/main.go.  Three goroutines matter: main itself, blocked in    *)
(* api.ListenAndServe; the shutdown goroutine that wakes on the signal; and  *)
(* the handlers of both HTTP servers.  The process ends when main returns,   *)
(* whatever the other goroutines are doing.                                 *)
(*                                                                         *)
(* http.Server.Shutdown is external: it closes the listener at once, which   *)
(* makes the pending ListenAndServe return ErrServerClosed, and then waits   *)
(* for the server's requests or for its context.                            *)
(***************************************************************************)
EXTENDS FiniteSets, Naturals

CONSTANTS
    Calls,        \* API requests that may arrive
    Probes        \* requests to the metrics and readiness server

VARIABLES
    alive,        \* the process has not exited
    failed,       \* it exited because the API server could not serve
    signalled,    \* ctx is done
    ready,        \* s.ready
    shut,         \* the shutdown goroutine
    deadline,     \* shutdownCtx has expired
    listening,    \* servers whose listener is open
    api, probes,  \* requests being handled by each server
    scrapers,     \* the admitter's background work is running
    served,       \* requests answered in full
    cut           \* requests the exit of the process cut off

procVars == <<alive, failed, signalled, ready, shut, deadline, listening, api, probes, scrapers, served, cut>>

Servers == {"metrics", "api"}
Steps   == {"waiting", "metricsShutdown", "apiShutdown", "stopAdmitter", "done"}

ProcInit ==
    /\ alive = TRUE /\ failed = FALSE /\ signalled = FALSE /\ ready = FALSE
    /\ shut = "waiting" /\ deadline = FALSE
    /\ listening = Servers
    /\ api = {} /\ probes = {}
    /\ scrapers = TRUE
    /\ served = {} /\ cut = {}

-----------------------------------------------------------------------------
(* The world outside, and the handlers.                                    *)

\* The cache has synced: MarkReady.  The wait is cancelled by the signal.
CacheSynced ==
    /\ alive /\ ~ready /\ ~signalled
    /\ ready' = TRUE
    /\ UNCHANGED <<alive, failed, signalled, shut, deadline, listening, api, probes, scrapers, served, cut>>

\* SIGTERM: SetupSignalHandler cancels ctx.
Signal ==
    /\ alive /\ ~signalled
    /\ signalled' = TRUE
    /\ UNCHANGED <<alive, failed, ready, shut, deadline, listening, api, probes, scrapers, served, cut>>

\* A connection is accepted while the listener is open.
Arrive(r) ==
    /\ alive /\ "api" \in listening
    /\ r \notin api \cup served
    /\ api' = api \cup {r}
    /\ UNCHANGED <<alive, failed, signalled, ready, shut, deadline, listening, probes, scrapers, served, cut>>

Answer(r) ==
    /\ alive /\ r \in api
    /\ api' = api \ {r} /\ served' = served \cup {r}
    /\ UNCHANGED <<alive, failed, signalled, ready, shut, deadline, listening, probes, scrapers, cut>>

Probe(p) ==
    /\ alive
    /\ \/ "metrics" \in listening /\ p \notin probes /\ probes' = probes \cup {p}
       \/ p \in probes /\ probes' = probes \ {p}
    /\ UNCHANGED <<alive, failed, signalled, ready, shut, deadline, listening, api, scrapers, served, cut>>

-----------------------------------------------------------------------------
(* The shutdown goroutine.                                                  *)

\* <-ctx.Done(), the deadline context, metrics.Shutdown closes its listener.
BeginShutdown ==
    /\ alive /\ signalled /\ shut = "waiting"
    /\ shut' = "metricsShutdown"
    /\ listening' = listening \ {"metrics"}
    /\ UNCHANGED <<alive, failed, signalled, ready, deadline, api, probes, scrapers, served, cut>>

\* Mutant of Deadline: the wait is not bounded.
DeadlineNever == FALSE /\ UNCHANGED procVars

\* shutdownGrace is over.
Deadline ==
    /\ alive /\ shut \in {"metricsShutdown", "apiShutdown"} /\ ~deadline
    /\ deadline' = TRUE
    /\ UNCHANGED <<alive, failed, signalled, ready, shut, listening, api, probes, scrapers, served, cut>>

\* metrics.Shutdown returns, api.Shutdown closes its listener.
ShutdownApi ==
    /\ alive /\ shut = "metricsShutdown"
    /\ probes = {} \/ deadline
    /\ shut' = "apiShutdown"
    /\ listening' = listening \ {"api"}
    /\ UNCHANGED <<alive, failed, signalled, ready, deadline, api, probes, scrapers, served, cut>>

\* Mutant of Drained: the scrapers are stopped while requests drain.
DrainedEarly ==
    /\ alive /\ shut = "apiShutdown"
    /\ shut' = "stopAdmitter"
    /\ UNCHANGED <<alive, failed, signalled, ready, deadline, listening, api, probes, scrapers, served, cut>>

\* api.Shutdown returns: every request is done or the deadline has passed.
Drained ==
    /\ alive /\ shut = "apiShutdown"
    /\ api = {} \/ deadline
    /\ shut' = "stopAdmitter"
    /\ UNCHANGED <<alive, failed, signalled, ready, deadline, listening, api, probes, scrapers, served, cut>>

\* stopAdmitter: scraperManager.Stop in kv-aware mode.
StopAdmitter ==
    /\ alive /\ shut = "stopAdmitter"
    /\ shut' = "done" /\ scrapers' = FALSE
    /\ UNCHANGED <<alive, failed, signalled, ready, deadline, listening, api, probes, served, cut>>

-----------------------------------------------------------------------------
\* api.ListenAndServe returns because its listener is closed, and so does main.
\* Nothing waits for the shutdown goroutine.
MainReturns ==
    /\ alive /\ "api" \notin listening
    /\ alive' = FALSE
    /\ cut' = api /\ api' = {} /\ probes' = {}
    /\ UNCHANGED <<failed, signalled, ready, shut, deadline, listening, scrapers, served>>

\* ListenAndServe fails of itself (the port is taken, accept fails): os.Exit(1).
ServingFails ==
    /\ alive /\ "api" \in listening
    /\ alive' = FALSE /\ failed' = TRUE
    /\ cut' = api /\ api' = {} /\ probes' = {}
    /\ UNCHANGED <<signalled, ready, shut, deadline, listening, scrapers, served>>

ProcNext ==
    \/ CacheSynced \/ Signal
    \/ \E r \in Calls : Arrive(r) \/ Answer(r)
    \/ \E p \in Probes : Probe(p)
    \/ BeginShutdown \/ Deadline \/ ShutdownApi \/ Drained \/ StopAdmitter
    \/ MainReturns \/ ServingFails

ProcSpec == ProcInit /\ [][ProcNext]_procVars

\* The goroutines of a running process are scheduled and the timer fires; what
\* clients and upstreams do is not ours to assume.
ProcFairness == /\ WF_procVars(BeginShutdown) /\ WF_procVars(Deadline) /\ WF_procVars(ShutdownApi)
            /\ WF_procVars(Drained) /\ WF_procVars(StopAdmitter) /\ WF_procVars(MainReturns)

ProcFairSpec == ProcSpec /\ ProcFairness

-----------------------------------------------------------------------------
(* Properties.                                                             *)

\* main.go:260-261: the scrapers outlive the requests they serve: they are
\* stopped only when no request is being handled or the deadline has passed.
GuardOutlivesRequests ==
    ~scrapers => api = {} \/ deadline

\* main.go:251-253: readiness goes before the API does, so the Pod leaves the
\* Service while requests are still accepted.
ReadinessGoesFirst == "api" \notin listening => "metrics" \notin listening

\* main.go:245-248: the bound on the drain: a stuck probe or upstream cannot keep
\* the process from ending after the signal.
SignalEndsProcess == signalled ~> ~alive

\* "Shutdown is one sequence - stop accepting, drain, then stop the machinery the
\* drained requests were using" (main.go:174-175), with "in-flight requests were cut
\* short by the shutdown deadline" (main.go:258) as its only exception.
DrainedUnlessLate == cut # {} => deadline \/ failed
=============================================================================
