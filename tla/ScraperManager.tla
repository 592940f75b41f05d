--------------------------- MODULE ScraperManager ---------------------------
(***************************************************************************)
(* The life cycle of the gateway's telemetry scrapers: scraperManager in    *)
(* internal/gateway/kvguard.go.  Four kinds of goroutine meet here: request *)
(* handlers that Register a backend and look its snapshot up, the janitor    *)
(* that sweeps idle backends, the shutdown goroutine in Stop, and one        *)
(* scraper goroutine per registered backend, which publishes Prometheus      *)
(* series until it is told to stop.                                          *)
(*                                                                         *)
(* mu is the manager's mutex: a critical section that cannot block is one    *)
(* step, the sweep, which waits for scrapers to exit while it holds mu, is   *)
(* several.                                                                 *)
(***************************************************************************)
EXTENDS Integers, FiniteSets

CONSTANTS
    Keys,            \* backend keys
    Gens,            \* identities of the scraper objects of one key
    NoGen,           \* no scraper in the map
    IdleTimeout,
    UnregisterKeys,  \* keys some caller may Unregister ({} in production)
    MaxClock         \* bound: the clock stops here

ASSUME ManagerAssumption ==
    /\ NoGen \notin Gens
    /\ IdleTimeout \in Nat /\ MaxClock \in Nat
    /\ UnregisterKeys \subseteq Keys

VARIABLES
    clock,
    mu,           \* who holds m.mu across a wait: "free" or "janitor"
    scrapers,     \* m.scrapers
    lastRouted,   \* m.lastRouted
    stopped,      \* m.stopped
    gor,          \* the scraper goroutines
    gauges,       \* keys whose live series are exposed
    janitor,      \* the janitor: pc, the cutoff it read, the keys left to visit
    stopper,      \* the goroutine in Stop: pc and the scrapers it still has to stop
    unreg,        \* the goroutine in Unregister
    routedAt      \* history: when each key was last handed to Register

managerVars == <<clock, mu, scrapers, lastRouted, stopped, gor, gauges, janitor,
                 stopper, unreg, routedAt>>

NeverRouted == -1 - IdleTimeout    \* lastRouted of a key that is not in the map
Scrapers == Keys \X Gens           \* scraper objects

\* "none": not started, or exited and forgotten; "running"; "stopping": its stop
\* channel is closed; "exited": its done channel is closed.
GorStates == {"none", "running", "stopping", "exited"}

Live(k, g) == gor[<<k, g>>] \in {"running", "stopping"}

-----------------------------------------------------------------------------
ManagerInit ==
    /\ clock = 0
    /\ mu = "free"
    /\ scrapers = [k \in Keys |-> NoGen]
    /\ lastRouted = [k \in Keys |-> NeverRouted]
    /\ stopped = FALSE
    /\ gor = [s \in Scrapers |-> "none"]
    /\ gauges = {}
    /\ janitor = [pc |-> "select", cutoff |-> 0, todo |-> {}, stopping |-> {}]
    /\ stopper = [pc |-> "idle", left |-> {}]
    /\ unreg = {}
    /\ routedAt = [k \in Keys |-> NeverRouted]

-----------------------------------------------------------------------------
(* Request handlers.                                                       *)

\* Mutant of Register: a stopped manager still starts scrapers.
RegisterAfterStop(k) ==
    /\ mu = "free"
    /\ routedAt' = [routedAt EXCEPT ![k] = clock]
    /\ lastRouted' = [lastRouted EXCEPT ![k] = clock]
    /\ \/ /\ scrapers[k] # NoGen
          /\ UNCHANGED <<scrapers, gor>>
       \/ /\ scrapers[k] = NoGen
          /\ \E g \in Gens : /\ gor[<<k, g>>] = "none"
                             /\ scrapers' = [scrapers EXCEPT ![k] = g]
                             /\ gor' = [gor EXCEPT ![<<k, g>>] = "running"]
    /\ UNCHANGED <<clock, mu, stopped, gauges, janitor, stopper, unreg>>

\* Register: stamp the route, start a scraper when the key has none.
Register(k) ==
    /\ mu = "free" /\ ~stopped
    /\ routedAt' = [routedAt EXCEPT ![k] = clock]
    /\ lastRouted' = [lastRouted EXCEPT ![k] = clock]
    /\ \/ /\ scrapers[k] # NoGen
          /\ UNCHANGED <<scrapers, gor>>
       \/ /\ scrapers[k] = NoGen
          /\ \E g \in Gens : /\ gor[<<k, g>>] = "none"
                             /\ scrapers' = [scrapers EXCEPT ![k] = g]
                             /\ gor' = [gor EXCEPT ![<<k, g>>] = "running"]
    /\ UNCHANGED <<clock, mu, stopped, gauges, janitor, stopper, unreg>>

\* Unregister, first half: the key leaves the maps under the lock.
UnregisterDetach(k) ==
    /\ k \in UnregisterKeys
    /\ mu = "free" /\ scrapers[k] # NoGen
    /\ unreg' = unreg \cup {<<k, scrapers[k]>>}
    /\ gor' = [gor EXCEPT ![<<k, scrapers[k]>>] = "stopping"]
    /\ scrapers' = [scrapers EXCEPT ![k] = NoGen]
    /\ lastRouted' = [lastRouted EXCEPT ![k] = NeverRouted]
    /\ UNCHANGED <<clock, mu, stopped, gauges, janitor, stopper, routedAt>>

\* Unregister, second half, without the lock: the scraper has exited, its gauges go.
UnregisterFinish(s) ==
    /\ s \in unreg /\ gor[s] = "exited"
    /\ unreg' = unreg \ {s}
    /\ gor' = [gor EXCEPT ![s] = "none"]
    /\ gauges' = gauges \ {s[1]}
    /\ UNCHANGED <<clock, mu, scrapers, lastRouted, stopped, janitor, stopper, routedAt>>

-----------------------------------------------------------------------------
(* Scraper goroutines.                                                     *)

\* publish sets the live gauges of the backend.  A stopped scraper may still do
\* it: the cancelled scrape returns an error and tick publishes, and a select
\* with the ticker and stop both ready picks either.
Publish(s) ==
    /\ gor[s] \in {"running", "stopping"}
    /\ gauges' = gauges \cup {s[1]}
    /\ UNCHANGED <<clock, mu, scrapers, lastRouted, stopped, gor, janitor, stopper,
                   unreg, routedAt>>

\* Mutant of Exit: the scraper needs the manager's lock to leave.
ExitTakesLock(s) ==
    /\ gor[s] = "stopping" /\ mu = "free"
    /\ gor' = [gor EXCEPT ![s] = "exited"]
    /\ UNCHANGED <<clock, mu, scrapers, lastRouted, stopped, gauges, janitor, stopper,
                   unreg, routedAt>>

\* run returns and closes done.
Exit(s) ==
    /\ gor[s] = "stopping"
    /\ gor' = [gor EXCEPT ![s] = "exited"]
    /\ UNCHANGED <<clock, mu, scrapers, lastRouted, stopped, gauges, janitor, stopper,
                   unreg, routedAt>>

-----------------------------------------------------------------------------
(* The janitor: evictIdle and sweep.                                       *)

\* The sweep ticker fires; sweep computes its cutoff before it takes the lock.
JanitorTick ==
    /\ janitor.pc = "select"
    /\ janitor' = [janitor EXCEPT !.pc = "lock", !.cutoff = clock - IdleTimeout]
    /\ UNCHANGED <<clock, mu, scrapers, lastRouted, stopped, gor, gauges, stopper,
                   unreg, routedAt>>

JanitorLock ==
    /\ janitor.pc = "lock" /\ mu = "free"
    /\ mu' = "janitor"
    /\ janitor' = [janitor EXCEPT !.pc = "sweep",
                                  !.todo = {k \in Keys : scrapers[k] # NoGen}]
    /\ UNCHANGED <<clock, scrapers, lastRouted, stopped, gor, gauges, stopper,
                   unreg, routedAt>>

\* One key of the loop, kept: at.After(cutoff).
JanitorKeep(k) ==
    /\ janitor.pc = "sweep" /\ k \in janitor.todo
    /\ lastRouted[k] > janitor.cutoff
    /\ janitor' = [janitor EXCEPT !.todo = @ \ {k}]
    /\ UNCHANGED <<clock, mu, scrapers, lastRouted, stopped, gor, gauges, stopper,
                   unreg, routedAt>>

\* One key of the loop, evicted: out of both maps, then its stop channel closed.
JanitorEvict(k) ==
    /\ janitor.pc = "sweep" /\ k \in janitor.todo
    /\ lastRouted[k] <= janitor.cutoff
    /\ scrapers' = [scrapers EXCEPT ![k] = NoGen]
    /\ lastRouted' = [lastRouted EXCEPT ![k] = NeverRouted]
    /\ gor' = [gor EXCEPT ![<<k, scrapers[k]>>] = "stopping"]
    /\ janitor' = [janitor EXCEPT !.pc = "join", !.todo = @ \ {k},
                                  !.stopping = {<<k, scrapers[k]>>}]
    /\ UNCHANGED <<clock, mu, stopped, gauges, stopper, unreg, routedAt>>

\* Mutant of JanitorJoin: the sweep does not wait for the scraper to exit.
JanitorJoinEarly(s) ==
    /\ janitor.pc = "join" /\ s \in janitor.stopping
    /\ gor' = IF gor[s] = "exited" THEN [gor EXCEPT ![s] = "none"] ELSE gor
    /\ gauges' = gauges \ {s[1]}
    /\ janitor' = [janitor EXCEPT !.pc = "sweep", !.stopping = {}]
    /\ UNCHANGED <<clock, mu, scrapers, lastRouted, stopped, stopper, unreg, routedAt>>

\* Stop returns when the scraper has exited; then deleteBackendGauges.
JanitorJoin(s) ==
    /\ janitor.pc = "join" /\ s \in janitor.stopping
    /\ gor[s] = "exited"
    /\ gor' = [gor EXCEPT ![s] = "none"]
    /\ gauges' = gauges \ {s[1]}
    /\ janitor' = [janitor EXCEPT !.pc = "sweep", !.stopping = {}]
    /\ UNCHANGED <<clock, mu, scrapers, lastRouted, stopped, stopper, unreg, routedAt>>

JanitorUnlock ==
    /\ janitor.pc = "sweep" /\ janitor.todo = {}
    /\ mu' = "free"
    /\ janitor' = [janitor EXCEPT !.pc = "select", !.cutoff = 0]
    /\ UNCHANGED <<clock, scrapers, lastRouted, stopped, gor, gauges, stopper, unreg,
                   routedAt>>

\* janitorStop is closed: evictIdle returns and closes janitorDone.
JanitorExit ==
    /\ janitor.pc = "select" /\ stopper.pc = "joinJanitor"
    /\ janitor' = [janitor EXCEPT !.pc = "done"]
    /\ UNCHANGED <<clock, mu, scrapers, lastRouted, stopped, gor, gauges, stopper, unreg,
                   routedAt>>

-----------------------------------------------------------------------------
(* Stop.                                                                   *)

\* Mutant of StopBegin: the lock is held while Stop waits for the janitor.
StopBeginHoldsLock ==
    /\ mu = "free" /\ stopper.pc = "idle"
    /\ stopped' = TRUE
    /\ mu' = "stop"
    /\ stopper' = [stopper EXCEPT !.pc = "joinJanitor"]
    /\ UNCHANGED <<clock, scrapers, lastRouted, gor, gauges, janitor, unreg, routedAt>>

\* The stopped flag is set under the lock and janitorStop closed after it.  A
\* second call finds the flag and returns.
StopBegin ==
    /\ mu = "free" /\ stopper.pc = "idle"
    /\ stopped' = TRUE
    /\ stopper' = [stopper EXCEPT !.pc = "joinJanitor"]
    /\ UNCHANGED <<clock, mu, scrapers, lastRouted, gor, gauges, janitor, unreg, routedAt>>

\* The janitor is done: take every scraper out of the maps under the lock.
StopTake ==
    /\ stopper.pc = "joinJanitor" /\ janitor.pc = "done" /\ mu = "free"
    /\ stopper' = [pc |-> "stopping",
                   left |-> {s \in Scrapers : scrapers[s[1]] = s[2]}]
    /\ scrapers' = [k \in Keys |-> NoGen]
    /\ lastRouted' = [k \in Keys |-> NeverRouted]
    /\ UNCHANGED <<clock, mu, stopped, gor, gauges, janitor, unreg, routedAt>>

\* The scrapers are stopped one after the other, in map order.
StopSignal(s) ==
    /\ stopper.pc = "stopping" /\ s \in stopper.left
    /\ gor[s] = "running"
    /\ \A t \in stopper.left : gor[t] = "running"
    /\ gor' = [gor EXCEPT ![s] = "stopping"]
    /\ UNCHANGED <<clock, mu, scrapers, lastRouted, stopped, gauges, janitor, stopper,
                   unreg, routedAt>>

StopJoin(s) ==
    /\ stopper.pc = "stopping" /\ s \in stopper.left
    /\ gor[s] = "exited"
    /\ gor' = [gor EXCEPT ![s] = "none"]
    /\ stopper' = [stopper EXCEPT !.left = @ \ {s}]
    /\ UNCHANGED <<clock, mu, scrapers, lastRouted, stopped, gauges, janitor, unreg, routedAt>>

StopReturn ==
    /\ stopper.pc = "stopping" /\ stopper.left = {}
    /\ stopper' = [stopper EXCEPT !.pc = "returned"]
    /\ UNCHANGED <<clock, mu, scrapers, lastRouted, stopped, gor, gauges, janitor, unreg, routedAt>>

-----------------------------------------------------------------------------
Advance ==
    /\ clock < MaxClock
    /\ clock' = clock + 1
    /\ UNCHANGED <<mu, scrapers, lastRouted, stopped, gor, gauges, janitor, stopper,
                   unreg, routedAt>>

Janitor ==
    \/ JanitorTick \/ JanitorLock \/ JanitorUnlock \/ JanitorExit
    \/ \E k \in Keys : JanitorKeep(k) \/ JanitorEvict(k)
    \/ \E s \in Scrapers : JanitorJoin(s)

ManagerNext ==
    \/ \E k \in Keys : Register(k) \/ UnregisterDetach(k)
    \/ \E s \in Scrapers : UnregisterFinish(s) \/ Publish(s) \/ Exit(s)
    \/ Janitor
    \/ StopBegin \/ StopTake \/ StopReturn
    \/ \E s \in Scrapers : StopSignal(s) \/ StopJoin(s)
    \/ Advance

ManagerSpec == ManagerInit /\ [][ManagerNext]_managerVars

\* Every goroutine is scheduled: the scrapers, the sweep once it is under way and
\* Stop once it is called.  JanitorExit gets strong fairness because it competes
\* in a select with the sweep ticker, which is ready once every IdleTimeout/4.
\* Requests, Unregister calls, Stop calls and time are the environment's.
ManagerFairness ==
    /\ \A s \in Scrapers : /\ WF_managerVars(Exit(s))
                           /\ WF_managerVars(StopSignal(s))
                           /\ WF_managerVars(StopJoin(s))
                           /\ WF_managerVars(UnregisterFinish(s))
                           /\ WF_managerVars(JanitorJoin(s))
    /\ \A k \in Keys : WF_managerVars(JanitorKeep(k)) /\ WF_managerVars(JanitorEvict(k))
    /\ WF_managerVars(JanitorUnlock)
    /\ SF_managerVars(JanitorLock) /\ SF_managerVars(JanitorExit)
    /\ SF_managerVars(StopTake) /\ WF_managerVars(StopReturn)

ManagerFairSpec == ManagerSpec /\ ManagerFairness

-----------------------------------------------------------------------------
(* Properties.                                                             *)

ManagerTypeOK ==
    /\ clock \in Nat
    /\ mu \in {"free", "janitor"}
    /\ scrapers \in [Keys -> Gens \cup {NoGen}]
    /\ lastRouted \in [Keys -> Int] /\ routedAt \in [Keys -> Int]
    /\ stopped \in BOOLEAN
    /\ gor \in [Scrapers -> GorStates]
    /\ gauges \subseteq Keys
    /\ janitor \in [pc : {"select", "lock", "sweep", "join", "done"}, cutoff : Int,
                    todo : SUBSET Keys, stopping : SUBSET Scrapers]
    /\ stopper \in [pc : {"idle", "joinJanitor", "stopping", "returned"},
                    left : SUBSET Scrapers]
    /\ unreg \subseteq Scrapers

\* Eviction's purpose (kvguard.go:580-584): no live series outlasts the scraper
\* that publishes it.  Until the process stops, an exposed gauge belongs to a
\* scraper that is running, is still exiting, or whose gauges the goroutine that
\* stopped it is about to delete.
NoOrphanGauge ==
    ~stopped => \A k \in gauges : \E g \in Gens :
                    Live(k, g) \/ <<k, g>> \in janitor.stopping \cup unreg

\* A snapshot a request can look up is published by a running scraper, and that
\* scraper is its backend's only one: no interleaving of sweep, Unregister and
\* Stop leaves a dead scraper in the map, and sweep's lock (kvguard.go:608-619)
\* keeps an exiting scraper from running beside its replacement, unless somebody
\* called Unregister, which waits without the lock.
MapIsTrue ==
    \A k \in Keys :
        /\ scrapers[k] # NoGen => gor[<<k, scrapers[k]>>] = "running"
        /\ k \notin UnregisterKeys => Cardinality({g \in Gens : Live(k, g)}) <= 1

\* Register's stamp and sweep's re-check: the janitor stops only a scraper whose
\* backend nothing has routed to for IdleTimeout.
EvictionSparesRouted ==
    [][\A k \in Keys :
         janitor'.stopping # {} /\ janitor.stopping = {} /\ k \in janitor.todo \ janitor'.todo =>
            clock - routedAt[k] >= IdleTimeout]_managerVars

\* The stopped flag (kvguard.go:539-545): once Stop has returned no scraper
\* goroutine is left, although requests are still draining.
NoScraperAfterStop ==
    stopper.pc = "returned" => \A s \in Scrapers : s \notin unreg => gor[s] = "none"

\* Stop waits for the janitor, the janitor for a scraper, Stop for every scraper:
\* the waits form no cycle and shutdown completes.
StopReturns == stopped ~> stopper.pc = "returned"

\* Register is on the request path: a sweep never keeps the mutex forever.
RequestsAreNotBlocked == mu # "free" ~> mu = "free"
=============================================================================
