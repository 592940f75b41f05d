# Formal model of the GPU platform control plane

TLA+ modules for the parts of this repository that decide things concurrently:
the inference gateway, the operator's controllers and the laboratory runner. TLC checks them on small
instances; TLAPS proves most of what the runs check, and the refinement of the
ownership protocol, for every value of the parameters. `PROJECT.json` is the machine-readable index: components,
runs, mutants, the map from definitions to source lines, findings, hazards and
theorems. Paths below are relative to the repository root.

To check a run: `tlc -config MCKVGuard.cfg MCKVGuard`. To check a proof:
`tlapm GatewayProofs.tla`.

## 1. The system

A Kubernetes operator (`cmd/main.go`) and an inference gateway (`cmd/gateway`)
share five custom resources. Around them stand laboratory programs that measure
the platform (`cmd/queuelabrun`, `cmd/benchharness`, `internal/queuelab`,
`internal/bench`).

| Component | State | Operations | Hard part |
|---|---|---|---|
| KV-pressure guard, `internal/gateway/kvguard.go` | per backend: hysteresis machine, last success, published snapshot | poll, publish, admit, report | a poll overlaps requests and later polls; telemetry goes stale |
| Scraper registry, same file | map of scrapers, last-routed times, Prometheus series, `stopped` | register, unregister, idle sweep, stop | a mutex held while joining goroutines that handlers can recreate |
| Request path, `server.go`, `proxy.go`, `router.go` | per request: candidates, attempt writer, recorder | authenticate, limit, parse, route, admit, try backends, account | at most two attempts, hang-ups, aborted streams, one answer |
| Tenant rate limit, `ratelimit.go` | bucket per tenant | pick policy, find or build bucket, take a token | policies edited while handlers hold an older one |
| Static cap, `admission.go` | bucket per backend | admit, refuse, refuse for good | first requests race to build the bucket |
| Gateway process, `cmd/gateway/main.go` | readiness, listeners, shutdown goroutine | start, signal, drain, exit | main and the shutdown goroutine race |
| MLTrainingJob controller | object, Job, Workload, wait record, metrics | create/update Job, derive phase, record wait | three caches lag independently; Kueue owns `suspend` |
| WorkloadRun controller | run status with a trail of observations | look, record, judge, refuse | restarts, gaps, spec edits, truncated times |
| NodeHealth controller | taint on a Node, status, finalizer | quarantine, release, finalize | unversioned patch from a cached Node |
| GPUQuotaPolicy controller | ResourceQuota or ClusterQueue + LocalQueue, namespace label, status, finalizer | enforce, sync, switch, release, degrade | names shared between policies, unconditional deletes, no event when an obstacle goes |
| InferenceDeployment controller | Deployment, Service, status | sync, derive phase, degrade | ownership checks on caches; status lags generation |
| Admission webhooks, `internal/webhook/v1` | none of their own | admit or refuse Jobs, Pods, MLTrainingJobs | read policies and quotas while the controller switches them |
| Node ownership, `cmd/queuelabrun/ownership*.go` | journal, label, taint, residue and quarantine on the Node; the sentinel's window | acquire, verify, resolve, watch, stamp residue, release, audit; release-stale, force, clear | an answer lost while the patch lands later; a run that lives on after its lease was broken |
| Termination canary, `canary*.go` | two probe Pods, a qualification on the Node | create, delete, time, judge, stamp; consult | a verdict read off a poll, kept and used after the machine changed |
| Teardown, `teardown*.go`, `collector.go` fixtures | the run's namespace, flavor and queues | create under a stamp, recover, delete by UID, read back, name residue | a failed read is not an absence; names taken by others |
| Watch streams and collector, `watchstream.go`, `collector.go` | four streams, cache, pending events, ledger | forward, handle, attribute, wait for barriers, submit | streams lag and end independently; loss is silent |
| Run and record, `main.go`, `record*.go`, `qualify.go`, `outcome.go` | disposition, window, evidence, residue, record | a dozen returns, three deferred calls, build, write, read back, exit | the order of deferred calls, each of which may fail and amend |
| Queue lab library, `internal/queuelab` | reconstruction of a ledger from events | fold, pair, charge, judge cardinality | order of events across watches |
| Bench harness, `internal/bench`, `cmd/benchharness` | recorded samples | statistics, report | none that is concurrent |

How they interact:

* The gateway reads GPUQuotaPolicies, InferenceDeployments and the key Secret
  through informer caches. Handlers call the guard, the registry and the buckets
  directly; scrapers publish snapshots through an atomic pointer.
* The operator's controllers see each other only through API objects: each reads
  caches that lag, writes with or without a `resourceVersion`, and is woken by
  watches and `RequeueAfter` timers. Kueue, the Job controller, the garbage
  collector, kubelet and users write the same objects.
* The webhooks read what the GPUQuotaPolicy controller wrote (the namespace label,
  the ResourceQuota, the queues).
* A lab run reads the note a termination canary left on the node, holds the node by
  the ownership protocol for its whole duration, creates objects that the
  MLTrainingJob controller, Kueue and the Job controller act on, and observes them
  through watches; what it saw decides its record and its exit code.

What makes each part correct is stated with its runs in section 4. The hazards
these properties aim at are listed with their lines in `PROJECT.json`.

The roadmap documents also name an SQLite ledger and a `platformctl` binary; they
exist as designs only, there is no code to model.

## 2. Conventions of the models

**Caches.** Each cached object is a second variable (suffix `C`) beside the
server's, with a flag that says whether it is the server's version. A
synchronisation step copies the server's object; it may happen at any time, so
every lag is explored. An update based on a copy that is not the server's version
is refused (conflict). An unversioned patch or delete is applied to whatever is
there. Intermediate versions that a cache could show are covered by a
synchronisation that happens earlier.

**Atomicity.** A step ends where another actor's action could make a difference:
at a lock boundary, a blocking receive, a round trip, or between two API calls.
A cache read followed by one write is one step, because a cache that changes
between them is a cache that changes after the write, and a server that changes
between them is a server that changed before the read with the cache behind. A
reconcile that judges by a clock it read before a live call is two steps
(`WorkloadRun`): time passes between them.

**Bounds** are constants called `Max...` or `Horizon`, or the records of a scenario
(`left`, `budget`).
They limit what the environment does (edits, crashes, evictions, time), never
what the code under study may do.

**Mutants.** An operator whose comment calls it a mutant of the definition that follows
is a plausible bug. Substituting it for that
definition must break the property named in `PROJECT.json`. It takes no part in
the specification.

**Deadlock.** `CHECK_DEADLOCK FALSE` stands where the system may come to rest:
a request is answered, the process has exited, the world's budget is spent.
The KVGuard run checks deadlock: the clock, the last action, stays enabled.

## 3. Modules

| Module | Models | Its actions and the code |
|---|---|---|
| `KVGuard` | `kvguard.go`: `pressureState`, `backendScraper`, `kvAwareAdmitter` for one backend | `StartTick` and `ScrapeSucceeds`/`ScrapeFails` are the halves of `tick` around the HTTP round trip; `Admit` and `Observed` each load the snapshot; `Register`, `Evict`; `Advance` is the clock |
| `ScraperManager` | `kvguard.go`: `scraperManager` | `Register`, `UnregisterDetach`/`UnregisterFinish`, `Janitor...` (the sweep, which holds the mutex while it joins), `Stop...`, `Publish`, `Exit` |
| `GatewayRequest` | `server.go` `chatCompletions`, `admitCandidates`; `proxy.go` `tryBackends`, `attemptWriter`, `ErrorHandler` | one action per stage, per outcome of a round trip and per end of a stream; `Account` is the deferred accounting; `ClientCancels` at any point |
| `GatewayProcess` | `cmd/gateway/main.go` | `Signal`, `BeginShutdown`, `ShutdownApi`, `Drained`, `StopAdmitter`, `MainReturns`; `http.Server.Shutdown` is external |
| `TokenBucket` | external: `golang.org/x/time/rate` as the gateway uses it | pure operators; tokens in sixtieths so that rpm/60 per second is an integer |
| `RateLimit` | `ratelimit.go` | `ReadPolicy`, `BuildBucket`, `FindBucket`, `RefreshRate`, `RefreshBurst`, `Allow` |
| `StaticCap` | `admission.go` `staticCapAdmitter` | `AdmitUnmetered`, `RefuseForGood`, `LimiterFor`, `AllowN`; `Again` is the retrying client |
| `MLTrainingJob` | `mltrainingjob_controller.go`, `admit_to_running.go` | `Begin`, `SyncJob`, `SyncStatus` are one reconcile; Kueue and the Job controller are external actions |
| `WorkloadRun` | `workloadrun_controller.go` | `Begin` reads the cache and then the clock; `Reconcile` reads the target live, at some time from there to its write, and decides by the older clock; `CallFails`; `TimerFires`, `Restart`, `EditSpec` |
| `NodeHealth` | `nodehealth_controller.go`, `reconcile_helpers.go` | `ReconcileHealth` up to and including the patch, `WriteStatus`; `Crash` in between |
| `GPUQuotaPolicy` | `gpuquotapolicy_controller.go`, `kueue_quota.go` | `Begin`, then one step per object: the label (`Enforce`), the switch of mechanism, the writes (`SyncQuota` and the queues), the status; `CallFails` and `Crash` at every step; garbage collector and Kueue external |
| `InferenceDeployment` | `inferencedeployment_controller.go` | `Begin`, `SyncDeployment`, `CheckService`, `SyncService`, `WriteStatus` are one reconcile, each with the cache it reads then; `markDegraded` and its requeue; the Deployment controller, pods and garbage collector are external actions |
| `WorkerLease` | abstract: what the ownership protocol promises of one machine | `Take`, `Use`, `Stop`, `GiveBack`, `Break`, `Unbar`, `Replace` |
| `NodeOwnership` | `ownership.go`, `ownership_apply.go`, `ownership_window.go` | each Get and each conditional Patch is a step (`AcquireGet`/`AcquirePatch`, `ReleaseGet`/`ReleasePatch`, `StampGet`/`StampPatch`, `ForceGet`/`ForcePatch`, `ClearGet`/`ClearPatch`); `Resolve` is the loop after a lost answer; `ListBaseline`, `OpeningRead`, `ObserveDivergence`, `StreamLost`, `CloseWindow` are the sentinel; `Land` and `Vanish` decide what became of an unanswered patch; `Lease` maps its state to `WorkerLease`'s |
| `TerminationCanary` | `canary.go`, `canary_apply.go` | one action per call of `terminationCanary`; `readStopped` is a read of the watching loop, `judgeCanary` the verdict, `checkTerminationCanary` the consult; a version of kubelet and runtime is named by what it does |
| `Ledger` | `internal/queuelab`: `ledger.go`, `hold.go`, `protocol.go`, `schedule.go` | pure operators: folding, attempts, pairing, charges, outcome, cardinality |
| `Collector` | `collector.go`, `watchstream.go`, `internal/queuelab` `collector.go`, `joinchain.go`, `provenance.go` | `handle` is one event through classification, join and builder; `forwardDrops`, `BreakStream`, `endStream`, `wait` the streams; `waitBarrier`, `SubmitRow`, `submitObserved` the schedule; Kueue, Job controller and kubelet external |
| `Teardown` | `teardown.go`, `teardown_apply.go`, the fixtures of `collector.go` | `CreateStored`, `CreatedUnstamped`, `CreateErrs`, `ExistsForeign`; `recoverTargets`, `settleDelete`, `settleObserve`, `settleDecide` per phase |
| `RunRecord` | `record.go`, `record_write.go`, `qualify.go`, `outcome.go` | pure operators: qualification, the gates of a verdict, the record, its decoding, the exit code |
| `LabRun` | `main.go` `run` and what follows it; composes `Collector`, `Teardown`, `RunRecord` and `TerminationCanary` | one action per phase of `run`, each with its failures; `tearDownBeforeRelease`, `auditedRelease` and `report` are what the deferred calls and `main` do |
| `GatewayProofs` | theorems, section 5 | about `KVGuard`, `RateLimit`, `StaticCap`, `GatewayProcess`, `GatewayRequest` |
| `MLTrainingJobProofs` | theorems | about `MLTrainingJob` |
| `HealthProofs` | theorems | about `WorkloadRun`, `NodeHealth` and `ScraperManager` |
| `GPUQuotaPolicyProofs` | theorems | about `GPUQuotaPolicy` |
| `InferenceDeploymentProofs` | theorems | about `InferenceDeployment` |
| `NodeOwnershipProofs` | theorems | about `NodeOwnership`, and that it implements `WorkerLease` |
| `CollectorProofs` | theorems | about the collector and its ledger in `LabRun` (`Collector`, `Ledger`) |
| `LabProofs` | theorems | extends `CollectorProofs`; about `LabRun` with `Teardown`, `RunRecord` and `TerminationCanary` |
| `MC*` | | values of the constants for TLC |

Each module's header says what its steps are. `map` in `PROJECT.json` gives the
lines every definition stands for.

## 4. Runs

A *pass* run explores every state of its instance. A *violation* run asks whether
one sentence of a comment or a document holds of the code; TLC shows how it does
not (section 6).

The controllers' instances are unions of *scenarios*: `Init` picks one record of
budgets (how many edits, evictions, restarts, deletions, ... the environment may
still cause), each pairing disturbances that interfere with one another. All of
them at once would exceed what TLC explores in minutes; the scenarios are chosen
so that every action fires and every pair of disturbances that meet in the same
code path meets in one of them.

### Gateway

* `kvguard` (KVGuard). Engaging takes two adjacent fresh readings over the bar
  (`EngageNeedsTwoFresh`), releasing the full sustained streak under the low bar
  (`ReleaseSustained`); no rejection rests on telemetry older than the staleness bound
  plus a poll and two scrapes (`RejectOnlyOnRecentTelemetry`). A scrape may last twice
  the poll interval, so that the next tick is late, the telemetry goes stale between two
  polls that both succeed, and a streak is interrupted by time alone. Eight clock units
  hold an engage/release cycle and the start of a second one; six is the oldest age that
  a rejection may have there, and `PublishEverFresh` exceeds it. The three samples lie
  under both release thresholds, over one of them by the queue length, and over the
  engage threshold by the usage; the theorems cover every sample.
* `scraper_manager` (ScraperManager, with fairness). The snapshot a handler finds
  belongs to the one live scraper of its key (`MapIsTrue`), no scraper after `Stop`
  (`NoScraperAfterStop`), `Stop` returns and handlers are not blocked for ever
  (`StopReturns`, `RequestsAreNotBlocked`). Two keys and two generations of each are
  enough for a key to be evicted and registered again while the other is swept; one of
  the keys may be unregistered, which nothing in production does.
* `gateway_parts` (RateLimit, StaticCap, GatewayProcess, GatewayRequest, with
  fairness). Four parts that share no state, so a behaviour moves one of them and
  leaves the others at rest:
  * tenants: an edited limit never refills a spent bucket (`NoFreeBurst`); two
    handlers, two policies created in the same second, two edits;
  * backends: what is admitted never exceeds burst plus refill (`CapHolds`), and a
    client told to retry is admitted once its competitors fall silent (`RetryPays`); two
    clients compete, one is below the threshold, one premium, one larger than the burst;
  * the process: the guard outlives the requests that use it
    (`GuardOutlivesRequests`), a signal ends the process (`SignalEndsProcess`); two
    requests, so that one can be stuck while another ends;
  * one request: it reaches at most one backend's model (`AtMostOneBackend`), the client
    hears one writer (`OneVoice`), a recorded success happened
    (`RecordedSuccessIsReal`); three backends, one more than `maxBackendAttempts`; the
    statuses stand for success, an answer that is passed on, and an upstream error.
* `gateway_drain`: a violation, section 6.

### Operator

* `mltrainingjob` (MLTrainingJob). A sample of the wait has its status record
  (`SeriesHasRecord`), and whenever nothing is queued or undelivered the status is the
  one the Job calls for (`SettledIsRight`). One scenario has an eviction and a
  re-admission, a pod failure, a restart of the operator, skewed clocks and missing
  stamps; the other a foreign Job, a spec edit and a second incarnation of the object.
* `workloadrun` (WorkloadRun). No verdict spans an absence of the controller: every look
  behind it belongs to a reconcile that began at most `maxGap` after the look before
  really was (`NoVerdictAcrossHole`; how late the look itself then is, the code does not
  bound: section 6, `VerdictIsWatched`). Each verdict
  judges the declared spec (`VerdictJudgesDeclaredSpec`) and can be read off the trail
  (`VerdictIsInTheTrail`); a run without a verdict always has a wake-up ahead of it
  (`NoRunForgotten`). Time is in half seconds, so that truncation to seconds is visible;
  seven of them hold a window of two or three seconds and a gap longer than allowed; any
  part of them may pass inside a reconcile, whose calls may fail; one edit and one restart.
* `nodehealth` (NodeHealth, with fairness). A status that says Quarantine was preceded
  by the taint (`QuarantineWasEnforced`); once the cluster is quiet taint and statuses
  follow the node's readiness (`QuarantineConverges`); deletion completes
  (`DeletionCompletes`). Two NodeHealths of one Node; a node that flips twice beside
  another writer of taints, a restart, two deletions, a Node that vanishes.
* `quota` (GPUQuotaPolicy). Whenever nothing is queued, pending or undelivered, the one
  ceiling the spec asks for exists and the status says so (`SettledIsRight`); a ceiling
  lies in a guarded namespace unless the namespace has been deleted meanwhile
  (`CeilingIsGuarded`). One policy under foreign objects, drift, Kueue's reports,
  failures, a restart, edits, deletion and re-creation, a namespace that goes and
  returns; two policies that share the names of a tenant's queues. The tenant is not
  edited (section 6, `CountedOnce`).
* `inferencedeployment` (InferenceDeployment). Whenever nothing is queued, pending or
  undelivered, Deployment and Service are the object's own and follow its spec, the
  queue label is there exactly when a policy grants it, and the status is the one the
  Deployment's status calls for (`SettledIsRight`); Ready with replicas means that the
  pods have converged on that very spec (`ReadyWasServed`), not that counts of an
  earlier generation were read. Zero or one replica, so that a rollout has an old pod,
  a surge and a drain; two images; a policy that comes and goes; objects of others
  under the same name, objects removed, a Deployment scaled by somebody else, a pod
  that stops being ready, a rollout past its deadline, deletion and re-creation before
  the garbage collector has run, a failing call and a restart at every step.

`SettledIsRight` and `NoRunForgotten` are the safety half of convergence: they exclude
a lost wake-up, not an endless loop.

### Laboratory

* `nodeownership` (NodeOwnership). Two runs that a user gave the same run id, so that
  label and taint cannot tell them apart, and an operator with two commands. A run that
  ends clean held the node all the time (`CleanMeansExclusive`); a run that reports
  nothing to undo left nothing, also through a patch that landed between its re-reads or
  while they failed (`NothingLeftUnnamed`; the one exception is a patch still on its way
  when the resolve window closed, which the run does not wait for: section 6,
  `RefusedLeavesNothing`); a residue record stands only on a node that its transaction
  holds or that was taken by force (`ResidueExplainsHold`); and the protocol implements
  `WorkerLease` (`ImplementsLease`, a refinement: the journal is the holder, the
  quarantine the bar, the runs between verification and the end of their window the
  users). Two rounds of every retry loop, one edit by somebody else (a marker, the
  journal, the node's replacement), a crash of a run at any step.
* `labrun` (LabRun). One run after at most one canary.
  * `StandsOnContrast`: the note a run consults tells the truth of the machine as it is
    then, but for the stall of `canary_stall`.
  * `LedgerHasNoHole`: an accepted ledger holds, for each object and up to the horizon,
    what happened to it, in order and once.
  * `ChargesAreTrue`: a preemption is charged to the attempt it stopped, whatever the
    order in which the watches delivered; `ChargesWithinOccupancy`: charges lie within the
    occupancy and are not negative.
  * `ForeignUntouched`: nothing of another user is deleted, also when it took the name
    between a reading and the delete; `ReleasedMeansEmpty`: a worker is given back only
    over a cluster without the run's stamp, and what is left is named.
  * `RecordReadsBack`: the record a run writes is one the decoder accepts;
    `SuccessIsWhole`: exit 0 means qualified, watched throughout, nothing left, worker
    back, measurement replayed.

  Bounds: two rows (victim and owner), one free device, two Pods per row; one stream
  lags at a time, by one event in arm A-ignore and by two in N-ref (enough for a
  completion to be seen before the Ready it follows, and for a stop to be seen past a
  retry's start); one event may be handled after the deadline; one fault (broken stream,
  stray object, other eviction, failed submission, interruption, divergence); one foreign
  name, one failing API call in set-up and teardown. The Job controllers act before
  anything else moves: that their work is seen late is the stream's lag. The collector's
  state is dropped once the ledger is judged, and the canary's once it was consulted: no
  later step reads them. The canary: time in units of ten seconds, a default grace of two
  or three of them, one change (upgrade, roll-out, replaced node, stripped finalizer, lost
  lease), at most one unit between the deletes; the kubelet acts within the unit; a probe
  that fails by itself exits with 1 (it is not killed for memory); a note that cannot be
  decoded counts as absent; the machine does not change after the run has begun. Two
  version changes within one reading, there and back, are not covered.
* `canary_stall` (TerminationCanary): a violation, section 6.

### Stated, true, and not in a cfg

These hold as well (add them to the cfg to check them); they are left out because
another property of the run says more, or because they are shallow. They are theorems
(section 5): the `TypeOK` of each module, `ReleaseIsPrompt` (MCKVGuard),
`TerminalIsTerminal` (MCWorkloadRun), `NoOrphanGauge` and `EvictionSparesRouted`
(MCScraperManager), `FallbackIsRescue`, `OneErrorPerDisconnect` and
`ReadinessGoesFirst` (MCGatewayParts), `WindowIsWrittenOnce` and `SuspendIsKueues`
(MCMLTrainingJob), `Exclusive` (MCNodeOwnership), `OnePolicyGoverns` (MCGatewayParts).

### Fairness

* Go's scheduler runs every goroutine that can run: weak fairness of each step of a
  handler, scraper, janitor, `Stop` and shutdown. `sync.Mutex` hands the lock over
  after a millisecond of waiting (starvation mode), and a `select` picks among ready
  cases at random: strong fairness of `JanitorLock`, `StopTake`, `JanitorExit`.
  Clients and upstreams owe nothing, but for the refused client of StaticCap, which
  retries: `RetryPays` is about such a client. Time passes there. `PartsSpec` of
  MCGatewayParts is the fairness of `CapFairSpec` and `ProcFairSpec` for the part that
  moves.
* The work queue hands names out in the order they came in: weak fairness of the
  worker, strong fairness of beginning any one name where there are several.
  A retried item returns (rate-limited, without a maximum of attempts).
* Watches deliver: weak fairness of each synchronisation. `SyncHealth` in NodeHealth
  is strong because in that model it waits for the worker, which the real informer
  does not.
* NodeOwnership, TerminationCanary and LabRun state safety only: their loops are
  bounded by attempts and budgets, and what ends them is a guard of the model.
* Kueue, users, kubelet and crashes are unfair and bounded: liveness says what
  happens once they stop.

## 5. Proofs

Proved by TLAPS for every value of the constants that the named assumptions allow: any
number of requests, backends, tenants, policies, runs and machines, any budget of edits
and failures. 34 of the 40 properties that the passing runs check are theorems; the
remaining six are liveness properties, named at the end of this section. Each proof finds an inductive
invariant, which TLC checked on the run's instance before it was proved; one lemma per
action says that the action keeps it.

`GatewayProofs`

* The bucket of a tenant (`RateLimitAssumption`). `EditsGrantNothing`: `LimitInv` says
  what a handler that is between two of its steps knows (`HandlersOK`), and that what the
  bucket holds and what was admitted, less what time gave back, never exceed the burst it
  was built with (`BudgetOK`). The refreshes, which set rate and burst under a handler's
  feet, keep that sum. `OnePolicyIsChosen`: of the policies that exist, those created
  first have a first name (`OldestExists`), so exactly one governs, on ties too.
* The bucket of a backend (`StaticCapAssumption`). `CapIsACap`: `AccountOK` is the same
  account for one limiter that several first requests race to build: only one is kept.
* The process. `GuardOutlives` and `ReadinessFirst`: `ShutdownOK` orders the steps of the
  shutdown goroutine and says what each has left behind.
* One request (`StatusAssumption`, `BackendsAssumption`). `RequestTypeCorrect`,
  `DeliveredAtMostOnce`, `OneVoiceHolds`, `SuccessesAreReal`, `FallbacksAreRescues`,
  `DisconnectCostsOne`. `ReqInv` relates the stage to what has been recorded
  (`MetricsOK`), to the candidates left and the attempts made (`RouteOK`), to the writer
  the client hears (`StageOK`), to the outcome (`OutcomeOK`) and to a hang-up
  (`DisconnectOK`): the second attempt begins only where the first reached no model.
* The guard (`ThresholdAssumption`, `HysteresisAssumption`, `DurationAssumption`).
  * `TypeCorrect`. The invariant adds that a clock reading is set while a scrape is
    under way (`TimesSet`).
  * `RejectionsAreRecent`. A rejection's age depends on when the snapshot was published
    and on when the next poll is due; `AgeInv` bounds the age in each phase of the
    scraper (`NothingYet`, `IdleAge`, `ScrapeAge`).
  * `EngagementNeedsTwoFresh`. `CountInv` ties the counter to the last sample.
  * `ReleasesPromptly`, `ReleasesOnlySustained`. `StreakInv` ties `underSince` to the
    history of samples: every sample since then is under the low bar and one was taken
    then. `TicksAdvance` orders the readings.

`MLTrainingJobProofs` (`BudgetsAssumption`): `TypeCorrect`, `SeriesAgreesWithRecord`,
`SettledStatusIsRight`, `WindowWrittenOnce`, `SuspendStaysKueues`. `CopiesOK`: a copy
called fresh is the server's object. `FinalizerOK`: only a finalizer keeps a deleted
object. `HeldOK` and `SyncedOK`: between the steps of a reconcile, the object and the
Job in hand are the server's, or another reconcile is to come. `RestOK`: at rest the
status shows the Job, or an event that will wake the controller is undelivered (`News`). `SettledIsRight` is `RestOK` where nothing is on its
way.

`HealthProofs`

* WorkloadRun (`SpecsAssumption`, `StatesAssumption`, `BoundsAssumption`,
  `NoRunAssumption`).
  * `TypeCorrect`, with `CacheInv` (a copy called fresh, in the cache or in the hand of a
    reconcile, is the server's object) and `BegunInv` (an observing run has a start, which
    is not after the clock that a reconcile on it has read), without which a step from a
    copy cannot be related to the stored run.
  * `TerminalStays`: only a fresh copy is written, and a terminal copy is left alone.
  * `VerdictsAreCovered` (`HoleInv`: no hole behind an observing run, and the stored
    time of the last look is not later than the look, so that a gap measured from it is
    not too short), `VerdictsAreDeclared`
    (`DeclaredInv`: the generation seen at the start names the declared spec),
    `VerdictsAreInTheTrail` (`TrailInv`: `observedUnhealthy` and `recoveredAt` are what
    the trail says, entry by entry).
  * `RunsAreNotForgotten`: every way a reconcile ends short of a verdict leaves a queued
    retry, a timer or an undelivered event (`UpdatePends`), and the ways that leave none
    end the run (`EndingsAreTerminal`).
* NodeHealth (`BudgetsAssumption`): `HealthTypeCorrect`, `QuarantinesAreEnforced`. The
  history of the taint is tied to the Node and to its cached copy (`NodeHonest`), to what
  the worker is about to write (`WorkHonest`) and to what is written (`StatusHonest`): a
  status follows a patch that succeeded or a copy that already carried the taint.
* The registry of scrapers (`ManagerAssumption`): `ManagerTypeCorrect`, `MapStaysTrue`,
  `StopLeavesNothing`, `GaugesHaveOwners`, `EvictionIsLate`. Who holds the mutex is read
  off the program counters (`LocksOK`); every live scraper belongs to exactly one of the
  map, the janitor, `Unregister` and `Stop`, each of which joins what it owns
  (`OwnedOK`); the stamp the sweep compares is the last time the key was routed, and its
  cutoff lies an idle timeout back (`RoutesOK`). That ownership is what makes
  `MapIsTrue` inductive: a scraper that a sweep took off the map cannot publish over its
  successor, because nobody registers before the sweep has joined it.

`GPUQuotaPolicyProofs` (`ScenariosAssumption`, `OtherAssumption`, `AbsentAssumption`):
`TypeCorrect`, `CeilingsAreGuarded`, `SettledStatusIsRight`.

* The guards. A namespace is `Guarded` if it bears
  the label or was deleted once. `OwnersOK`: the namespace of every ceiling a policy owns,
  on the server and in the cache, is guarded; `StepOK`: so is the one of a reconcile that
  is past `Enforce`; `NsOK`: the cache shows no label that was never there; `RecOK`: a
  reconcile under way has a policy and the copy it read.
* Settling (`SettlingInv`), for any number of policies and any mixture of disturbances
  but one. `UidsOK` and `TenantsOK`: no copy, however old, and no object bears a uid still
  to be given out, and a copy of the same uid names the same tenant; so `PlacesOK`, what a
  policy owns bears one of its three names. `CopiesOK` and `WakesOK`: a copy called fresh
  is the server's object, and a change of an object that a policy owns, or owned, has an
  event for that policy on its way. `HeldOK`: a reconcile has the policy as it is, or is not
  the last one. `SyncedOK`: what it has been through is as asked, or an event is to come.
  `RestOK`: at rest a policy is right or `Pending`.
  Each step is reduced to what one policy sees of it: it will hear of a change, or nothing
  that concerns it has changed (`Noticed`).
  **Hypothesis: no scenario edits a tenant.** With such an edit the theorem is false: the
  queues of the former tenant are stranded (`CountedOnce`, section 6).

`InferenceDeploymentProofs` (`ConstantsAssumption`, `AbsentAssumption`): `TypeCorrect`,
`ReadyIsServed`, `SettledStatusIsRight`.

* Ready. A Deployment is honest if its spec was served, should its status be of the newest
  generation and count every replica as updated and ready (`Honest`, `DepOK`, for the
  server's object and the cached one); `StepOK` carries that through the steps of a
  reconcile, `InfdOK` into the status.
* Settling (`SettlingInv`), for every scenario. `NewsOK`: a cached object is the server's, or
  an event is on its way, one that wakes the controller if either has a controller.
  `HeldOK`: a reconcile has the InferenceDeployment as it is, or another is to come.
  `LabelOK`, `DepStepOK`, `SvcStepOK`: the label, the Deployment and the Service a reconcile
  has been through are as asked, and the status in hand is the Deployment's, or an event is
  to come. `RestOK`: at rest all is right or `Pending`.

`NodeOwnershipProofs` (`OwnershipAssumption`, `AbsentAssumption`): `TypeCorrect`,
`OneRunPerMachine`, `CleanRunsWereAlone`, `RefusedRunsLeaveNothing`,
`ResidueIsExplained`, and `LeaseImplemented`: `NodeOwnership` implements `WorkerLease`.
The heart is `FreshOK` with `FlightOK`: who holds the current resource version decided
on the Node as it is, and so did every patch in flight that can still be applied,
however late it lands. `HoldOK` says that a run which relies on the machine has its
journal there or was barred by a quarantine that names it (or cannot tell whom it names);
`AbsentOK` that a run which has not patched has none, nor one that was refused, unless its
patch was then still in flight (`late`); `TakenOK` that the
journal of a run it was taken from never returns legible; `ClearOK` that nobody clears a
quarantine a run still lives through. Refinement is proved action by action: an applied
patch maps to `Take`, `GiveBack`, `Break`, `Unbar` or a stutter, the verification to
`Use`, the end of the window to `Stop`.

`CollectorProofs` (`ScheduleAssumption`)

* The ledger: `LedgersHaveNoHole`, for any schedule, number of Pods, lag and length of the
  run. What happened is a sequence, and every event in it has a rank among those of its
  object (`Nth`). `CInv` follows each rank on its way through the object's stream, `pending`
  and the ledger. `LedgerOK`: what was recorded in the window is what happened, rank by
  rank. `RankOK`: an event on its way carries its rank, and none overtakes an earlier one of
  its object. `PenOK` and `QueOK`: what is pending, and what an open stream still holds,
  continues what is recorded: each rank between is on its way before it (`Waits`), unless an
  event before it condemns the ledger (`CleanTo`). `AllOK`: the last event of each object
  that was told is recorded or on its way (`Told`: every object but a Workload evicted
  otherwise than by the study, which the history does not hold). `Fresh`: two consecutive
  events of an object differ in type, so the builder drops as a repetition only what is
  one. `AtOK` and `Past`: instants grow. The invariant is over ranks, not positions: the
  streams interleave at will, and what two of them deliver is not ordered.
* Sums and the builder's loop are recursive functions of the position (`Total`, `Built`).
  What they come to is proved without an induction schema: a position at which the claim
  fails is a natural number, the least such one exists (`NatLeast`, `NatReaches`), and the
  step to it from the one before is a contradiction.

`LabProofs` (`CountsAssumption`, `ScheduleAssumption`, `SkewAssumption`)

* The run: `RunTypeCorrect`, `ForeignStaysUntouched`, `ReleasedWorkersAreEmpty`,
  `RecordsReadBack`, `SuccessesAreWhole`. `SweepOK`: the sweep runs only while the run tears
  down. `StampOK`: what teardown has read as settled bears the run's stamp no longer, and
  what is left with the stamp is named. `PhaseOK`: what each phase of `run` has set.
  `FineOK`: what holds while no failure has been noted, so that exit 0 can rest on it.
  `StreamsOK`: a condemned stream leaves the collector invalid. `ExitOK`: what record and
  exit code were computed from.
* The canary: `ContrastHolds`. `KeysOK`: a key is of this machine or an earlier one, and a
  note that fits and fails no claim tells the truth. `StageOK` bounds the clock in each
  step, `ProbesOK` the times of each probe. `MatchOK`: while the key in hand fits, the
  codes (`CodesOK`) and the times (`HastyOK`) are those the machine's own version makes.
  **Hypothesis `MaxChanges <= 1`**: with two changes the theorem is false, as TLC shows:
  a version that is upgraded and put back before the consult (A, B, A) fits the key
  again, though the probes ran on B.
* The fold: `ChargesStayWithin`. The attempts in their order of start are a bijection
  between `1..n` and the Pods seen Ready (`attemptsInStartOrder`: an attempt is the n-th if
  n - 1 started before it), so that each is booked at most once; then each book, and the sum
  of the books, lies within what was held.
* The pairing: `ChargesAreRight`. `CInv` orders the events of one Pod; `DInv` orders the
  Pods of a row. `Sourced`: what is recorded happened, past the deadline too. `PodEvents`
  and `PodStates`: a Pod becomes Ready and then stops, once each. `Trails`: once a Pod has
  an event, each event of a later Pod of the row comes after the first of the earlier one,
  in the ledger by instant (`LedgerTrails`), in what is pending (`PenTrails`), in
  what the open Pod stream holds (`QueTrails`). It is asked only while the ledger is
  valid and nothing before the event condemns it, as in `CInv`. So the row's
  first attempt in start order is that of its first Pod (`FirstAttemptIs`), the one
  preemption that `AssertCardinality` allows is paired with it, and the recorded stop is the
  only one the Pod had (`EndIs`).

Assumptions constrain constants only by what the code or the model's units fix: counts
are naturals, model values that mean "none" differ from the values they are told apart
from, the low threshold is not above the high one, HTTP codes lie in 200..599.

**Only model-checked**

* All liveness (`StopReturns`, `RequestsAreNotBlocked`, `RetryPays`,
  `SignalEndsProcess`, `QuarantineConverges`, `DeletionCompletes`): fairness and
  `ENABLED` are out of the prover's reach.
* The violations of section 6.

## 6. Where comments and code disagree

Two runs show a disagreement:

| Run | The sentence | What the code does |
|---|---|---|
| `gateway_drain` | `cmd/gateway/main.go:174` stop accepting, drain, stop | `main` returns as soon as the listener closes, so requests are cut before the deadline |
| `canary_stall` | `cmd/queuelabrun/canary.go:117` a stall cannot manufacture a survivor, and the exit code closes the case of one that reaches only one read | the loop no longer reads a probe it saw stop, so a stall that begins after the honouring probe was read inflates the ignoring probe's reading alone; a runtime that kills soon after the signal leaves 137 all the same, and the node is qualified |

The modules state further sentences that the code does not keep. No run is spent on
them; adding the definition to the cfg named makes TLC print a counterexample within
seconds.

| Definition, cfg | The sentence | What the code does |
|---|---|---|
| `RejectWithinMaxStaleness`, `MCKVGuard` | `kvguard.go:848` telemetry past `MaxStaleness` is bypassed | freshness is decided at publication and used until the next one |
| `ObservedIsDecided`, `MCKVGuard` | `kvguard.go:819` the numbers recorded are those decided on | the snapshot is loaded twice |
| `ClientSeesFailure`, `MCGatewayParts` | `server.go:276` the client gets 502/504 | with a spare listed and a body that cannot be replayed the error is suppressed and nothing follows: an empty 200 |
| `ReasonOnEveryDecision`, `MCGatewayParts` | `server.go:453` every decision has a reason | an admission by the kv-aware mode has none |
| `EveryRequestCounted`, `MCGatewayParts` | `metrics.go:53` handled requests are counted | an aborted stream unwinds past the counter |
| `RefusesToAdopt`, `MCMLTrainingJob` | `mltrainingjob_controller.go:95` refusing to adopt | check and update read the cache separately |
| `WindowHoldsQuota`, `MCMLTrainingJob` | `admit_to_running.go:28` wait between having quota and using it | the stamp survives an eviction |
| `RefusedStampStaysUnused`, `MCMLTrainingJob` | `admit_to_running.go:50` never a duration nobody watched | a pod failure re-opens the record |
| `FailedCountsEntries`, `MCMLTrainingJob` | `metrics.go:91` counts entries into Failed | counts any change of a Failed status |
| `VerdictIsOfTheWindow`, `MCWorkloadRun` | `workloadrun_types.go:101` nothing about after the window | the closing look may lie after it |
| `VerdictIsWatched`, `MCWorkloadRun` | `workloadrun_controller.go:89` `maxGap` is how long the trail may go unobserved before it stops being one | the gap is judged by a clock read (line 121) before the target is read (line 133): a slow read closes the run over a longer one |
| `OtherTaintsUntouched`, `MCNodeHealth` | `reconcile_helpers.go:154` other taints are left untouched | the whole list is patched from a cached copy |
| `DeletionRemovesTaint`, `MCNodeHealth` | `nodehealth_controller.go:51` removed when the NodeHealth is deleted | not if the cached Node does not show it yet |
| `AdmittingIsCurrent`, `MCGPUQuotaPolicy` | `gpuquotapolicy_controller.go:340` never silently stays True | the degraded path skips the condition |
| `SyncedIsGuarded`, `MCGPUQuotaPolicy` | `gpuquotapolicy_controller.go:160` no Synced with the bypass open | a re-created namespace is taken for labelled from the cache, and nothing watches namespaces |
| `DeletesOnlyOwn`, `MCGPUQuotaPolicy` with `deletes` added to the scenario of foreign objects | `kueue_quota.go:194` only what the policy controls is removed | the check reads a cache, the Delete has no UID |
| `CountedOnce`, `MCGPUQuotaPolicy` with two `Tenants` and `Scenarios <- TenantScenarios` | `docs/02_CONTROL_PLANE_API.md:30` the same GPUs are never counted by both mechanisms | editing `tenant` strands the old ClusterQueue; switching `trainingQuota` off puts a ResourceQuota beside it |
| `ZeroIsObserved`, `MCInferenceDeployment` | `inferencedeployment_controller.go:249` a scale-down to 0 that the Deployment has not observed is not Ready | with no pod in the stale status it is |
| `RefusedLeavesNothing`, `MCNodeOwnership` | `ownership_apply.go:325` the node is free or foreign and the run refuses with nothing of ours to undo; line 399 "did not land" | the window is a fixed ten seconds of reads that found the node free; a patch that is still on its way lands after it |
| `AdoptsNothing`, `MCInferenceDeployment` | `inferencedeployment_controller.go:79` refusing to adopt | check and update read the cache separately |

Seen while modelling the laboratory, and described here only:

* `internal/queuelab/schedule.go:30` defines the barrier as admitted and Ready;
  `barrierHolds` asks for phase Running, which the operator derives from the Job's
  active count (`mltrainingjob_controller.go:249`), so a row may be evicted before its
  Pod was Ready. `ChargesAreTrue` is about Pods that had been Ready.
* `internal/queuelab/provenance.go:133` speaks of a backoffLimit 0 "set by the runner";
  nothing sets it. A Pod that fails by itself may be replaced in the model.
* `cmd/queuelabrun/record.go:1538` says that no build writes a window without an
  observed version; the emergency release of a run whose sentinel never opened writes one
  (`main.go:980`), and such a record does not read back. `RecordReadsBack` leaves it out.
* An object that leads to no row stops all attribution for good (`collector.flush`);
  the run then ends refused.
* `ledger.go:737` credits a completion to the only attempt seen; when the Pod stream lags
  by a whole second attempt, that attempt is the wrong one.
* A release that succeeds while its closing read fails exits 0 with a record that is not
  admissible.
* After cancellation `forward` may drop an event and deliver a later one;
  `LedgerHasNoHole` is about what happened up to the horizon.
* Two runs whose operator image cannot be told match each other's canary by design.

## 7. Not modelled

* **Authentication and route lookup**: their outcomes are inputs of the request path.
* **Text**: report rendering, log lines, JSON layout, flag parsing, manifests.
* **Floating-point statistics** of the bench harness: arithmetic on samples, out of
  TLC's reach and without concurrency.
* **Kueue's finalizer**: a ClusterQueue that terminates while workloads hold it is not
  told apart from a deleted one.
* **A Deployment or Service of the same name with another controller, or a Deployment
  with another selector**: taking it over is refused with an error, which
  InferenceDeployment's `CallFails` covers only once.
* **The choice among several Workloads of one Job** (`getWorkloadForJob`).
* **Admission webhooks.** A guard reads the policies and then the ResourceQuota without
  a cache and answers one request. What a controller writes between the answer and the
  store's own write (the List followed by a Get in `quota_mode.go`, the existence of the
  Job in `mltrainingjob_webhook.go`) is a race the code accepts: a property strong enough
  to be of interest is broken by it, and one that is not restates the read.
* **Lab runner**: the device observer and `-require-device`, the device preflight,
  `-inspect-worker` (it prints), `compare.go` (arithmetic on finished records), an
  AlreadyExists under the run's own stamp, and a timed-out Create that lands after
  teardown has read the name.
* **Test equipment**: load generator, simulator, thin command-line clients.

## 8. Plan

1. The choice among several Workloads of one Job in `MLTrainingJob`.
2. The device observation of a lab run and the gate it feeds.
