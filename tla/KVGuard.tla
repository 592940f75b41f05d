------------------------------ MODULE KVGuard ------------------------------
(***************************************************************************)
(* The kv-aware admission guard of the gateway for ONE backend             *)
(* (internal/gateway/kvguard.go): the pressure state machine, the scrape    *)
(* loop that drives it, the snapshot the loop publishes, and the requests   *)
(* that read the snapshot concurrently.                                     *)
(*                                                                         *)
(* Time is explicit.  tick reads the clock BEFORE the HTTP round trip and   *)
(* publishes after it, so a scrape is two steps and the clock may move      *)
(* between them.  The zero time.Time is Zero, before every clock reading.   *)
(***************************************************************************)
EXTENDS Integers

CONSTANTS
    EngageUsage, ReleaseUsage, WaitingThresh,   \* pressureConfig thresholds
    ReleaseSustain, ScrapeInterval, MaxStaleness, HTTPTimeout,
    Samples,             \* the readings a scrape can return
    MaxClock             \* bound: the clock stops here

ASSUME ThresholdAssumption ==
    /\ EngageUsage \in Int /\ ReleaseUsage \in Int
    /\ WaitingThresh \in Nat
    /\ Samples \subseteq [usage : Int, waiting : Nat]

\* What pressureConfig is written for; no flag check enforces it.
ASSUME HysteresisAssumption == ReleaseUsage <= EngageUsage

ASSUME DurationAssumption ==
    /\ ReleaseSustain \in Nat /\ MaxStaleness \in Nat /\ HTTPTimeout \in Nat
    /\ ScrapeInterval \in Nat \ {0}
    /\ MaxClock \in Nat

VARIABLES
    clock,
    phase,          \* where the scraper's goroutine is
    tickNow,        \* tick's clock reading, taken before the scrape
    due,            \* when the ticker fires next; Zero before NewTicker
    engaged, overThresholdCount, underSince,    \* pressureState
    everSucceeded, lastSuccessAt, lastSample,   \* backendScraper
    snap,           \* the published backendSnapshot
    samples,        \* history: every successful sample of this scraper
    req             \* the request being decided

pressureVars == <<engaged, overThresholdCount, underSince>>
scrapeVars   == <<everSucceeded, lastSuccessAt, lastSample, samples>>
vars == <<clock, phase, tickNow, due, pressureVars, scrapeVars, snap, req>>

-----------------------------------------------------------------------------
Zero == -1
Time == Nat \cup {Zero}

\* The zero kvSample, which a scraper holds before its first success.
NoSample == [usage |-> 0, waiting |-> 0]

\* A successful sample together with the clock reading observe was given.
Reading  == [at : Nat, sample : Samples]

\* backendSnapshot; ZeroSnapshot is what newBackendScraper stores.
Snapshot == [engaged : BOOLEAN, fresh : BOOLEAN, sample : Samples \cup {NoSample}]
ZeroSnapshot == [engaged |-> FALSE, fresh |-> FALSE, sample |-> NoSample]

Tiers    == {"premium", "standard"}
Lengths  == {"short", "long"}      \* EstInputTokens < or >= longThreshold
Phases   == {"off", "new", "scraping", "idle"}

\* A request: "none" before one arrives, "decided" between Admit and Observed,
\* "reported" once its header carries what Observed read.  snap is what Admit
\* loaded, age how old its telemetry was when it refused.
RequestType == [at : {"none", "decided", "reported"}, admit : BOOLEAN, age : Int,
                snap : Snapshot, observedSame : BOOLEAN]
NoRequest == [at |-> "none", admit |-> TRUE, age |-> 0, snap |-> ZeroSnapshot,
              observedSame |-> TRUE]

-----------------------------------------------------------------------------
(* The pressure state machine: pressureState.observe and resetConsecutive.  *)

\* The engage condition: either threshold exceeded.
Over(s) == s.usage > EngageUsage \/ s.waiting > WaitingThresh

\* The release condition: under both thresholds, the second one halved with
\* Go's integer division.
Under(s) == s.usage < ReleaseUsage /\ s.waiting < WaitingThresh \div 2

\* observe(sample, now) while RELEASED, from the given consecutive count.
ObserveReleased(s, count) ==
    LET n == IF Over(s) THEN count + 1 ELSE 0 IN
    /\ engaged' = (n >= 2)
    /\ overThresholdCount' = IF n >= 2 THEN 0 ELSE n

\* Mutant of ObserveEngaged: a sample that is not under leaves the streak running.
ObserveEngagedKeepsStreak(s, now, since) ==
    LET from == IF since = Zero THEN now ELSE since IN
    IF Under(s) /\ now - from >= ReleaseSustain
    THEN engaged' = FALSE /\ underSince' = Zero
    ELSE engaged' = TRUE /\ underSince' = IF Under(s) THEN from ELSE since

\* observe(sample, now) while ENGAGED, from the given start of the streak.
ObserveEngaged(s, now, since) ==
    LET from == IF since = Zero THEN now ELSE since IN
    \/ /\ ~Under(s)
       /\ underSince' = Zero
       /\ engaged' = TRUE
    \/ /\ Under(s)
       /\ now - from >= ReleaseSustain
       /\ engaged' = FALSE
       /\ underSince' = Zero
    \/ /\ Under(s)
       /\ now - from < ReleaseSustain
       /\ engaged' = TRUE
       /\ underSince' = from

\* Mutant of StaleGap: the gap is never noticed.
StaleGapIgnored(now) == FALSE

\* A stale gap preceded the sample about to be recorded.
StaleGap(now) == everSucceeded /\ now - lastSuccessAt > MaxStaleness

\* tick's success path up to publish: resetConsecutive after a stale gap, then
\* observe.
Observe(s, now) ==
    LET count == IF StaleGap(now) THEN 0 ELSE overThresholdCount
        since == IF StaleGap(now) THEN Zero ELSE underSince IN
    \/ /\ ~engaged
       /\ ObserveReleased(s, count)
       /\ underSince' = since
    \/ /\ engaged
       /\ ObserveEngaged(s, now, since)
       /\ overThresholdCount' = count

\* Mutant of Publish: a backend that once answered stays fresh.
PublishEverFresh(now) ==
    snap' = [engaged |-> engaged', fresh |-> everSucceeded', sample |-> lastSample']

\* publish(now): fresh is computed here, once, and stays what it was until the
\* next publish.
Publish(now) ==
    snap' = [engaged |-> engaged',
             fresh   |-> everSucceeded' /\ now - lastSuccessAt' <= MaxStaleness,
             sample  |-> lastSample']

-----------------------------------------------------------------------------
(* The scraper's goroutine: newBackendScraper, run, tick, Stop.             *)

Init ==
    /\ clock = 0
    /\ phase = "off"
    /\ engaged = FALSE /\ overThresholdCount = 0 /\ underSince = Zero
    /\ everSucceeded = FALSE /\ lastSuccessAt = Zero /\ lastSample = NoSample
    /\ samples = {}
    /\ snap = ZeroSnapshot
    /\ tickNow = Zero /\ due = Zero
    /\ req = NoRequest

\* Register starts a scraper for a backend that has none; run's first tick is
\* immediate.
Register ==
    /\ phase = "off"
    /\ phase' = "new"
    /\ UNCHANGED <<clock, tickNow, due, pressureVars, scrapeVars, snap, req>>

\* sweep or Stop ends the scraper.  A scrape in flight is cancelled and its
\* publish reaches a snapshot nothing can look up any more, so the scraper is
\* simply gone: a later Register builds a new one from the zero state.
Evict ==
    /\ phase # "off"
    /\ phase' = "off"
    /\ engaged' = FALSE /\ overThresholdCount' = 0 /\ underSince' = Zero
    /\ everSucceeded' = FALSE /\ lastSuccessAt' = Zero /\ lastSample' = NoSample
    /\ samples' = {}
    /\ snap' = ZeroSnapshot
    /\ tickNow' = Zero /\ due' = Zero
    /\ UNCHANGED <<clock, req>>

\* tick begins: at once for the first one, later when the ticker has fired.
\* time.Ticker keeps at most one undelivered tick, on the grid NewTicker set.
StartTick ==
    /\ \/ phase = "new" /\ UNCHANGED due
       \/ /\ phase = "idle" /\ clock >= due
          /\ \E d \in (clock + 1)..(clock + ScrapeInterval) :
                (d - due) % ScrapeInterval = 0 /\ due' = d
    /\ phase' = "scraping"
    /\ tickNow' = clock
    /\ UNCHANGED <<clock, pressureVars, scrapeVars, snap, req>>

\* tick returns to run's select; NewTicker runs after the first tick.
EndTick ==
    /\ phase = "scraping"
    /\ phase' = "idle"
    /\ due' = IF due = Zero THEN clock + ScrapeInterval ELSE due
    /\ UNCHANGED <<clock, tickNow, req>>

\* The scrape failed: transport error, timeout, redirect, non-200 or a body the
\* parser refuses.  The state machine is not touched.
ScrapeFails ==
    /\ EndTick
    /\ UNCHANGED <<pressureVars, scrapeVars>>
    /\ Publish(tickNow)

\* The scrape returned sample s.
ScrapeSucceeds(s) ==
    /\ EndTick
    /\ Observe(s, tickNow)
    /\ everSucceeded' = TRUE
    /\ lastSuccessAt' = tickNow
    /\ lastSample' = s
    /\ samples' = samples \cup {[at |-> tickNow, sample |-> s]}
    /\ Publish(tickNow)

-----------------------------------------------------------------------------
(* The request path: kvAwareAdmitter.Admit, then Observed.                  *)

\* The decision Admit takes on what snapshotFor returns.
AdmitReason(tier, length) ==
    IF phase = "off" THEN "backend_unregistered"
    ELSE IF ~snap.fresh THEN "telemetry_stale"
    ELSE IF ~snap.engaged THEN "not_engaged"
    ELSE IF tier = "premium" THEN "premium_tier"
    ELSE IF length = "long" THEN "kv_cache_pressure"
    ELSE "below_threshold"

Admit(tier, length) ==
    LET rejects == AdmitReason(tier, length) = "kv_cache_pressure" IN
    /\ req.at # "decided"
    /\ req' = [at |-> "decided", admit |-> ~rejects,
               age |-> IF rejects THEN clock - lastSuccessAt ELSE 0,
               snap |-> snap, observedSame |-> TRUE]
    /\ UNCHANGED <<clock, phase, tickNow, due, pressureVars, scrapeVars, snap>>

\* The handler then asks Observed, which loads the snapshot a second time, and
\* puts it on the response.
Observed ==
    /\ req.at = "decided"
    /\ req' = IF phase = "off" THEN NoRequest
              ELSE [at |-> "reported", admit |-> TRUE, age |-> 0, snap |-> ZeroSnapshot,
                    observedSame |-> (snap = req.snap)]
    /\ UNCHANGED <<clock, phase, tickNow, due, pressureVars, scrapeVars, snap>>

-----------------------------------------------------------------------------
\* Time passes.  The goroutine is scheduled on time: a due tick is not left
\* waiting, and http.Client.Timeout ends a scrape.
Advance ==
    /\ clock < MaxClock
    /\ phase # "new"
    /\ phase = "idle" => clock < due
    /\ phase = "scraping" => clock < tickNow + HTTPTimeout
    /\ clock' = clock + 1
    /\ UNCHANGED <<phase, tickNow, due, pressureVars, scrapeVars, snap, req>>

Next ==
    \/ Register \/ Evict \/ StartTick \/ ScrapeFails
    \/ \E s \in Samples : ScrapeSucceeds(s)
    \/ \E tier \in Tiers, length \in Lengths : Admit(tier, length)
    \/ Observed
    \/ Advance

Spec == Init /\ [][Next]_vars

-----------------------------------------------------------------------------
(* Properties.                                                             *)

TypeOK ==
    /\ clock \in Nat
    /\ phase \in Phases
    /\ tickNow \in Time /\ due \in Time
    /\ engaged \in BOOLEAN /\ overThresholdCount \in {0, 1} /\ underSince \in Time
    /\ everSucceeded \in BOOLEAN /\ lastSuccessAt \in Time
    /\ lastSample \in Samples \cup {NoSample}
    /\ snap \in Snapshot
    /\ samples \subseteq Reading
    /\ req \in RequestType

\* The streak that starts at reading r reaches the latest reading with nothing
\* over a release threshold and no stale gap in it.
UnbrokenUnder(r, readings) ==
    \A q \in readings : q.at >= r.at =>
        /\ Under(q.sample)
        /\ q.at > r.at => \E p \in readings : /\ r.at <= p.at /\ p.at < q.at
                                              /\ q.at - p.at <= MaxStaleness

\* "a single spike can never engage on its own" and "a stale gap must never
\* count toward the 2-consecutive engage condition" (kvguard.go:197-199,
\* 214-215): the guard engages only when two successive successful samples are
\* both over a threshold and no stale gap lies between them.
EngageNeedsTwoFresh ==
    [][~engaged /\ engaged' =>
         /\ everSucceeded /\ Over(lastSample) /\ Over(lastSample')
         /\ lastSuccessAt' - lastSuccessAt <= MaxStaleness]_vars

\* The release window of observe and the reset tick makes after a stale gap: a
\* running scraper releases only at the end of an unbroken under-both-thresholds
\* streak that has lasted ReleaseSustain.
ReleaseSustained ==
    [][engaged /\ ~engaged' /\ phase' # "off" =>
         \E r \in samples' : /\ UnbrokenUnder(r, samples')
                             /\ lastSuccessAt' - r.at >= ReleaseSustain]_vars

\* The converse, which makes the guard let go: once an unbroken streak has
\* lasted ReleaseSustain the guard is not engaged any more.
ReleaseIsPrompt ==
    engaged => \A r \in samples :
        UnbrokenUnder(r, samples) => lastSuccessAt - r.at < ReleaseSustain

\* How old the telemetry behind a snapshot marked fresh can be: publish computes
\* fresh once, the next publish comes a scrape interval and at most two scrape
\* timeouts later.
StaleBound == MaxStaleness + ScrapeInterval + 2 * HTTPTimeout

\* "Fail-open is a staleness bypass": a request is never refused on telemetry
\* older than StaleBound, whatever the scrapes did meanwhile.
RejectOnlyOnRecentTelemetry == ~req.admit => req.age <= StaleBound

\* What KVAwareConfig.MaxStaleness says: past it the guard admits "rather than
\* acting on possibly-stale telemetry" (kvguard.go:848-849).
RejectWithinMaxStaleness == ~req.admit => req.age <= MaxStaleness

\* What Observed says: "the numbers a request records are the numbers its own
\* decision was made from rather than a second sample taken afterwards"
\* (kvguard.go:819-820).
ObservedIsDecided == req.at = "reported" => req.observedSame
=============================================================================
