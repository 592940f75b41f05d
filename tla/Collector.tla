------------------------------ MODULE Collector ------------------------------
(***************************************************************************)
(* The observation of a lab run: the cluster's objects of each trace row,  *)
(* one watch stream per kind that delivers their transitions in order but  *)
(* independently of the other kinds, and the collector that attributes     *)
(* them to rows and builds the ledger (cmd/queuelabrun collector.go and    *)
(* watchstream.go, internal/queuelab collector.go and joinchain.go).       *)
(*                                                                         *)
(* An observation's instant is its position in the order in which the      *)
(* collector's lock was taken.  The MLTrainingJob stream only repeats what *)
(* submitObserved caches and has no events here.                           *)
(***************************************************************************)
EXTENDS Ledger

CONSTANTS Schedule,     \* the rows in the order of their submission
          RunArms,      \* the arms under study
          MaxAttempts,  \* bound: Pods per row
          MaxLag,       \* bound: events a stalled stream holds back, per arm
          MaxLate,      \* bound: events handled past the deadline
          MaxFaults     \* bound: strays, broken streams, failures, evictions

(* A trace has at least one row.                                           *)
ASSUME ScheduleAssumption ==
    Schedule \in Seq({OwnRow, VictimRow, OwnerRow}) /\ Schedule # <<>>

Rows  == Range(Schedule)
Kinds == {"Job", "Workload", "Pod"}

VARIABLES arm,
          next,       \* position in the schedule of the row to submit next
          met,        \* how many of its barriers were seen to hold
          creating,   \* its Create was answered, submitObserved not yet run
          row,        \* row[r]: the row's objects in the cluster
          struck,     \* Pods that were live when Kueue evicted their Workload
          happened,   \* what happened to the objects, in order (history)
          queue,      \* queue[k]: the events of a kind not yet handled
          cache,      \* the objects handled
          stream,     \* stream[k]: how the stream stands
          pending,    \* classified, not yet attributed
          ledger,     \* the builder's events
          invalid,    \* the builder's invalid flag
          horizon,    \* the deadline's instant, or -1 before it
          slow,       \* bound: the one kind whose stream lags, or "none"
          faults

cvars == <<arm, next, met, creating, row, struck, happened, queue, cache, stream,
           pending, ledger, invalid, horizon, slow, faults>>

cluster == <<row, struck, happened>>
builder == <<pending, ledger, invalid>>

Pod(r, n) == <<"Pod", r, n>>
Stray     == <<"Pod", "stray", 0>>
KindOf(u) == u[1]

NoObjects == [job |-> "none", wl |-> "none", pod |-> "none", n |-> 0]

CInit == /\ arm = "none"
         /\ next = 1 /\ met = 0 /\ creating = FALSE
         /\ row = [r \in Rows |-> NoObjects]
         /\ struck = {}
         /\ happened = <<>>
         /\ queue = [k \in Kinds |-> <<>>] /\ cache = {}
         /\ stream = [k \in Kinds |-> "open"]
         /\ pending = <<>> /\ ledger = <<>> /\ invalid = FALSE
         /\ horizon = -1
         /\ slow = "none" /\ faults = 0

Submitted == {Schedule[i] : i \in 1..(next - 1)}
Created   == Submitted \cup (IF creating THEN {Schedule[next]} ELSE {})

(* The instant of the next event: past every one recorded, and past the    *)
(* deadline once it is behind.                                             *)
elapsed == 1 + Max({0, horizon} \cup {ledger[i].at : i \in DOMAIN ledger} \cup {pending[i].at : i \in DOMAIN pending})

------------------------------------------------------------------------------
(* The cluster: the operator's Job, Kueue's Workload, the kubelet's Pod.   *)
(* A transition is [uid, row, delta, type, reason, bad].                   *)

Transition(u, r, type, reason) ==
    [uid |-> u, row |-> r, delta |-> "Upsert", type |-> type, reason |-> reason, bad |-> FALSE]

Send(k, t) == queue' = [queue EXCEPT ![k] = Append(@, t)]

Emit(k, t) == /\ Send(k, t)
              /\ happened' = IF t.type = "none" THEN happened ELSE Append(happened, t)

Observation == UNCHANGED <<arm, next, met, creating, cache, stream, pending, ledger,
                           invalid, horizon, slow>>

Live(r) == row[r].pod \in {"pending", "ready"}

(* Two devices, one of them the first row's when it is not in the schedule. *)
Devices == IF OwnRow \in Rows THEN 2 ELSE 1
Using(f, v) == {q \in Rows : row[q][f] = v}

CreateJob(r) ==
    /\ r \in Created /\ row[r].job = "none"
    /\ row' = [row EXCEPT ![r].job = "active"]
    /\ Emit("Job", Transition(<<"Job", r>>, r, "none", "none"))
    /\ Observation /\ UNCHANGED <<struck, faults>>

(* A row that lost its quota is admitted again after the row it lost it to. *)
(* Admission resumes the Job, and the Job controller creates its Pod.      *)
Admit(r) ==
    /\ row[r].job = "active" /\ row[r].wl # "admitted" /\ ~Live(r)
    /\ Cardinality(Using("wl", "admitted")) < Devices /\ row[r].n < MaxAttempts
    /\ row[r].wl = "evicted" => \A q \in Rows \ {r} : row[q].wl # "none"
    /\ row' = [row EXCEPT ![r].wl = "admitted", ![r].pod = "pending", ![r].n = @ + 1]
    /\ Emit("Workload", Transition(<<"Workload", r>>, r, "Admitted", "Admitted"))
    /\ Observation /\ UNCHANGED <<struck, faults>>

(* A failed Pod is replaced: the Job controller's default backoffLimit.    *)
ReplacePod(r) ==
    /\ row[r].job = "active" /\ row[r].wl = "admitted"
    /\ row[r].pod \in {"Failed", "gone"} /\ row[r].n < MaxAttempts
    /\ row' = [row EXCEPT ![r].pod = "pending", ![r].n = @ + 1]
    /\ Observation /\ UNCHANGED <<struck, happened, queue, faults>>

BecomeReady(r) ==
    /\ row[r].pod = "pending" /\ row[r].wl = "admitted"
    /\ Cardinality(Using("pod", "ready")) < Devices
    /\ row' = [row EXCEPT ![r].pod = "ready"]
    /\ Emit("Pod", Transition(Pod(r, row[r].n), r, "PodReady", "Ready"))
    /\ Observation /\ UNCHANGED <<struck, faults>>

(* In-cohort reclamation: the owner's arrival evicts the borrower.         *)
Preempt ==
    /\ {VictimRow, OwnerRow} \subseteq Rows /\ PolicyVariant(arm) = "Any"
    /\ row[VictimRow].wl = "admitted"
    /\ row[OwnerRow].job = "active" /\ row[OwnerRow].wl = "none"
    /\ row[VictimRow].job = "active"
    /\ row' = [row EXCEPT ![VictimRow].wl = "evicted"]
    /\ struck' = IF Live(VictimRow) THEN struck \cup {Pod(VictimRow, row[VictimRow].n)} ELSE struck
    /\ Emit("Workload", Transition(<<"Workload", VictimRow>>, VictimRow, "Preempted", "InCohortReclamation"))
    /\ Observation /\ UNCHANGED faults

(* A victim that ignores SIGTERM may finish its work under the grace.      *)
StopPod(r, phase) ==
    /\ row[r].pod = "ready"
    /\ \/ phase = "Succeeded" /\ (row[r].wl = "evicted" => ContractFor(arm, r) = "IgnoresSIGTERM")
          /\ UNCHANGED faults
       \/ phase = "Failed" /\ row[r].wl = "evicted" /\ UNCHANGED faults
       \/ phase = "Failed" /\ row[r].wl = "admitted" /\ faults < MaxFaults /\ faults' = faults + 1
    /\ row' = [row EXCEPT ![r].pod = phase]
    /\ Emit("Pod", Transition(Pod(r, row[r].n), r, "AttemptStopped", phase))
    /\ Observation /\ UNCHANGED struck

(* An evicted Pod that never was Ready is deleted; a Ready one may be too. *)
DeletePod(r) ==
    /\ \/ row[r].pod = "pending" /\ row[r].wl = "evicted" /\ UNCHANGED faults
       \/ row[r].pod = "ready" /\ faults < MaxFaults /\ faults' = faults + 1
    /\ row' = [row EXCEPT ![r].pod = "gone"]
    /\ Send("Pod", [Transition(Pod(r, row[r].n), r,
                               IF row[r].pod = "ready" THEN "PodReady" ELSE "none", "Ready")
                      EXCEPT !.delta = "Delete"])
    /\ Observation /\ UNCHANGED <<struck, happened>>

EndJob(r) ==
    /\ row[r].job = "active"
    /\ \/ /\ row[r].pod = "Succeeded"
          /\ row' = [row EXCEPT ![r].job = "complete", ![r].wl = "finished"]
          /\ Emit("Job", Transition(<<"Job", r>>, r, "Completed", "Complete"))
          /\ UNCHANGED faults
       \/ /\ row[r].pod = "Failed" /\ faults < MaxFaults
          /\ faults' = faults + 1
          /\ row' = [row EXCEPT ![r].job = "failed", ![r].wl = "finished"]
          /\ Emit("Job", [Transition(<<"Job", r>>, r, "none", "none") EXCEPT !.bad = TRUE])
    /\ Observation /\ UNCHANGED struck

(* Any other eviction than the study's.                                    *)
EvictOtherwise(r) ==
    /\ row[r].wl = "admitted" /\ faults < MaxFaults
    /\ faults' = faults + 1
    /\ row' = [row EXCEPT ![r].wl = "evicted"]
    /\ Emit("Workload", [Transition(<<"Workload", r>>, r, "none", "none") EXCEPT !.bad = TRUE])
    /\ Observation /\ UNCHANGED struck

(* Somebody else's Pod in the run's namespace.                             *)
StrayAppears ==
    /\ faults < MaxFaults /\ next <= Len(Schedule)
    /\ faults' = faults + 1
    /\ Send("Pod", Transition(Stray, "stray", "PodReady", "Ready"))
    /\ Observation /\ UNCHANGED cluster

(* An update that changes nothing the collector classifies.                *)
RepeatLast ==
    /\ happened # <<>> /\ faults < MaxFaults
    /\ faults' = faults + 1
    /\ Send(KindOf(Last(happened).uid), Last(happened))
    /\ Observation /\ UNCHANGED cluster

(* Bound: the Job controllers act before anything else happens; that their *)
(* work is seen late is the Job stream's lag.                              *)
ControllerStep == \E r \in Rows : CreateJob(r) \/ EndJob(r)
ControllersDone == \A r \in Rows : /\ r \in Created => row[r].job # "none"
                                   /\ row[r].job = "active" => row[r].pod # "Succeeded"

ClusterStep ==
    \/ ControllerStep
    \/ /\ ControllersDone
       /\ \/ \E r \in Rows : \/ Admit(r) \/ ReplacePod(r) \/ BecomeReady(r)
                              \/ \E phase \in {"Succeeded", "Failed"} : StopPod(r, phase)
                              \/ DeletePod(r) \/ EvictOtherwise(r)
          \/ Preempt \/ StrayAppears \/ RepeatLast

------------------------------------------------------------------------------
(* LedgerBuilder.Observe, on b = [ledger, invalid].                        *)

LastOf(b, u) ==
    LET I == {i \in DOMAIN b.ledger : b.ledger[i].uid = u}
    IN IF I = {} THEN "none" ELSE b.ledger[Max(I)].type

(* Mutant: repeated states are events. *)
ObserveRepeats(b, t) ==
    IF b.invalid THEN b
    ELSE IF t.bad THEN [b EXCEPT !.invalid = TRUE]
    ELSE LET c == IF t.type = "none" THEN b
                  ELSE [b EXCEPT !.ledger = Append(@, [type |-> t.type, job |-> t.row, uid |-> t.uid,
                                                       at |-> t.at, reason |-> t.reason])]
         IN [c EXCEPT !.invalid = t.delta = "Delete" /\ LastOf(c, t.uid) = "PodReady"]

(* An invalid ledger stays invalid; a transition is appended once; a Pod   *)
(* deleted while Ready, without a terminal state, invalidates the run.     *)
Observe(b, t) ==
    IF b.invalid THEN b
    ELSE IF t.bad THEN [b EXCEPT !.invalid = TRUE]
    ELSE LET c == IF t.type \in {"none", LastOf(b, t.uid)} THEN b
                  ELSE [b EXCEPT !.ledger = Append(@, [type |-> t.type, job |-> t.row, uid |-> t.uid,
                                                       at |-> t.at, reason |-> t.reason])]
         IN [c EXCEPT !.invalid = t.delta = "Delete" /\ LastOf(c, t.uid) = "PodReady"]

(* Every object handled leads to a submitted row through its controlling   *)
(* Job, or nothing is attributed at all.                                   *)
ResolveTraceJobs(objs) ==
    \A u \in objs :
        /\ u[2] \in Submitted
        /\ KindOf(u) \in {"Workload", "Pod"} => <<"Job", u[2]>> \in objs

(* The builder after the first i of the events attributed.                 *)
Built(b, p) == LET f[i \in 0..Len(p)] == IF i = 0 THEN b ELSE Observe(f[i - 1], p[i]) IN f

(* An invalid ledger takes none of what is attributed (Observe).           *)
flush(p, objs) ==
    LET b == [ledger |-> ledger, invalid |-> invalid] IN
    IF ResolveTraceJobs(objs)
      THEN [kept |-> <<>>, b |-> Built(b, p)[Len(p)]]
      ELSE [kept |-> p, b |-> b]

Stamped(t, at) == [uid |-> t.uid, row |-> t.row, delta |-> t.delta, type |-> t.type,
                   reason |-> t.reason, bad |-> t.bad, at |-> at]

(* The stream hands over its next event and the consumer handles it.       *)
handle(k) ==
    /\ stream[k] = "open" /\ queue[k] # <<>>
    /\ LET t == Head(queue[k])
           p == IF t.type # "none" \/ t.bad \/ t.delta = "Delete"
                  THEN Append(pending, Stamped(t, elapsed)) ELSE pending
           f == flush(p, cache \cup {t.uid})
       IN /\ cache' = cache \cup {t.uid}
          /\ pending' = f.kept /\ ledger' = f.b.ledger /\ invalid' = f.b.invalid
    /\ queue' = [queue EXCEPT ![k] = Tail(@)]
    /\ slow' = IF k = slow /\ queue'[k] = <<>> THEN "none" ELSE slow
    /\ UNCHANGED <<arm, next, met, creating, stream, horizon, faults>> /\ UNCHANGED cluster

(* forward: once the observation is cancelled an event may be dropped, and *)
(* a later one still delivered.                                            *)
forwardDrops(k) ==
    /\ stream[k] = "open" /\ queue[k] # <<>> /\ horizon # -1
    /\ queue' = [queue EXCEPT ![k] = Tail(@)]
    /\ UNCHANGED <<arm, next, met, creating, cache, stream, horizon, slow, faults>>
    /\ UNCHANGED cluster /\ UNCHANGED builder

------------------------------------------------------------------------------
(* Streams.  A RetryWatcher that ends by itself delivers nothing more.     *)

BreakStream(k) ==
    /\ stream[k] = "open" /\ faults < MaxFaults
    /\ faults' = faults + 1
    /\ \E how \in {"lost", "lostStatus"} : stream' = [stream EXCEPT ![k] = how]
    /\ UNCHANGED <<arm, next, met, creating, queue, cache, horizon, slow>>
    /\ UNCHANGED cluster /\ UNCHANGED builder

(* forward's last lines and consume's: an ending is accepted only when the *)
(* run cancelled the observation and no status was forwarded.              *)
endStream(k) ==
    /\ stream[k] \in {"lost", "lostStatus"}
    /\ LET condemned == stream[k] = "lostStatus" \/ horizon = -1 IN
         /\ stream' = [stream EXCEPT ![k] = IF condemned THEN "condemned" ELSE "ended"]
         /\ invalid' = (invalid \/ condemned)
    /\ UNCHANGED <<arm, next, met, creating, queue, cache, pending, ledger, horizon, slow, faults>>
    /\ UNCHANGED cluster

(* cancel and wait: the streams still open end, with what they hold unread. *)
wait ==
    /\ horizon # -1 /\ \A k \in Kinds : stream[k] \notin {"lost", "lostStatus"}
    /\ \E k \in Kinds : stream[k] = "open"
    /\ stream' = [k \in Kinds |-> IF stream[k] = "open" THEN "ended" ELSE stream[k]]
    /\ UNCHANGED <<arm, next, met, creating, queue, cache, horizon, slow, faults>>
    /\ UNCHANGED cluster /\ UNCHANGED builder

Drained == \A k \in Kinds : stream[k] \in {"ended", "condemned"}

------------------------------------------------------------------------------
(* The schedule.  A row is submitted once its barriers hold: the phase of  *)
(* the row before it is Running, which the operator derives from the Job's *)
(* active count, and Kueue reports its quota in use.                       *)

barrierHolds(b) ==
    CASE b[1] = "AdmittedReady"  -> b[2] \in Rows => row[b[2]].job = "active" /\ Live(b[2])
      [] b[1] = "FlavorUsage"    -> Cardinality(Using("wl", "admitted")) + 2 - Devices >= b[2]
      [] b[1] = "DelayFromReady" -> TRUE

(* waitBarriers polls them one after the other; one that held is not       *)
(* looked at again.                                                        *)
Barriers == TerminationContractSchedule(Schedule[next])

waitBarrier ==
    /\ next <= Len(Schedule) /\ ~creating /\ horizon = -1
    /\ met < Len(Barriers) /\ barrierHolds(Barriers[met + 1])
    /\ met' = met + 1
    /\ UNCHANGED <<arm, next, creating, queue, cache, stream, horizon, slow, faults>>
    /\ UNCHANGED cluster /\ UNCHANGED builder

SubmitRow ==
    /\ next <= Len(Schedule) /\ ~creating /\ horizon = -1 /\ met = Len(Barriers)
    /\ creating' = TRUE
    /\ UNCHANGED <<arm, next, met, queue, cache, stream, horizon, slow, faults>>
    /\ UNCHANGED cluster /\ UNCHANGED builder

(* The Submitted event is recorded from the Create's answer, not a watch.  *)
submitObserved ==
    /\ creating
    /\ creating' = FALSE /\ next' = next + 1 /\ met' = 0
    /\ ledger' = IF invalid THEN ledger
                 ELSE Append(ledger, [type |-> "Submitted", job |-> Schedule[next],
                                      uid |-> <<"MLTrainingJob", Schedule[next]>>,
                                      at |-> elapsed, reason |-> "none"])
    /\ UNCHANGED <<arm, queue, cache, stream, pending, invalid, horizon, slow, faults>>
    /\ UNCHANGED cluster

(* The deadline passes and the observation is cancelled: the last instant  *)
(* inside the window is behind.  What is handled from here on is late.     *)
PassDeadline ==
    /\ horizon = -1 /\ ~creating /\ next > Len(Schedule)
    /\ horizon' = elapsed - 1
    /\ UNCHANGED <<arm, next, met, creating, queue, cache, stream, slow, faults>>
    /\ UNCHANGED cluster /\ UNCHANGED builder

(* A barrier that does not hold before its deadline desyncs the run.       *)
BarrierTimesOut ==
    /\ horizon = -1 /\ ~creating /\ next <= Len(Schedule) /\ met < Len(Barriers)
    /\ horizon' = elapsed - 1 /\ invalid' = TRUE
    /\ UNCHANGED <<arm, next, met, creating, queue, cache, stream, pending, ledger, slow, faults>>
    /\ UNCHANGED cluster

(* Bounds: a stream delivers at once unless it stalls, which is one of the *)
(* MaxFaults troubles of a run; then it lags by up to MaxLag events until  *)
(* it has caught up.  MaxLate bounds what is handled past the deadline,    *)
(* and nothing of interest happens to an invalid ledger.                   *)
Lag(k)  == Len(queue[k])
Prompt  == \A k \in Kinds \ {slow} : stream[k] = "open" => Lag(k) = 0
Whole   == \A k \in Kinds : stream[k] \notin {"lost", "lostStatus"}
InTime  == horizon # -1 => slow # "none" /\ elapsed - 1 - horizon < MaxLate

Stall(k) ==
    /\ slow = "none" /\ faults < MaxFaults /\ stream[k] = "open" /\ Lag(k) > 0
    /\ slow' = k /\ faults' = faults + 1
    /\ UNCHANGED <<arm, next, met, creating, queue, cache, stream, horizon>>
    /\ UNCHANGED cluster /\ UNCHANGED builder

Observing ==
    \/ Prompt /\ InTime /\ Whole /\ ~invalid /\ ClusterStep /\ (slow \in Kinds => Lag(slow)' <= MaxLag[arm])
    \/ \E k \in Kinds : \/ (k = slow => Prompt /\ InTime) /\ handle(k)
                        \/ Prompt /\ InTime /\ k = slow /\ forwardDrops(k)
                        \/ Stall(k)
                        \/ Prompt /\ (BreakStream(k) \/ endStream(k))
    \/ Prompt /\ Whole /\ (waitBarrier \/ SubmitRow \/ submitObserved)
    \/ Prompt /\ (PassDeadline \/ BarrierTimesOut \/ wait)

------------------------------------------------------------------------------
(* The how-manyeth event of its object an event is, in a sequence.         *)
Nth(s, i) == Cardinality({j \in 1..i : s[j].uid = s[i].uid})

(* Up to the deadline, what the ledger holds of an object is the beginning *)
(* of what happened to it, event by event: attribution that waits for a    *)
(* parent, repeated deliveries and the order of the streams never leave a  *)
(* hole, an event twice or one of another row (collector.flush,            *)
(* LedgerBuilder.Observe).  Past the deadline a stream may drop events.    *)
LedgerHasNoHole ==
    \A i \in DOMAIN ledger :
        ledger[i].type # "Submitted" /\ (horizon = -1 \/ ledger[i].at <= horizon) =>
          \E j \in DOMAIN happened :
             /\ happened[j].uid = ledger[i].uid /\ happened[j].row = ledger[i].job
             /\ happened[j].type = ledger[i].type /\ happened[j].reason = ledger[i].reason
             /\ Nth(happened, j) = Nth(ledger, i)
==============================================================================
