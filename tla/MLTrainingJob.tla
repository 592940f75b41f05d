---------------------------- MODULE MLTrainingJob ----------------------------
(***************************************************************************)
(* The MLTrainingJob reconciler (internal/controller/                      *)
(* mltrainingjob_controller.go and admit_to_running.go) for one name in    *)
(* one namespace: the MLTrainingJob, the batch/v1 Job of the same name and *)
(* the Kueue Workload of that Job.                                         *)
(*                                                                         *)
(* The manager's client reads from informer caches and writes to the API   *)
(* server.  A cached copy is the object as it was at some earlier moment;  *)
(* its field `fresh' says whether it is still the server's version, which  *)
(* is what an Update is refused on (optimistic concurrency).  A reconcile  *)
(* reads the cached Job twice and the Workload after it wrote the Job, so  *)
(* it is three steps: Begin, SyncJob and SyncStatus.                       *)
(*                                                                         *)
(* Times are admissions: AdmittedAt names the Kueue admission whose stamp  *)
(* it holds.                                                               *)
(***************************************************************************)
EXTENDS Integers, FiniteSets

(* How much of what the environment may do is explored, a record for each  *)
(* scenario: admissions by Kueue, pod failures that leave the Job without  *)
(* a pod, edits of the spec, Jobs of the name that somebody else creates,  *)
(* further MLTrainingJobs under the name, restarts of the operator,        *)
(* whether now can be before Kueue's stamp, and whether Kueue's Admitted   *)
(* condition can lack a stamp.                                             *)
CONSTANT Budgets

Budget == [admissions : Nat, restarts : Nat, edits : Nat, foreign : Nat,
           incarnations : Nat, crashes : Nat, skewed : BOOLEAN,
           missing : BOOLEAN]

ASSUME BudgetsAssumption == Budgets \subseteq Budget

(* A phase, a condition, an outcome or an end that is not there.           *)
Unset == ""

Phases == {Unset, "Pending", "Admitted", "Running", "Succeeded", "Failed"}

(* The AdmitToRunningObserved condition: absent, Observed, or a refusal. *)
Refusals == {"AdmissionNotObserved", "KueueStampMissing", "NegativeInterval"}
WindowConditions == {Unset, "Observed"} \cup Refusals

(* Owner of the Job: this MLTrainingJob, a deleted one of the same name,   *)
(* nobody, or another controller.                                          *)
Owners == {"self", "old", "none", "other"}

VARIABLES
    obj,     \* the MLTrainingJob on the API server
    objC,    \* ... in the informer cache
    job,     \* the Job on the API server
    jobC,    \* ... in the informer cache
    wl,      \* the Job's Workload on the API server
    wlC,     \* ... in the informer cache
    queued,  \* the name is in the work queue
    pc,      \* where the reconcile is
    held,    \* the copy of the MLTrainingJob the reconcile works on
    heldJob, \* the Job CreateOrUpdate returned
    metrics, \* what this process has counted for this MLTrainingJob
    world,   \* what happened to the Job, see WorldType
    budget   \* what is left of the bounds

vars == <<obj, objC, job, jobC, wl, wlC, queued, pc, held, heldJob, metrics,
          world, budget>>

RunVars == <<queued, pc, held, heldJob, metrics>>

-----------------------------------------------------------------------------
(* Objects *)

Status == [phase : Phases, admittedCond : Phases, synced : BOOLEAN,
           observedGeneration : Nat,
           admittedAt : Nat, running : BOOLEAN,
           window : WindowConditions]

EmptyStatus == [phase |-> Unset, admittedCond |-> Unset, synced |-> TRUE,
                observedGeneration |-> 0, admittedAt |-> 0, running |-> FALSE,
                window |-> Unset]

Object == [exists : BOOLEAN, deleting : BOOLEAN, finalizer : BOOLEAN,
           generation : Nat \ {0}, status : Status]

NoObject == [exists |-> FALSE, deleting |-> FALSE, finalizer |-> FALSE,
             generation |-> 1, status |-> EmptyStatus]

NewObject == [NoObject EXCEPT !.exists = TRUE]

(* `generation' is the spec's generation the Job's parallelism and         *)
(* completions were copied from, 0 for a Job somebody else wrote.          *)
Job == [exists : BOOLEAN, owner : Owners, suspend : BOOLEAN,
        active : BOOLEAN, done : {Unset, "Failed", "Complete"},
        generation : Nat]

NoJob == [exists |-> FALSE, owner |-> "none", suspend |-> FALSE,
          active |-> FALSE, done |-> Unset, generation |-> 0]

(* `stamp' is 0 when the Admitted condition carries no usable time. *)
Workload == [exists : BOOLEAN, admitted : BOOLEAN, stamp : Nat]

NoWorkload == [exists |-> FALSE, admitted |-> FALSE, stamp |-> 0]

Cached(o) == [o |-> o, fresh |-> TRUE]
Stale(c) == [c EXCEPT !.fresh = FALSE]

(* History the properties speak of: Kueue's admissions so far, the stamps  *)
(* the reconciler declined to measure from, the faults of the windows it   *)
(* reported, whether it took over somebody else's Job, and how often the   *)
(* status entered Failed.                                                  *)
WorldType == [admissions : Nat, refused : SUBSET Nat,
              faults : SUBSET {"requeued", "refused"},
              adopted : BOOLEAN, enteredFailed : Nat]

(* admit_to_running_seconds, ..._unobserved_total and failed_total.  *)
Metrics == [observed : Nat, unobserved : Nat, failed : Nat]

NoMetrics == [observed |-> 0, unobserved |-> 0, failed |-> 0]

TypeOK ==
    /\ obj \in Object /\ objC \in [o : Object, fresh : BOOLEAN]
    /\ job \in Job /\ jobC \in [o : Job, fresh : BOOLEAN]
    /\ wl \in Workload /\ wlC \in Workload
    /\ queued \in BOOLEAN
    /\ pc \in {"idle", "sync", "status"}
    /\ held \in [o : Object, fresh : BOOLEAN]
    /\ heldJob \in Job
    /\ metrics \in Metrics
    /\ world \in WorldType
    /\ budget \in Budget

Init ==
    /\ obj = NewObject /\ objC = Cached(NewObject)
    /\ job = NoJob /\ jobC = Cached(NoJob)
    /\ wl = NoWorkload /\ wlC = NoWorkload
    /\ queued = TRUE /\ pc = "idle"
    /\ held = Cached(NoObject) /\ heldJob = NoJob
    /\ metrics = NoMetrics
    /\ world = [admissions |-> 0, refused |-> {}, faults |-> {},
                adopted |-> FALSE, enteredFailed |-> 0]
    /\ budget \in Budgets

-----------------------------------------------------------------------------
(* Decisions of the reconciler *)

ownedConflict(j) == j.exists /\ j.owner # "self"

(* SetControllerReference refuses an object another controller owns; it    *)
(* compares group, kind and name and not the UID.                          *)
MayControl(j) == j.owner \in {"self", "old", "none"}

(* What CreateOrUpdate's closure makes of an existing Job: the suspend     *)
(* flag stays as it was read.                                              *)
SyncedJob(j, o) == [j EXCEPT !.owner = "self", !.generation = o.generation]

NewJob(o) == [exists |-> TRUE, owner |-> "self", suspend |-> TRUE,
              active |-> FALSE, done |-> Unset, generation |-> o.generation]

computeMLTJPhase(j, w) ==
    CASE j.done = "Failed" -> "Failed"
      [] j.done = "Complete" -> "Succeeded"
      [] j.done = Unset /\ j.active -> "Running"
      [] j.done = Unset /\ ~j.active /\ w.exists /\ w.admitted -> "Admitted"
      [] OTHER -> "Pending"

kueueAdmittedStamp(w) == IF w.exists /\ w.admitted THEN w.stamp ELSE 0

Outcome(s, o) == [status |-> s, outcome |-> o]

setUnobserved(s, reason) == Outcome([s EXCEPT !.window = reason], reason)

RecordAdmitted(s, stamp) ==
    IF s.admittedAt # 0 THEN Outcome(s, Unset)
    ELSE IF stamp = 0 THEN setUnobserved(s, "KueueStampMissing")
    ELSE Outcome([s EXCEPT !.admittedAt = stamp], Unset)

(* `negative' is now < AdmittedAt. *)
RecordRunning(s, negative) ==
    IF s.running THEN Outcome(s, Unset)
    ELSE IF s.admittedAt = 0
    THEN IF s.window \in Refusals THEN Outcome(s, Unset)
         ELSE setUnobserved(s, "AdmissionNotObserved")
    ELSE IF negative THEN setUnobserved(s, "NegativeInterval")
    ELSE Outcome([s EXCEPT !.running = TRUE, !.window = "Observed"],
                 "Observed")

recordAdmitToRunning(s, prev, next, stamp, negative) ==
    IF next = "Admitted" /\ prev # "Admitted" THEN RecordAdmitted(s, stamp)
    ELSE IF next = "Running" /\ prev # "Running"
    THEN RecordRunning(s, negative)
    ELSE Outcome(s, Unset)

FailedStatus(o) ==
    [o.status EXCEPT !.phase = "Failed", !.observedGeneration = o.generation,
                     !.synced = FALSE]

PhaseStatus(o, phase) ==
    [o.status EXCEPT !.phase = phase, !.observedGeneration = o.generation,
                     !.admittedCond = phase]

(* What is wrong with a window that ends now: it starts at another         *)
(* admission than the one the Workload shows, or at a stamp the reconciler *)
(* had declined to use.                                                    *)
Faults(s, stamp) ==
    (IF stamp # 0 /\ s.admittedAt # stamp THEN {"requeued"} ELSE {})
    \cup (IF s.admittedAt \in world.refused THEN {"refused"} ELSE {})

-----------------------------------------------------------------------------
(* The reconciler *)

(* A write of the MLTrainingJob: every copy in hand or in the cache is now *)
(* of an older version.                                                    *)
WriteObject(o) ==
    /\ obj' = o
    /\ objC' = Stale(objC)

WriteJob(j) ==
    /\ job' = j
    /\ jobC' = Stale(jobC)

(* An error goes back to the queue (with backoff); so does RequeueAfter. *)
Return(again) ==
    /\ pc' = "idle"
    /\ queued' = again
    /\ held' = Cached(NoObject)
    /\ heldJob' = NoJob

Done == Return(queued)
Requeue == Return(TRUE)

(* The owner a Job names by UID is gone. *)
Orphaned(j) == [j EXCEPT !.owner = IF @ = "self" THEN "old" ELSE @]

RemoveFinalizer(o) ==
    IF ~o.finalizer
    THEN Return(FALSE) /\ UNCHANGED <<obj, objC, job, jobC>>
    ELSE IF ~objC.fresh
    THEN Return(TRUE) /\ UNCHANGED <<obj, objC, job, jobC>>
    ELSE /\ WriteObject(NoObject)
         /\ job' = Orphaned(job)
         /\ jobC' = [jobC EXCEPT !.o = Orphaned(@)]
         /\ Return(FALSE)

AddFinalizer(o) ==
    /\ IF objC.fresh THEN WriteObject([o EXCEPT !.finalizer = TRUE])
                     ELSE UNCHANGED <<obj, objC>>
    /\ Return(~objC.fresh)
    /\ UNCHANGED <<job, jobC>>

(* Mutant of markFailed: no requeue. *)
markFailedForGood(o) ==
    /\ IF FailedStatus(o) = o.status \/ ~objC.fresh
       THEN UNCHANGED <<obj, objC, metrics, world>>
       ELSE /\ WriteObject([o EXCEPT !.status = FailedStatus(o)])
            /\ metrics' = [metrics EXCEPT !.failed = @ + 1]
            /\ world' = [world EXCEPT !.enteredFailed =
                             @ + (IF o.status.phase = "Failed" THEN 0 ELSE 1)]
    /\ Return(FALSE)
    /\ UNCHANGED <<job, jobC>>

(* markFailed, from Begin: the copy is the one in the cache. *)
markFailed(o) ==
    /\ IF FailedStatus(o) = o.status \/ ~objC.fresh
       THEN UNCHANGED <<obj, objC, metrics, world>>
       ELSE /\ WriteObject([o EXCEPT !.status = FailedStatus(o)])
            /\ metrics' = [metrics EXCEPT !.failed = @ + 1]
            /\ world' = [world EXCEPT !.enteredFailed =
                             @ + (IF o.status.phase = "Failed" THEN 0 ELSE 1)]
    /\ Requeue
    /\ UNCHANGED <<job, jobC>>

(* Reconcile up to the ownership check of the Job. *)
Begin ==
    /\ pc = "idle" /\ queued
    /\ LET o == objC.o IN
       \/ /\ ~o.exists
          /\ Return(FALSE)
          /\ UNCHANGED <<obj, objC, job, jobC, metrics, world>>
       \/ /\ o.exists /\ o.deleting
          /\ RemoveFinalizer(o)
          /\ UNCHANGED <<metrics, world>>
       \/ /\ o.exists /\ ~o.deleting /\ ~o.finalizer
          /\ AddFinalizer(o)
          /\ UNCHANGED <<metrics, world>>
       \/ /\ o.exists /\ ~o.deleting /\ o.finalizer
          /\ ownedConflict(jobC.o)
          /\ markFailed(o)
       \/ /\ o.exists /\ ~o.deleting /\ o.finalizer
          /\ ~ownedConflict(jobC.o)
          /\ pc' = "sync" /\ queued' = FALSE
          /\ held' = objC /\ heldJob' = NoJob
          /\ UNCHANGED <<obj, objC, job, jobC, metrics, world>>
    /\ UNCHANGED <<wl, wlC, budget>>

(* CreateOrUpdate: the Job is read from the cache again, created if it is  *)
(* not there, and updated if the closure changed the copy.                 *)
SyncJob ==
    /\ pc = "sync"
    /\ LET j == jobC.o
           s == SyncedJob(j, held.o)
       IN
       \/ /\ ~j.exists /\ job.exists           \* AlreadyExists
          /\ Requeue /\ UNCHANGED <<job, jobC, world>>
       \/ /\ ~j.exists /\ ~job.exists
          /\ WriteJob(NewJob(held.o))
          /\ heldJob' = NewJob(held.o) /\ pc' = "status"
          /\ UNCHANGED <<queued, held, world>>
       \/ /\ j.exists /\ ~MayControl(j)        \* AlreadyOwnedError
          /\ Requeue /\ UNCHANGED <<job, jobC, world>>
       \/ /\ j.exists /\ MayControl(j) /\ s = j
          /\ heldJob' = j /\ pc' = "status"
          /\ UNCHANGED <<job, jobC, queued, held, world>>
       \/ /\ j.exists /\ MayControl(j) /\ s # j /\ ~jobC.fresh
          /\ Requeue /\ UNCHANGED <<job, jobC, world>>
       \/ /\ j.exists /\ MayControl(j) /\ s # j /\ jobC.fresh
          /\ WriteJob(s)
          /\ heldJob' = s /\ pc' = "status"
          /\ world' = [world EXCEPT !.adopted = @ \/ j.owner # "self"]
          /\ UNCHANGED <<queued, held>>
    /\ UNCHANGED <<obj, objC, wl, wlC, metrics, budget>>

(* The series, and the history, of a status write. *)
Count(outcome, s, stamp) ==
    /\ metrics' = [metrics EXCEPT
            !.observed = @ + (IF outcome = "Observed" THEN 1 ELSE 0),
            !.unobserved = @ + (IF outcome \in Refusals THEN 1 ELSE 0)]
    /\ world' = [world EXCEPT
            !.refused = IF outcome = "AdmissionNotObserved" /\ stamp # 0
                        THEN @ \cup {stamp} ELSE @,
            !.faults = IF outcome = "Observed"
                       THEN @ \cup Faults(s, stamp) ELSE @]

(* Mutant of setMLTJPhase: the metrics before the write. *)
setMLTJPhaseCountsFirst(phase, stamp, negative) ==
    LET o == held.o
        rec == recordAdmitToRunning(PhaseStatus(o, phase), o.status.phase,
                                    phase, stamp, negative)
    IN  IF rec.status = o.status
        THEN Done /\ UNCHANGED <<obj, objC, metrics, world>>
        ELSE /\ Count(rec.outcome, rec.status, stamp)
             /\ IF ~held.fresh
                THEN Requeue /\ UNCHANGED <<obj, objC>>
                ELSE WriteObject([o EXCEPT !.status = rec.status]) /\ Done

(* A write refused for its version is an error: nothing is counted. *)
setMLTJPhase(phase, stamp, negative) ==
    LET o == held.o
        rec == recordAdmitToRunning(PhaseStatus(o, phase), o.status.phase,
                                    phase, stamp, negative)
    IN  IF rec.status = o.status
        THEN Done /\ UNCHANGED <<obj, objC, metrics, world>>
        ELSE IF ~held.fresh
        THEN Requeue /\ UNCHANGED <<obj, objC, metrics, world>>
        ELSE /\ WriteObject([o EXCEPT !.status = rec.status])
             /\ Count(rec.outcome, rec.status, stamp)
             /\ Done

(* getWorkloadForJob, computeMLTJPhase and setMLTJPhase. *)
SyncStatus ==
    /\ pc = "status"
    /\ \E negative \in (IF budget.skewed THEN BOOLEAN ELSE {FALSE}) :
           setMLTJPhase(computeMLTJPhase(heldJob, wlC),
                        kueueAdmittedStamp(wlC), negative)
    /\ UNCHANGED <<job, jobC, wl, wlC, budget>>

(* The operator restarts: the reconcile and the counters are gone, the     *)
(* caches are listed again and every object is queued.                     *)
Crash ==
    /\ budget.crashes > 0
    /\ budget' = [budget EXCEPT !.crashes = @ - 1]
    /\ objC' = Cached(obj) /\ jobC' = Cached(job) /\ wlC' = wl
    /\ pc' = "idle" /\ queued' = TRUE
    /\ held' = Cached(NoObject) /\ heldJob' = NoJob
    /\ metrics' = NoMetrics
    /\ UNCHANGED <<obj, job, wl, world>>

-----------------------------------------------------------------------------
(* Watches: the cache catches up and the change is an event. *)

SyncObjC ==
    /\ ~objC.fresh
    /\ objC' = Cached(obj)
    /\ queued' = TRUE
    /\ UNCHANGED <<obj, job, jobC, wl, wlC, pc, held, heldJob, metrics, world,
                   budget>>

(* Only a Job an MLTrainingJob controls is mapped to a request (Owns). *)
SyncJobC ==
    /\ ~jobC.fresh
    /\ jobC' = Cached(job)
    /\ queued' = (queued \/ \E j \in {job, jobC.o} :
                               j.exists /\ j.owner \in {"self", "old"})
    /\ UNCHANGED <<obj, objC, job, wl, wlC, pc, held, heldJob, metrics, world,
                   budget>>

(* mapWorkloadToMLTrainingJob goes by the Job's name. *)
SyncWlC ==
    /\ wlC # wl
    /\ wlC' = wl
    /\ queued' = TRUE
    /\ UNCHANGED <<obj, objC, job, jobC, wl, pc, held, heldJob, metrics, world,
                   budget>>

-----------------------------------------------------------------------------
(* Kueue and the Job controller *)

JobWith(j) == WriteJob(j) /\ UNCHANGED <<obj, objC, RunVars>>
WlWith(w) == wl' = w /\ UNCHANGED <<obj, objC, job, jobC, wlC, RunVars>>

Managed == job.exists /\ job.owner = "self" /\ job.done = Unset

KueueCreate ==
    /\ Managed /\ ~wl.exists
    /\ WlWith([NoWorkload EXCEPT !.exists = TRUE])
    /\ UNCHANGED <<world, budget>>

KueueAdmit ==
    /\ Managed /\ wl.exists /\ ~wl.admitted /\ job.suspend
    /\ world.admissions < budget.admissions
    /\ world' = [world EXCEPT !.admissions = @ + 1]
    /\ \E missing \in (IF budget.missing THEN BOOLEAN ELSE {FALSE}) :
           WlWith([exists |-> TRUE, admitted |-> TRUE,
                   stamp |-> IF missing THEN 0 ELSE world.admissions + 1])
    /\ UNCHANGED budget

KueueUnsuspend ==
    /\ Managed /\ wl.admitted /\ job.suspend
    /\ JobWith([job EXCEPT !.suspend = FALSE])
    /\ UNCHANGED <<wl, wlC, world, budget>>

KueueEvict ==
    /\ Managed /\ wl.admitted /\ world.admissions < budget.admissions
    /\ WlWith([wl EXCEPT !.admitted = FALSE, !.stamp = 0])
    /\ UNCHANGED <<world, budget>>

KueueSuspend ==
    /\ Managed /\ ~wl.admitted /\ ~job.suspend
    /\ JobWith([job EXCEPT !.suspend = TRUE, !.active = FALSE])
    /\ UNCHANGED <<wl, wlC, world, budget>>

PodsStart ==
    /\ Managed /\ ~job.suspend /\ ~job.active
    /\ JobWith([job EXCEPT !.active = TRUE])
    /\ UNCHANGED <<wl, wlC, world, budget>>

PodsFail ==
    /\ Managed /\ job.active /\ budget.restarts > 0
    /\ budget' = [budget EXCEPT !.restarts = @ - 1]
    /\ JobWith([job EXCEPT !.active = FALSE])
    /\ UNCHANGED <<wl, wlC, world>>

JobEnds ==
    /\ Managed /\ job.active
    /\ \E d \in {"Failed", "Complete"} :
           JobWith([job EXCEPT !.active = FALSE, !.done = d])
    /\ UNCHANGED <<wl, wlC, world, budget>>

-----------------------------------------------------------------------------
(* Users and the garbage collector *)

EditSpec ==
    /\ obj.exists /\ ~obj.deleting /\ budget.edits > 0
    /\ budget' = [budget EXCEPT !.edits = @ - 1]
    /\ WriteObject([obj EXCEPT !.generation = @ + 1])
    /\ held' = Stale(held)
    /\ UNCHANGED <<job, jobC, wl, wlC, queued, pc, heldJob, metrics, world>>

DeleteObject ==
    /\ obj.exists /\ ~obj.deleting /\ budget.incarnations > 0
    /\ WriteObject(IF obj.finalizer THEN [obj EXCEPT !.deleting = TRUE]
                                    ELSE NoObject)
    /\ held' = Stale(held)
    /\ UNCHANGED <<job, jobC, wl, wlC, queued, pc, heldJob, metrics, world,
                   budget>>

(* A new MLTrainingJob of the same name; what was counted and what         *)
(* happened belonged to the last one.                                      *)
RecreateObject ==
    /\ ~obj.exists /\ budget.incarnations > 0
    /\ budget' = [budget EXCEPT !.incarnations = @ - 1]
    /\ WriteObject(NewObject)
    /\ metrics' = NoMetrics
    /\ UNCHANGED <<job, jobC, wl, wlC, queued, pc, held, heldJob, world>>

RemoveJob ==
    /\ JobWith(NoJob)
    /\ wl' = NoWorkload /\ wlC' = NoWorkload
    /\ UNCHANGED <<world, budget>>

CollectOldJob == job.exists /\ job.owner = "old" /\ RemoveJob
DeleteForeignJob == job.exists /\ job.owner \in {"none", "other"} /\ RemoveJob

CreateForeignJob ==
    /\ ~job.exists /\ budget.foreign > 0
    /\ budget' = [budget EXCEPT !.foreign = @ - 1]
    /\ \E w \in {"none", "other"} :
           JobWith([NoJob EXCEPT !.exists = TRUE, !.owner = w])
    /\ UNCHANGED <<wl, wlC, world>>

Operator == Begin \/ SyncJob \/ SyncStatus
Caches == SyncObjC \/ SyncJobC \/ SyncWlC
Kueue == KueueCreate \/ KueueAdmit \/ KueueUnsuspend \/ KueueEvict
         \/ KueueSuspend \/ PodsStart \/ PodsFail \/ JobEnds
Users == EditSpec \/ DeleteObject \/ RecreateObject \/ CreateForeignJob
         \/ DeleteForeignJob \/ CollectOldJob

Next == Operator \/ Caches \/ Kueue \/ Users \/ Crash

Spec == Init /\ [][Next]_vars

-----------------------------------------------------------------------------
(* Kueue owns the suspend flag of a Job that exists: no step of the        *)
(* reconciler, whatever stale copy it updates from, changes it             *)
(* (mltrainingjob_controller.go:59-61).                                    *)
SuspendIsKueues ==
    [][Operator /\ job.exists /\ job'.exists
           => job'.suspend = job.suspend]_vars

(* The histogram and the record cannot disagree: a wait is reported at     *)
(* most once for a training job, and only if its status carries it         *)
(* (mltrainingjob_controller.go:429-430).                                  *)
SeriesHasRecord ==
    obj.exists => /\ metrics.observed <= 1
                  /\ metrics.observed = 1 => obj.status.running

(* The two ends of the window are each written once: pod restarts,         *)
(* evictions, operator restarts and late reconciles leave them alone       *)
(* (admit_to_running.go:99-101,113-115).                                   *)
WindowIsWrittenOnce ==
    [][obj.exists /\ obj'.exists
           => /\ obj.status.admittedAt # 0
                  => obj'.status.admittedAt = obj.status.admittedAt
              /\ obj.status.running => obj'.status.running]_vars

(* The watches and requeues suffice: when nothing is queued, in hand or    *)
(* undelivered, the status shows the Job and no deletion is waiting; a     *)
(* conflict that cleared without an event, a stale read or a refused write *)
(* leaves nothing behind (mltrainingjob_controller.go:207-209,236).        *)
Settled ==
    ~queued /\ pc = "idle" /\ objC.fresh /\ jobC.fresh /\ wlC = wl

SettledIsRight ==
    Settled /\ obj.exists
        => /\ ~obj.deleting
           /\ obj.status.phase = IF ownedConflict(job) THEN "Failed"
                                 ELSE computeMLTJPhase(job, wl)

(* What comments say and the code does not keep.                           *)

(* "refusing to adopt" a Job that is not ours                              *)
(* (mltrainingjob_controller.go:95).                                       *)
RefusesToAdopt == ~world.adopted

(* The window is "how long a tenant waited between having quota and using  *)
(* it" (admit_to_running.go:28): it holds no eviction.                     *)
WindowHoldsQuota == "requeued" \notin world.faults

(* Kueue's stamp of an admission nobody watched "must not" be subtracted   *)
(* from after the fact (admit_to_running.go:50-54).                        *)
RefusedStampStaysUnused == "refused" \notin world.faults

(* failed_total counts "entries into the Failed phase" (metrics.go:91).    *)
FailedCountsEntries == metrics.failed <= world.enteredFailed
=============================================================================
