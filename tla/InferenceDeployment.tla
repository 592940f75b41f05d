------------------------ MODULE InferenceDeployment ------------------------
(***************************************************************************)
(* The InferenceDeployment reconciler                                      *)
(* (internal/controller/inferencedeployment_controller.go) for one object: *)
(* it keeps a Deployment and a Service of the same name, labels the        *)
(* Deployment with the queue of the namespace's GPUQuotaPolicy, and        *)
(* derives the phase from a Deployment status that lags its spec.          *)
(*                                                                         *)
(* Reads are of informer caches; a read and the write that follows it are  *)
(* one step.  There is one worker.  The Deployment controller and its pods *)
(* are external.                                                           *)
(***************************************************************************)
EXTENDS Naturals

CONSTANTS Replicas,    \* replica counts a spec may ask for
          Versions,    \* images and ports
          Policies,    \* GPUQuotaPolicies that target the namespace
          Tenants,
          None, Other, \* no object; the owner and the content of an object
                       \* that others made and that has no controller
          Budgets      \* the disturbances a behaviour may bring, by scenario

(* edits of the spec, deletions and re-creations of the object, policy     *)
(* edits, objects others create under its name, objects removed by others, *)
(* replica counts of the Deployment set by others, pods that stop being    *)
(* ready, rollouts past their deadline, API calls that fail, restarts.     *)
Disturbances == {"edits", "deletes", "recreations", "policies", "foreign",
                 "removals", "scalings", "lapses", "stalls", "failures",
                 "crashes"}

ASSUME ConstantsAssumption ==
    /\ Replicas \subseteq Nat
    /\ Budgets \subseteq [Disturbances -> Nat]

VARIABLES
    infd,      \* the InferenceDeployment on the API server
    infdC,     \* in the informer cache
    infdF,     \* whether the cached copy is of the server's version
    obj,       \* its Deployment and its Service
    objC,
    news,      \* undelivered events of each: none, or whether one wakes us
    policy,    \* the tenant each policy puts on Kueue's quota, or None
    policyC,
    pods,      \* the Deployment's pods: of an older template, of the newest,
               \* and how many of them all are ready
    queued, retry, \* the work queue, a RequeueAfter pending
    rec,       \* the reconcile in progress
    served,    \* history: specs on which the pods have converged
    left       \* what is left of the scenario's budget

vars == <<infd, infdC, infdF, obj, objC, news, policy, policyC, pods, queued,
          retry, rec, served, left>>
InfdVars == <<infd, infdC, infdF>>
ObjVars == <<obj, objC, news, pods>>
PolicyVars == <<policy, policyC>>

Kinds == {"Deployment", "Service"}
Specs == [replicas : Replicas, version : Versions]
Queues == Tenants \cup {None}

(* The phase of an object nobody has looked at.                            *)
Unset == ""

Status == [phase : {Unset, "Pending", "Progressing", "Ready", "Degraded"},
           conflict : Kinds \cup {None}, ready : Nat, observed : Specs \cup {None}]
Infd == [uid : Nat, spec : Specs, status : Status]

(* Deployment.Status: whether it is of the newest generation, the replica  *)
(* counts, and whether Progressing is False with ProgressDeadlineExceeded. *)
DeploymentStatus == [seen : BOOLEAN, replicas : Nat, updated : Nat, ready : Nat,
                     failed : BOOLEAN]
Object == [owner : Nat \cup {Other},
           content : [replicas : Nat, version : Versions \cup {Other}, queue : Queues],
           status : DeploymentStatus]

(* Nothing is told apart from an object, and no controller from every one. *)
ASSUME AbsentAssumption == None \notin Object /\ Other \notin Nat

NoStatus == [seen |-> FALSE, replicas |-> 0, updated |-> 0, ready |-> 0,
             failed |-> FALSE]

NewInfd(i, s) ==
    [uid |-> i, spec |-> s,
     status |-> [phase |-> Unset, conflict |-> None, ready |-> 0, observed |-> None]]

NoPods == [old |-> 0, new |-> 0, ready |-> 0]

Idle == [at |-> "idle", copy |-> None, ok |-> FALSE, queue |-> None,
         status |-> NoStatus]

TypeOK ==
    /\ infd \in Infd \cup {None} /\ infdC \in Infd \cup {None}
    /\ infdF \in BOOLEAN /\ queued \in BOOLEAN /\ retry \in BOOLEAN
    /\ obj \in [Kinds -> Object \cup {None}] /\ objC \in [Kinds -> Object \cup {None}]
    /\ news \in [Kinds -> {"none", "quiet", "wake"}]
    /\ policy \in [Policies -> Queues] /\ policyC \in [Policies -> Queues]
    /\ pods \in [old : Nat, new : Nat, ready : Nat]
    /\ pods.ready <= pods.old + pods.new
    /\ rec \in [at : {"idle", "deployment", "checkService", "service", "status"},
               copy : Infd \cup {None}, ok : BOOLEAN, queue : Queues,
               status : DeploymentStatus]
    /\ served \subseteq Specs
    /\ left \in [Disturbances -> Nat]

Init ==
    /\ \E s \in Specs : infd = NewInfd(0, s)
    /\ infdC = infd /\ infdF = TRUE
    /\ obj = [k \in Kinds |-> None] /\ objC = obj
    /\ news = [k \in Kinds |-> "none"]
    /\ policy = [p \in Policies |-> None] /\ policyC = policy
    /\ pods = NoPods
    /\ queued = TRUE /\ retry = FALSE /\ rec = Idle /\ served = {}
    /\ left \in Budgets

-----------------------------------------------------------------------------
(* Writes to the API server *)

WriteInfd(v) == infd' = v /\ infdF' = FALSE /\ UNCHANGED infdC

(* Owns: an event whose object, before or after, has a controller wakes us. *)
Wakes(o) == o # None /\ o.owner # Other

Put(k, v) ==
    /\ obj' = [obj EXCEPT ![k] = v]
    /\ news' = [news EXCEPT ![k] = IF Wakes(obj[k]) \/ Wakes(v) \/ @ = "wake"
                                   THEN "wake" ELSE "quiet"]
    /\ UNCHANGED objC

(* The pods go with their Deployment; a new template makes them old. *)
PodsAfter(o, v) ==
    IF o = None \/ v = None THEN NoPods
    ELSE IF o.content.version = v.content.version /\ o.content.queue = v.content.queue
    THEN pods
    ELSE [pods EXCEPT !.old = pods.old + pods.new, !.new = 0]

Write(k, v) ==
    /\ Put(k, v)
    /\ pods' = IF k = "Deployment" THEN PodsAfter(obj[k], v) ELSE pods

(* A new spec is a new generation, which the status is not of. *)
WithContent(o, c) ==
    [o EXCEPT !.content = c, !.status.seen = @ /\ c = o.content]

Spend(b) == left[b] > 0 /\ left' = [left EXCEPT ![b] = @ - 1]

Return(again, later) ==
    /\ rec' = Idle /\ queued' = again /\ retry' = later
Done == Return(queued, retry)
ReturnError == Return(TRUE, retry)
GoTo(step) == rec' = [rec EXCEPT !.at = step] /\ UNCHANGED <<queued, retry>>

-----------------------------------------------------------------------------
(* The reconciler *)

(* Status().Update of copy c, current if ok; End when done or not needed. *)
UpdateStatus(c, ok, s, End) ==
    \/ s = c.status /\ UNCHANGED InfdVars /\ End
    \/ s # c.status /\ ok /\ WriteInfd([c EXCEPT !.status = s]) /\ End
    \/ s # c.status /\ ~ok /\ UNCHANGED InfdVars /\ ReturnError

(* Degraded because the object of kind k is not ours. *)
Degraded(c, k) ==
    [phase |-> "Degraded", conflict |-> k, ready |-> 0, observed |-> c.spec]

(* Mutant of markDegraded: no requeue. *)
markDegradedForGood(c, k, ok, again) ==
    UpdateStatus(c, ok, Degraded(c, k), Return(again, retry))

markDegraded(c, k, ok, again) ==
    UpdateStatus(c, ok, Degraded(c, k), Return(again, TRUE))

ownedConflict(k, c) == objC[k] # None /\ objC[k].owner # c.uid

(* The first match of a list in no particular order. *)
servingQueue ==
    LET governing == {policyC[p] : p \in Policies} \ {None} IN
    IF governing = {} THEN {None} ELSE governing

Begin ==
    /\ rec = Idle /\ queued
    /\ \/ /\ infdC = None
          /\ Return(FALSE, retry) /\ UNCHANGED InfdVars
       \/ /\ infdC # None /\ ownedConflict("Deployment", infdC)
          /\ markDegraded(infdC, "Deployment", infdF, FALSE)
       \/ /\ infdC # None /\ ~ownedConflict("Deployment", infdC)
          /\ \E q \in servingQueue :
                rec' = [at |-> "deployment", copy |-> infdC, ok |-> infdF,
                        queue |-> q, status |-> NoStatus]
          /\ queued' = FALSE /\ UNCHANGED <<InfdVars, retry>>
    /\ UNCHANGED <<ObjVars, PolicyVars, served, left>>

(* CreateOrUpdate with mutateDeployment or mutateService and               *)
(* SetControllerReference, which takes over an object without a controller *)
(* and one whose controller has our name.  A copy that is as it should be  *)
(* is left, or sent all the same when the defaults the server filled in    *)
(* make it look different.  status is that of the object it returns.       *)
CreateOrUpdate(k, content, next) ==
    LET c == objC[k]
        new == [owner |-> rec.copy.uid, content |-> content, status |-> NoStatus]
        updated == [WithContent(c, content) EXCEPT !.owner = rec.copy.uid]
        Go(o) == /\ rec' = [rec EXCEPT !.at = next, !.queue = None,
                                       !.status = IF k = "Deployment" THEN o.status ELSE @]
                 /\ UNCHANGED <<queued, retry>>
    IN  \/ c = None /\ obj[k] = None /\ Write(k, new) /\ Go(new)
        \/ c = None /\ obj[k] # None /\ UNCHANGED ObjVars /\ ReturnError
        \/ c # None /\ updated = c /\ UNCHANGED ObjVars /\ Go(c)
        \/ /\ c # None /\ news[k] = "none"
           /\ IF updated = c THEN UNCHANGED ObjVars ELSE Write(k, updated)
           /\ Go(updated)
        \/ c # None /\ news[k] # "none" /\ UNCHANGED ObjVars /\ ReturnError

SyncDeployment ==
    /\ rec.at = "deployment"
    /\ CreateOrUpdate("Deployment",
           [replicas |-> rec.copy.spec.replicas,
            version |-> rec.copy.spec.version, queue |-> rec.queue], "checkService")
    /\ UNCHANGED <<InfdVars, PolicyVars, served, left>>

CheckService ==
    /\ rec.at = "checkService"
    /\ IF ownedConflict("Service", rec.copy)
       THEN markDegraded(rec.copy, "Service", rec.ok, queued)
       ELSE GoTo("service") /\ UNCHANGED InfdVars
    /\ UNCHANGED <<ObjVars, PolicyVars, served, left>>

SyncService ==
    /\ rec.at = "service"
    /\ CreateOrUpdate("Service",
           [replicas |-> 0, version |-> rec.copy.spec.version, queue |-> None], "status")
    /\ UNCHANGED <<InfdVars, PolicyVars, served, left>>

(* Mutant of computeInfDPhase: no stale gate. *)
computeInfDPhaseUngated(want, d) ==
    IF want = 0 THEN "Ready"
    ELSE IF d.failed THEN "Degraded"
    ELSE IF d.ready = 0 THEN "Pending"
    ELSE IF {d.replicas, d.updated, d.ready} # {want} THEN "Progressing"
    ELSE "Ready"

computeInfDPhase(want, d) ==
    IF ~d.seen /\ ~(want = 0 /\ d.replicas = 0) THEN "Progressing"
    ELSE IF want = 0 THEN "Ready"
    ELSE IF d.failed THEN "Degraded"
    ELSE IF d.ready = 0 THEN "Pending"
    ELSE IF {d.replicas, d.updated, d.ready} # {want} THEN "Progressing"
    ELSE "Ready"

StatusOf(spec, d) ==
    [phase |-> computeInfDPhase(spec.replicas, d), conflict |-> None,
     ready |-> d.ready, observed |-> spec]

WriteStatus ==
    /\ rec.at = "status"
    /\ UpdateStatus(rec.copy, rec.ok, StatusOf(rec.copy.spec, rec.status), Done)
    /\ UNCHANGED <<ObjVars, PolicyVars, served, left>>

-----------------------------------------------------------------------------
(* Caches, timers, failures *)

SyncInfdC ==
    /\ ~infdF
    /\ infdC' = infd /\ infdF' = TRUE /\ queued' = TRUE
    /\ UNCHANGED <<infd, ObjVars, PolicyVars, retry, rec, served, left>>

SyncObjectC(k) ==
    /\ news[k] # "none"
    /\ objC' = [objC EXCEPT ![k] = obj[k]]
    /\ queued' = (queued \/ news[k] = "wake")
    /\ news' = [news EXCEPT ![k] = "none"]
    /\ UNCHANGED <<obj, pods, InfdVars, PolicyVars, retry, rec, served, left>>

(* mapPolicyToInferenceDeployments *)
SyncPolicyC(p) ==
    /\ policyC[p] # policy[p]
    /\ policyC' = [policyC EXCEPT ![p] = policy[p]]
    /\ queued' = (queued \/ infdC # None)
    /\ UNCHANGED <<policy, InfdVars, ObjVars, retry, rec, served, left>>

TimerFires ==
    /\ retry /\ retry' = FALSE /\ queued' = TRUE
    /\ UNCHANGED <<InfdVars, ObjVars, PolicyVars, rec, served, left>>

CallFails ==
    /\ rec # Idle /\ Spend("failures") /\ ReturnError
    /\ UNCHANGED <<InfdVars, ObjVars, PolicyVars, served>>

Crash ==
    /\ Spend("crashes")
    /\ rec' = Idle /\ retry' = FALSE /\ queued' = TRUE
    /\ infdC' = infd /\ infdF' = TRUE /\ objC' = obj
    /\ news' = [k \in Kinds |-> "none"] /\ policyC' = policy
    /\ UNCHANGED <<infd, obj, policy, pods, served>>

-----------------------------------------------------------------------------
(* The Deployment controller and the pods *)

Counts == [seen |-> TRUE, replicas |-> pods.old + pods.new,
           updated |-> pods.new, ready |-> pods.ready, failed |-> FALSE]

Dep == obj["Deployment"]
Managed == Dep # None /\ Dep.owner # Other
OnlyPods == UNCHANGED <<InfdVars, obj, objC, news, PolicyVars, queued, retry,
                        rec, served>>

(* One pod more than asked for during a rollout, none without a reason. *)
StartPod ==
    /\ Managed /\ pods.new < Dep.content.replicas
    /\ pods.old + pods.new <= Dep.content.replicas
    /\ pods' = [pods EXCEPT !.new = @ + 1] /\ OnlyPods /\ UNCHANGED left

StopPod ==
    /\ Managed
    /\ \E r \in {pods.ready - 1, pods.ready} \cap Nat :
          \/ /\ pods.old > 0 /\ r <= pods.old + pods.new - 1
             /\ pods' = [pods EXCEPT !.old = @ - 1, !.ready = r]
          \/ /\ pods.new > Dep.content.replicas /\ r <= pods.old + pods.new - 1
             /\ pods' = [pods EXCEPT !.new = @ - 1, !.ready = r]
    /\ OnlyPods /\ UNCHANGED left

PodReady ==
    /\ pods.ready < pods.old + pods.new
    /\ pods' = [pods EXCEPT !.ready = @ + 1] /\ OnlyPods /\ UNCHANGED left

PodLapses ==
    /\ pods.ready > 0 /\ Spend("lapses")
    /\ pods' = [pods EXCEPT !.ready = @ - 1] /\ OnlyPods

Report(s) ==
    /\ Managed /\ Dep.status # s
    /\ Put("Deployment", [Dep EXCEPT !.status = s])
    /\ served' = IF {s.replicas, s.updated, s.ready} = {Dep.content.replicas}
                 THEN served \cup {[replicas |-> Dep.content.replicas,
                                    version |-> Dep.content.version]}
                 ELSE served
    /\ UNCHANGED <<pods, InfdVars, PolicyVars, queued, retry, rec>>

ReportStatus == Report(Counts) /\ UNCHANGED left

DeadlinePasses ==
    /\ Managed /\ {pods.new, pods.ready} # {Dep.content.replicas} /\ Spend("stalls")
    /\ Report([Counts EXCEPT !.failed = TRUE])

-----------------------------------------------------------------------------
(* Users and the garbage collector *)

Outdate ==
    /\ rec' = [rec EXCEPT !.ok = FALSE]
    /\ UNCHANGED <<ObjVars, PolicyVars, queued, retry, served>>

EditSpec(s) ==
    /\ infd # None /\ infd.spec # s /\ Spend("edits")
    /\ WriteInfd([infd EXCEPT !.spec = s]) /\ Outdate

DeleteInfd == infd # None /\ Spend("deletes") /\ WriteInfd(None) /\ Outdate

RecreateInfd(s) ==
    /\ infd = None /\ Spend("recreations")
    /\ WriteInfd(NewInfd(left.recreations, s)) /\ Outdate

EditPolicy(p, q) ==
    /\ policy[p] # q /\ Spend("policies")
    /\ policy' = [policy EXCEPT ![p] = q]
    /\ UNCHANGED <<policyC, InfdVars, ObjVars, queued, retry, rec, served>>

OnlyObjects == UNCHANGED <<InfdVars, PolicyVars, queued, retry, rec, served>>

CreateForeign(k) ==
    /\ obj[k] = None /\ Spend("foreign")
    /\ Write(k, [owner |-> Other, status |-> NoStatus,
                 content |-> [replicas |-> 0, version |-> Other, queue |-> None]])
    /\ OnlyObjects

RemoveObject(k) == obj[k] # None /\ Spend("removals") /\ Write(k, None) /\ OnlyObjects

ScaleDeployment(n) ==
    /\ Managed /\ Dep.content.replicas # n /\ Spend("scalings")
    /\ Write("Deployment", WithContent(Dep, [Dep.content EXCEPT !.replicas = n]))
    /\ OnlyObjects

CollectGarbage(k) ==
    /\ Wakes(obj[k])
    /\ infd = None \/ (infd # None /\ infd.uid # obj[k].owner)
    /\ Write(k, None) /\ OnlyObjects /\ UNCHANGED left

-----------------------------------------------------------------------------
Reconcile == Begin \/ SyncDeployment \/ CheckService \/ SyncService \/ WriteStatus

Delivery ==
    \/ SyncInfdC \/ TimerFires
    \/ \E k \in Kinds : SyncObjectC(k)
    \/ \E p \in Policies : SyncPolicyC(p)

Rollout == StartPod \/ StopPod \/ PodReady \/ PodLapses \/ ReportStatus \/ DeadlinePasses

Environment ==
    \/ DeleteInfd \/ \E s \in Specs : EditSpec(s) \/ RecreateInfd(s)
    \/ \E p \in Policies, q \in Queues : EditPolicy(p, q)
    \/ \E k \in Kinds : CreateForeign(k) \/ RemoveObject(k) \/ CollectGarbage(k)
    \/ \E n \in Replicas : ScaleDeployment(n)

Next == Reconcile \/ Delivery \/ CallFails \/ Crash \/ Rollout \/ Environment

Spec == Init /\ [][Next]_vars

-----------------------------------------------------------------------------
(* Properties *)

Quiet ==
    /\ rec = Idle /\ ~queued /\ ~retry /\ infdF /\ policyC = policy
    /\ \A k \in Kinds : news[k] = "none"

Granted == LET g == {policy[p] : p \in Policies} \ {None}
           IN  IF g = {} THEN {None} ELSE g

(* SetupWithManager's watches and markDegraded's requeue suffice: when     *)
(* nothing is queued, pending or undelivered, the Deployment and the       *)
(* Service are this object's and follow its spec, the queue label is one   *)
(* that a policy grants and is there exactly when one does, and the status *)
(* is what the Deployment's own status calls for.                          *)
SettledIsRight ==
    Quiet /\ infd # None =>
        /\ \A k \in Kinds : obj[k] # None /\ obj[k].owner = infd.uid
        /\ Dep.content.replicas = infd.spec.replicas
        /\ \A k \in Kinds : obj[k].content.version = infd.spec.version
        /\ Dep.content.queue \in Granted
        /\ infd.status = StatusOf(infd.spec, Dep.status)

(* The stale gate (inferencedeployment_controller.go:260-267): Ready  *)
(* for a spec that asks for replicas means that the pods have converged on *)
(* that very spec, never that the counts of an earlier one were read.      *)
ReadyWasServed ==
    infd # None /\ infd.status.phase = "Ready" /\ infd.status.observed.replicas > 0
        => infd.status.observed \in served

-----------------------------------------------------------------------------
(* What comments say and the code does not keep.                           *)

(* "This ensures a scale-down to 0 not yet observed by the Deployment does *)
(* not prematurely report Ready" (inferencedeployment_controller.go:249):  *)
(* a status that becomes Ready at zero is of a Deployment that was seen.   *)
ZeroIsObserved ==
    [][rec.at = "status" /\ infd' # infd /\ infd'.status.phase = "Ready"
          => rec.status.seen]_vars

(* "refusing to adopt" (inferencedeployment_controller.go:79): an object   *)
(* of somebody else is never made ours.                                    *)
AdoptsNothing ==
    [][\A k \in Kinds : obj[k] # None /\ obj'[k] # None
          => obj'[k].owner = obj[k].owner]_vars
=============================================================================
