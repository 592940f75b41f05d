--------------------------- MODULE GPUQuotaPolicy ---------------------------
(***************************************************************************)
(* The GPUQuotaPolicy reconciler                                           *)
(* (internal/controller/gpuquotapolicy_controller.go, kueue_quota.go).  A  *)
(* policy puts a tenant's GPU ceiling into one of two places: a            *)
(* ResourceQuota in the target namespace, or, with trainingQuota, a Kueue  *)
(* ClusterQueue and a LocalQueue named after the tenant.  Before either it *)
(* labels the namespace so that the admission guards apply there.          *)
(*                                                                         *)
(* Every read is of an informer cache that lags the API server; a reading  *)
(* and the write that follows it are one step, since a cache that moves on *)
(* in between is a cache that moves on after the write.  There is one      *)
(* worker.  A Delete carries no precondition; an Update is refused when    *)
(* the copy is not of the server's version.                                *)
(***************************************************************************)
EXTENDS Naturals

CONSTANTS Policies,     \* names of GPUQuotaPolicies, which are cluster-scoped
          Tenants,
          NamespaceOf,  \* the immutable target namespace of each policy
          Limits,       \* GPU counts
          None, Other,  \* no object; an owner or content that is not ours
          Scenarios     \* what behaviours begin with and may be disturbed by

(* edits of a spec that keep the tenant and that change it, deletions of a *)
(* policy and policies created again, objects others create under our      *)
(* names, objects removed or edited by others, Active conditions Kueue     *)
(* changes, deletions of a namespace, API calls that fail, restarts.       *)
Disturbances == {"edits", "tenants", "deletes", "recreations", "foreign",
                 "drifts", "reports", "cycles", "failures", "crashes"}

ASSUME ScenariosAssumption ==
    Scenarios \subseteq [policies : SUBSET Policies,
                         budget : [Disturbances -> Nat]]

(* The owner that is not a policy is no policy's reference.                *)
ASSUME OtherAssumption == Other \notin Policies \X Nat

VARIABLES
    policy,   \* GPUQuotaPolicies on the API server
    policyC,  \* in the informer cache
    policyF,  \* whether the cached copy is of the server's version
    obj,      \* ResourceQuotas, ClusterQueues and LocalQueues
    objC,
    objF,
    wake,     \* policies the undelivered events of each object will wake
    ns,       \* namespaces: absent, plain, or carrying the guards' label
    nsC,
    queue,    \* policies in the work queue
    retry,    \* policies with a RequeueAfter pending
    rec,      \* the reconcile in progress
    recycled, \* history: namespaces that have been deleted
    left      \* what is left of the scenario's budget

vars == <<policy, policyC, policyF, obj, objC, objF, wake, ns, nsC, queue, retry,
          rec, recycled, left>>
PolicyVars == <<policy, policyC, policyF>>
ObjVars == <<obj, objC, objF, wake>>
NsVars == <<ns, nsC, recycled>>

Namespaces == {NamespaceOf[p] : p \in Policies}

(* quotaName, kueueQueueName *)
ResourceQuota(p) == <<"ResourceQuota", p>>
ClusterQueue(t) == <<"ClusterQueue", t>>
LocalQueue(t, n) == <<"LocalQueue", t, n>>

Objects == {ResourceQuota(p) : p \in Policies}
           \cup {ClusterQueue(t) : t \in Tenants}
           \cup {LocalQueue(t, n) : t \in Tenants, n \in Namespaces}

(* Whether object o lives in namespace n. *)
Inside(o, n) ==
    \/ o[1] = "ResourceQuota" /\ NamespaceOf[o[2]] = n
    \/ o[1] = "LocalQueue" /\ o[3] = n

Specs == [tenant : Tenants, training : BOOLEAN, gpus : Limits]
Uids == Nat
Owners == (Policies \X Uids) \cup {Other}

(* What the controller manages of an object: a GPU count, or the queue a   *)
(* LocalQueue points to; Other is any other content.  active is the Active *)
(* condition Kueue reports of a ClusterQueue.                              *)
Object == [owner : Owners, content : Limits \cup Tenants \cup {Other},
           active : BOOLEAN]

(* A field of a status that has not been written, or that is taken away.   *)
Unset == ""

Status == [phase : {Unset, "Synced", "Degraded"}, observed : Specs \cup {None},
           admitting : {Unset, "True", "False"}]

Policy == [uid : Uids, spec : Specs, deleting : BOOLEAN,
           finalizer : BOOLEAN, status : Status]

(* What is absent is neither an object nor a policy.                       *)
ASSUME AbsentAssumption == None \notin Object \cup Policy

NewPolicy(i, s) ==
    [uid |-> i, spec |-> s, deleting |-> FALSE, finalizer |-> FALSE,
     status |-> [phase |-> Unset, observed |-> None, admitting |-> Unset]]

(* A reconcile of policy p: the step it is at, its copy of the policy, and *)
(* whether that copy is of the server's version.                           *)
Idle == [at |-> "idle", p |-> None, copy |-> None, ok |-> FALSE]
Steps == {"idle", "finalize", "enforce", "quota", "clusterQueue", "localQueue",
          "dropLocalQueue", "dropClusterQueue", "dropFinalizer", "status"}

TypeOK ==
    /\ policy \in [Policies -> Policy \cup {None}]
    /\ policyC \in [Policies -> Policy \cup {None}]
    /\ policyF \in [Policies -> BOOLEAN]
    /\ obj \in [Objects -> Object \cup {None}]
    /\ objC \in [Objects -> Object \cup {None}]
    /\ objF \in [Objects -> BOOLEAN]
    /\ wake \in [Objects -> SUBSET Policies]
    /\ ns \in [Namespaces -> {"absent", "plain", "enforced"}]
    /\ nsC \in [Namespaces -> {"absent", "plain", "enforced"}]
    /\ queue \subseteq Policies /\ retry \subseteq Policies
    /\ rec \in [at : Steps, p : Policies \cup {None},
               copy : Policy \cup {None}, ok : BOOLEAN]
    /\ recycled \subseteq Namespaces
    /\ left \in [Disturbances -> Nat]

Init ==
    /\ \E sc \in Scenarios, s \in [Policies -> Specs] :
          /\ policy = [p \in Policies |-> IF p \in sc.policies
                                          THEN NewPolicy(0, s[p]) ELSE None]
          /\ left = sc.budget
    /\ policyC = policy /\ policyF = [p \in Policies |-> TRUE]
    /\ obj = [o \in Objects |-> None] /\ objC = obj
    /\ objF = [o \in Objects |-> TRUE] /\ wake = [o \in Objects |-> {}]
    /\ ns = [n \in Namespaces |-> "plain"] /\ nsC = ns
    /\ queue = Policies /\ retry = {} /\ rec = Idle
    /\ recycled = {}

-----------------------------------------------------------------------------
(* Writes to the API server *)

(* A write of policy p by anyone makes the copies out of date. *)
WritePolicy(p, v) ==
    /\ policy' = [policy EXCEPT ![p] = v]
    /\ policyF' = [policyF EXCEPT ![p] = FALSE]
    /\ UNCHANGED policyC

(* Owns: the event of a write wakes the policies that the owner, before or *)
(* after, names.                                                           *)
OwnersOf(S) == {p \in Policies : \E o \in S :
                   o # None /\ o.owner # Other /\ o.owner[1] = p}

WriteObjects(f) ==
    /\ obj' = [o \in Objects |-> IF o \in DOMAIN f THEN f[o] ELSE obj[o]]
    /\ objF' = [o \in Objects |-> objF[o] /\ o \notin DOMAIN f]
    /\ wake' = [o \in Objects |-> IF o \in DOMAIN f
                                  THEN wake[o] \cup OwnersOf({obj[o], f[o]})
                                  ELSE wake[o]]
    /\ UNCHANGED objC

WriteObject(o, v) == WriteObjects([x \in {o} |-> v])

Spend(b) == left[b] > 0 /\ left' = [left EXCEPT ![b] = @ - 1]

(* How a step of the reconcile ends. *)
GoTo(step) == rec' = [rec EXCEPT !.at = step] /\ UNCHANGED <<queue, retry>>
Return == rec' = Idle /\ UNCHANGED <<queue, retry>>
ReturnError == rec' = Idle /\ queue' = queue \cup {rec.p} /\ UNCHANGED retry
RequeueAfter == rec' = Idle /\ retry' = retry \cup {rec.p} /\ UNCHANGED queue

-----------------------------------------------------------------------------
(* The reconciler *)

IsControlledBy(o) == o # None /\ o.owner = <<rec.p, rec.copy.uid>>

(* A status write of the reconcile's copy, and how the reconcile ends when *)
(* it succeeds or was not needed.                                          *)
UpdateStatus(s, End) ==
    \/ s = rec.copy.status /\ UNCHANGED PolicyVars /\ End
    \/ /\ s # rec.copy.status /\ rec.ok
       /\ WritePolicy(rec.p, [rec.copy EXCEPT !.status = s]) /\ End
    \/ s # rec.copy.status /\ ~rec.ok /\ UNCHANGED PolicyVars /\ ReturnError

(* Mutant of markDegraded: no requeue. *)
markDegradedForGood ==
    UpdateStatus([rec.copy.status EXCEPT !.phase = "Degraded",
                                         !.observed = rec.copy.spec],
                 Return)

markDegraded ==
    UpdateStatus([rec.copy.status EXCEPT !.phase = "Degraded",
                                         !.observed = rec.copy.spec],
                 RequeueAfter)

(* The reconcile takes policy p off the queue and reads it.  Finalizers    *)
(* are written from here; the rest follows step by step.                   *)
Begin(p) ==
    /\ rec = Idle /\ p \in queue
    /\ LET c == policyC[p] IN
       \/ /\ \/ c = None
             \/ c # None /\ c.deleting /\ ~c.finalizer
          /\ queue' = queue \ {p} /\ UNCHANGED <<PolicyVars, rec>>
       \/ /\ c # None /\ ~c.deleting /\ ~c.finalizer
          /\ \/ /\ policyF[p] /\ WritePolicy(p, [c EXCEPT !.finalizer = TRUE])
                /\ queue' = queue \ {p}
             \/ ~policyF[p] /\ UNCHANGED <<PolicyVars, queue>>
          /\ UNCHANGED rec
       \/ /\ c # None /\ c.finalizer
          /\ rec' = [at |-> IF c.deleting THEN "finalize" ELSE "enforce",
                     p |-> p, copy |-> c, ok |-> policyF[p]]
          /\ queue' = queue \ {p} /\ UNCHANGED PolicyVars
    /\ UNCHANGED <<ObjVars, NsVars, retry, left>>

(* Delete o if the cached copy is this policy's, whatever is there now. *)
Delete(o) ==
    IF IsControlledBy(objC[o]) THEN WriteObject(o, None) ELSE UNCHANGED ObjVars

Finalize ==
    /\ rec.at = "finalize"
    /\ Delete(ResourceQuota(rec.p)) /\ GoTo("dropLocalQueue")
    /\ UNCHANGED <<PolicyVars, NsVars, left>>

DropFinalizer ==
    /\ rec.at = "dropFinalizer"
    /\ \/ rec.ok /\ WritePolicy(rec.p, None) /\ Return
       \/ ~rec.ok /\ UNCHANGED PolicyVars /\ ReturnError
    /\ UNCHANGED <<ObjVars, NsVars, left>>

(* Mutant of Enforce: the label is left for later. *)
EnforceLater ==
    /\ rec.at = "enforce"
    /\ GoTo("quota")
    /\ UNCHANGED <<PolicyVars, NsVars, ObjVars, left>>

(* ensureNamespaceEnforced *)
Enforce ==
    /\ rec.at = "enforce"
    /\ LET n == NamespaceOf[rec.p] IN
       \/ nsC[n] = "enforced" /\ GoTo("quota") /\ UNCHANGED <<PolicyVars, ns>>
       \/ /\ nsC[n] = "plain" /\ ns[n] # "absent"
          /\ ns' = [ns EXCEPT ![n] = "enforced"]
          /\ GoTo("quota") /\ UNCHANGED PolicyVars
       \/ /\ nsC[n] = "absent" \/ (nsC[n] = "plain" /\ ns[n] = "absent")
          /\ markDegraded /\ UNCHANGED ns
    /\ UNCHANGED <<ObjVars, nsC, recycled, left>>

(* Create o, correct it, or leave it alone, then go to the next step.      *)
Ensure(o, content, next) ==
    LET c == objC[o]
        home == {n \in Namespaces : Inside(o, n)}
        fits == obj[o] = None /\ \A n \in home : ns[n] # "absent" IN
    \/ /\ c = None /\ fits
       /\ WriteObject(o, [owner |-> <<rec.p, rec.copy.uid>>,
                          content |-> content, active |-> FALSE])
       /\ GoTo(next) /\ UNCHANGED PolicyVars
    \/ /\ c = None /\ obj[o] # None
       /\ RequeueAfter /\ UNCHANGED <<PolicyVars, ObjVars>>
    \/ /\ c = None /\ obj[o] = None /\ ~fits
       /\ ReturnError /\ UNCHANGED <<PolicyVars, ObjVars>>
    \/ /\ c # None /\ ~IsControlledBy(c)
       /\ markDegraded /\ UNCHANGED ObjVars
    \/ /\ IsControlledBy(c) /\ c.content = content
       /\ GoTo(next) /\ UNCHANGED <<PolicyVars, ObjVars>>
    \/ /\ IsControlledBy(c) /\ c.content # content /\ objF[o]
       /\ WriteObject(o, [c EXCEPT !.content = content])
       /\ GoTo(next) /\ UNCHANGED PolicyVars
    \/ /\ IsControlledBy(c) /\ c.content # content /\ ~objF[o]
       /\ ReturnError /\ UNCHANGED <<PolicyVars, ObjVars>>

(* syncNamespaceResourceQuota *)
SyncQuota ==
    /\ rec.at = "quota"
    /\ \/ /\ rec.copy.spec.training
          /\ Delete(ResourceQuota(rec.p)) /\ GoTo("clusterQueue")
          /\ UNCHANGED PolicyVars
       \/ /\ ~rec.copy.spec.training
          /\ Ensure(ResourceQuota(rec.p), rec.copy.spec.gpus, "dropLocalQueue")
    /\ UNCHANGED <<NsVars, left>>

(* syncKueueTrainingQuota *)
SyncClusterQueue ==
    /\ rec.at = "clusterQueue"
    /\ Ensure(ClusterQueue(rec.copy.spec.tenant), rec.copy.spec.gpus, "localQueue")
    /\ UNCHANGED <<NsVars, left>>

SyncLocalQueue ==
    /\ rec.at = "localQueue"
    /\ Ensure(LocalQueue(rec.copy.spec.tenant, NamespaceOf[rec.p]),
              rec.copy.spec.tenant, "status")
    /\ UNCHANGED <<NsVars, left>>

(* deleteKueueQuota *)
DropLocalQueue ==
    /\ rec.at = "dropLocalQueue"
    /\ Delete(LocalQueue(rec.copy.spec.tenant, NamespaceOf[rec.p]))
    /\ GoTo("dropClusterQueue") /\ UNCHANGED <<PolicyVars, NsVars, left>>

DropClusterQueue ==
    /\ rec.at = "dropClusterQueue"
    /\ Delete(ClusterQueue(rec.copy.spec.tenant))
    /\ GoTo(IF rec.copy.deleting THEN "dropFinalizer" ELSE "status")
    /\ UNCHANGED <<PolicyVars, NsVars, left>>

(* admittingCondition: Kueue's word, or False when there is none to read. *)
admittingCondition ==
    LET q == objC[ClusterQueue(rec.copy.spec.tenant)] IN
    IF q # None /\ q.active THEN "True" ELSE "False"

SyncStatus ==
    /\ rec.at = "status"
    /\ UpdateStatus([phase |-> "Synced", observed |-> rec.copy.spec,
                     admitting |-> IF rec.copy.spec.training
                                   THEN admittingCondition ELSE Unset],
                    Return)
    /\ UNCHANGED <<ObjVars, NsVars, left>>

-----------------------------------------------------------------------------
(* Caches, timers, failures *)

SyncPolicyC(p) ==
    /\ ~policyF[p]
    /\ policyC' = [policyC EXCEPT ![p] = policy[p]]
    /\ policyF' = [policyF EXCEPT ![p] = TRUE]
    /\ queue' = queue \cup {p}
    /\ UNCHANGED <<policy, ObjVars, NsVars, retry, rec, left>>

(* A watch delivers every event; the cache ends up at the last of them. *)
SyncObjectC(o) ==
    /\ ~objF[o]
    /\ objC' = [objC EXCEPT ![o] = obj[o]]
    /\ objF' = [objF EXCEPT ![o] = TRUE]
    /\ queue' = queue \cup wake[o] /\ wake' = [wake EXCEPT ![o] = {}]
    /\ UNCHANGED <<obj, PolicyVars, NsVars, retry, rec, left>>

(* Namespaces are read through a cache too, but nothing watches them. *)
SyncNamespaceC(n) ==
    /\ nsC[n] # ns[n]
    /\ nsC' = [nsC EXCEPT ![n] = ns[n]]
    /\ UNCHANGED <<ns, recycled, PolicyVars, ObjVars, queue, retry, rec, left>>

TimerFires(p) ==
    /\ p \in retry
    /\ retry' = retry \ {p} /\ queue' = queue \cup {p}
    /\ UNCHANGED <<PolicyVars, ObjVars, NsVars, rec, left>>

(* A call fails for a reason of its own: the reconcile ends in an error. *)
CallFails ==
    /\ rec # Idle /\ Spend("failures")
    /\ ReturnError /\ UNCHANGED <<PolicyVars, ObjVars, NsVars>>

(* The operator restarts and lists everything anew. *)
Crash ==
    /\ Spend("crashes")
    /\ rec' = Idle /\ retry' = {} /\ queue' = Policies
    /\ policyC' = policy /\ policyF' = [p \in Policies |-> TRUE]
    /\ objC' = obj /\ objF' = [o \in Objects |-> TRUE] /\ nsC' = ns
    /\ wake' = [o \in Objects |-> {}]
    /\ UNCHANGED <<policy, obj, ns, recycled>>

-----------------------------------------------------------------------------
(* Users, Kueue, the namespace controller and the garbage collector.  A    *)
(* write of the policy being reconciled makes the reconcile's copy old.    *)

Outdate(p) ==
    /\ rec' = IF rec.p = p THEN [rec EXCEPT !.ok = FALSE] ELSE rec
    /\ UNCHANGED <<ObjVars, NsVars, queue, retry>>

EditSpec(p, s) ==
    /\ policy[p] # None /\ policy[p].spec # s
    /\ Spend(IF s.tenant = policy[p].spec.tenant THEN "edits" ELSE "tenants")
    /\ WritePolicy(p, [policy[p] EXCEPT !.spec = s]) /\ Outdate(p)

DeletePolicy(p) ==
    /\ policy[p] # None /\ ~policy[p].deleting
    /\ Spend("deletes")
    /\ WritePolicy(p, IF policy[p].finalizer
                      THEN [policy[p] EXCEPT !.deleting = TRUE] ELSE None)
    /\ Outdate(p)

RecreatePolicy(p, s) ==
    /\ policy[p] = None /\ Spend("recreations")
    /\ WritePolicy(p, NewPolicy(left.recreations, s))
    /\ Outdate(p)

OnlyObjects == UNCHANGED <<PolicyVars, NsVars, queue, retry, rec>>

CreateForeign(o) ==
    /\ obj[o] = None /\ \A n \in Namespaces : Inside(o, n) => ns[n] # "absent"
    /\ Spend("foreign")
    /\ WriteObject(o, [owner |-> Other, content |-> Other, active |-> FALSE])
    /\ OnlyObjects

RemoveObject(o) ==
    /\ obj[o] # None /\ Spend("drifts")
    /\ WriteObject(o, None) /\ OnlyObjects

Drift(o) ==
    /\ obj[o] # None /\ obj[o].content # Other /\ Spend("drifts")
    /\ WriteObject(o, [obj[o] EXCEPT !.content = Other])
    /\ OnlyObjects

(* Kueue finds a ClusterQueue able to admit, or no longer so. *)
KueueReports(o) ==
    /\ o[1] = "ClusterQueue" /\ obj[o] # None /\ Spend("reports")
    /\ WriteObject(o, [obj[o] EXCEPT !.active = ~@]) /\ OnlyObjects

Orphaned(o) ==
    /\ obj[o] # None /\ obj[o].owner # Other
    /\ LET p == policy[obj[o].owner[1]] IN
       p = None \/ (p # None /\ p.uid # obj[o].owner[2])

CollectGarbage(o) ==
    /\ Orphaned(o)
    /\ WriteObject(o, None) /\ OnlyObjects /\ UNCHANGED left

DeleteNamespace(n) ==
    /\ ns[n] # "absent" /\ Spend("cycles")
    /\ ns' = [ns EXCEPT ![n] = "absent"] /\ recycled' = recycled \cup {n}
    /\ WriteObjects([o \in {x \in Objects : Inside(x, n) /\ obj[x] # None} |-> None])
    /\ UNCHANGED <<nsC, PolicyVars, queue, retry, rec>>

CreateNamespace(n) ==
    /\ ns[n] = "absent"
    /\ ns' = [ns EXCEPT ![n] = "plain"]
    /\ UNCHANGED <<nsC, recycled, PolicyVars, ObjVars, queue, retry, rec, left>>

-----------------------------------------------------------------------------

Reconcile ==
    \/ \E p \in Policies : Begin(p)
    \/ Finalize \/ DropFinalizer \/ Enforce \/ SyncQuota \/ SyncClusterQueue
    \/ SyncLocalQueue \/ DropLocalQueue \/ DropClusterQueue \/ SyncStatus

Delivery ==
    \/ \E p \in Policies : SyncPolicyC(p) \/ TimerFires(p)
    \/ \E o \in Objects : SyncObjectC(o)
    \/ \E n \in Namespaces : SyncNamespaceC(n)

Environment ==
    \/ \E p \in Policies : \/ DeletePolicy(p)
                           \/ \E s \in Specs : EditSpec(p, s) \/ RecreatePolicy(p, s)
    \/ \E o \in Objects : \/ CreateForeign(o) \/ RemoveObject(o) \/ Drift(o)
                          \/ KueueReports(o) \/ CollectGarbage(o)
    \/ \E n \in Namespaces : DeleteNamespace(n) \/ CreateNamespace(n)

Next == Reconcile \/ Delivery \/ CallFails \/ Crash \/ Environment

Spec == Init /\ [][Next]_vars

-----------------------------------------------------------------------------
(* Properties *)

Owned(p) == {o \in Objects : obj[o] # None /\ obj[o].owner = <<p, policy[p].uid>>}

Wanted(p) ==
    LET s == policy[p].spec IN
    IF s.training THEN {ClusterQueue(s.tenant), LocalQueue(s.tenant, NamespaceOf[p])}
    ELSE {ResourceQuota(p)}

Content(p, o) == IF o[1] = "LocalQueue" THEN o[2] ELSE policy[p].spec.gpus

(* Policy p, its objects and its status agree. *)
Right(p) ==
    policy[p] # None =>
       LET s == policy[p].spec IN
       /\ ~policy[p].deleting
       /\ policy[p].status.phase = "Synced" /\ policy[p].status.observed = s
       /\ Owned(p) = Wanted(p)
       /\ \A o \in Wanted(p) : obj[o].content = Content(p, o)
       /\ policy[p].status.admitting =
             IF ~s.training THEN Unset
             ELSE IF obj[ClusterQueue(s.tenant)].active THEN "True" ELSE "False"

(* Nothing is left to be done for anyone, but for the timers in T. *)
Quiet(T) ==
    /\ rec = Idle /\ queue = {} /\ retry \subseteq T
    /\ \A p \in Policies : policyF[p]
    /\ \A o \in Objects : objF[o]

(* The watches and requeues of SetupWithManager and markDegraded suffice:  *)
(* when nothing is queued, pending or undelivered for policy p, the one    *)
(* ceiling its spec asks for exists with the right content, the other does *)
(* not, and the status, Kueue's verdict included, says so.                 *)
SettledIsRight == \A p \in Policies : Quiet(Policies \ {p}) => Right(p)

(* "Turn the admission guards on for this namespace BEFORE syncing any     *)
(* ceiling into it" (gpuquotapolicy_controller.go:152): unless its         *)
(* namespace has been deleted, every ceiling of a policy is guarded.       *)
CeilingIsGuarded ==
    \A p \in Policies :
       policy[p] # None /\ Owned(p) # {} /\ NamespaceOf[p] \notin recycled
          => ns[NamespaceOf[p]] = "enforced"

-----------------------------------------------------------------------------
(* What comments and documents say and the code does not keep.             *)

(* A policy's deletes (Reconcile, syncNamespaceResourceQuota,              *)
(* deleteKueueQuota) hit objects it controls: "deletion only ever removes  *)
(* a queue this policy controls" (kueue_quota.go:194), although the check  *)
(* is made on a cached copy and the Delete carries no UID.                 *)
DeletesOnlyOwn ==
    [][\A o \in Objects :
          (rec # Idle /\ rec' # rec /\ obj[o] # None /\ obj'[o] = None)
             => obj[o].owner = <<rec.p, rec.copy.uid>>]_vars

(* docs/02_CONTROL_PLANE_API.md:30, "The same GPUs are never counted by    *)
(* both mechanisms": when all is quiet a policy does not hold a            *)
(* ResourceQuota and a ClusterQueue at once.                               *)
CountedOnce ==
    \A p \in Policies :
       Quiet({}) /\ policy[p] # None =>
          ~ {"ResourceQuota", "ClusterQueue"} \subseteq {o[1] : o \in Owned(p)}

(* admittingCondition's comment, "what must not happen is the condition    *)
(* silently staying True from a previous pass"                             *)
(* (gpuquotapolicy_controller.go:340): with every event delivered and      *)
(* every pass made, True means that the policy's queue is there, active.   *)
AdmittingIsCurrent ==
    \A p \in Policies :
       Quiet(Policies) /\ policy[p] # None /\ policy[p].status.admitting = "True"
          => LET q == obj[ClusterQueue(policy[p].spec.tenant)] IN
             q # None /\ q.active

(* A policy must not be "a policy that reads Synced while the bypass it    *)
(* was written to close is open" (gpuquotapolicy_controller.go:162): when  *)
(* all is quiet, Synced means that the namespace carries the label.        *)
SyncedIsGuarded ==
    \A p \in Policies :
       Quiet({}) /\ nsC = ns /\ policy[p] # None
         /\ policy[p].status.phase = "Synced"
          => ns[NamespaceOf[p]] = "enforced"
=============================================================================
