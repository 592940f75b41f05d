----------------------------- MODULE NodeHealth -----------------------------
(***************************************************************************)
(* The NodeHealth reconciler (internal/controller/nodehealth_controller.go *)
(* and reconcile_helpers.go): it quarantines a node that is not ready with *)
(* a taint of its own and mirrors the node's readiness into the status of  *)
(* every NodeHealth that names the node.                                   *)
(*                                                                         *)
(* NodeHealths and the Node are read from informer caches.  Updates of a   *)
(* NodeHealth are refused when based on an older version; the patch of the *)
(* Node carries no version.  It is a JSON merge patch, in which a list     *)
(* that differs is sent whole, so the taints of the copy it was computed   *)
(* from replace the server's.                                              *)
(***************************************************************************)
EXTENDS Integers, FiniteSets

CONSTANTS Names,        \* NodeHealths that name the node (which cannot change)
          OtherTaints,  \* taints of other actors
          Budgets       \* the disturbances a behaviour may bring, by scenario

(* flips of the node's readiness, taints other actors add or remove,       *)
(* deletions of the Node and of a NodeHealth, restarts of the operator.    *)
Disturbances == {"flips", "taintings", "vanish", "deletes", "crashes"}

ASSUME BudgetsAssumption == Budgets \subseteq [Disturbances -> Nat]

VARIABLES
    node,      \* the Node on the API server
    nodeC,     \* the copy in the informer cache
    nodeFresh, \* whether that is the server's version
    nh,        \* the NodeHealths on the API server
    nhC,       \* the copies in the informer cache
    nhFresh,
    queue,     \* names in the work queue
    worker,    \* the reconcile between its patch and its status write
    enforced,  \* history: the managed taint has been on the Node
    left       \* what is left of the scenario's budget

systemVars == <<node, nodeC, nodeFresh, nh, nhC, nhFresh, queue, worker, enforced,
               left>>
NodeVars == <<node, nodeC, nodeFresh>>
HealthVars == <<nh, nhC, nhFresh>>

(* A name or a phase that is not set.                                      *)
Unset == ""

Phases == {Unset, "Pending", "Ready", "Quarantine"}

NodeType == [exists : BOOLEAN, ready : BOOLEAN, unhealthy : BOOLEAN,
             others : SUBSET OtherTaints]

NoNode == [exists |-> FALSE, ready |-> FALSE, unhealthy |-> FALSE,
           others |-> {}]

Health == [exists : BOOLEAN, deleting : BOOLEAN, finalizer : BOOLEAN,
           phase : Phases]

NoHealth == [exists |-> FALSE, deleting |-> FALSE, finalizer |-> FALSE,
             phase |-> Unset]
NewHealth == [NoHealth EXCEPT !.exists = TRUE]

Idle == [name |-> Unset, phase |-> Unset]

HealthTypeOK ==
    /\ node \in NodeType /\ nodeC \in NodeType /\ nodeFresh \in BOOLEAN
    /\ nh \in [Names -> Health] /\ nhC \in [Names -> Health]
    /\ nhFresh \in [Names -> BOOLEAN]
    /\ queue \in SUBSET Names
    /\ worker \in [name : Names \cup {Unset}, phase : Phases]
    /\ enforced \in BOOLEAN
    /\ left \in [Disturbances -> Nat]

HealthInit ==
    /\ node = [NoNode EXCEPT !.exists = TRUE, !.ready = TRUE] /\ nodeC = node
    /\ nodeFresh = TRUE
    /\ nh = [n \in Names |-> NewHealth] /\ nhC = nh
    /\ nhFresh = [n \in Names |-> TRUE]
    /\ queue = Names /\ worker = Idle /\ enforced = FALSE
    /\ left \in Budgets

-----------------------------------------------------------------------------
(* Writes *)

PatchNode(copy) ==
    /\ node.exists
    /\ node' = [node EXCEPT !.unhealthy = copy.unhealthy,
                            !.others = copy.others]
    /\ nodeFresh' = (nodeFresh /\ node' = node)
    /\ enforced' = (enforced \/ copy.unhealthy)
    /\ UNCHANGED nodeC

KeepNode == UNCHANGED <<node, nodeC, nodeFresh, enforced>>

WriteHealth(n, h) ==
    /\ nh' = [nh EXCEPT ![n] = h]
    /\ nhFresh' = [nhFresh EXCEPT ![n] = FALSE]
    /\ UNCHANGED nhC

(* An Update of the cached copy of n; when it is refused n is retried. *)
UpdateHealth(n, h) ==
    \/ nhFresh[n] /\ WriteHealth(n, h) /\ UNCHANGED queue
    \/ ~nhFresh[n] /\ UNCHANGED HealthVars /\ queue' = queue \cup {n}

(* The same from the first step of a reconcile, which took n off the queue. *)
UpdatePopped(n, h) ==
    \/ nhFresh[n] /\ WriteHealth(n, h) /\ queue' = queue \ {n}
    \/ ~nhFresh[n] /\ UNCHANGED <<HealthVars, queue>>

-----------------------------------------------------------------------------
(* The reconciler *)

(* ensureUnhealthyTaint and removeUnhealthyTaint, on the cached Node. *)
Tainted(copy, t) == [copy EXCEPT !.unhealthy = t]

DesiredPhase(copy) ==
    IF ~copy.exists THEN "Pending"
    ELSE IF copy.ready THEN "Ready" ELSE "Quarantine"

(* Mutant of MustPatch: only when the phase changes too. *)
MustPatchOnTransition(n) ==
    /\ nodeC.exists
    /\ nhC[n].phase # DesiredPhase(nodeC) \/ nhC[n].deleting
    /\ nodeC.unhealthy # (~nhC[n].deleting /\ DesiredPhase(nodeC) = "Quarantine")

(* Whether the cached Node has to be patched: its taint is not what its    *)
(* readiness, or the deletion of the NodeHealth, asks for.                 *)
MustPatch(n) ==
    /\ nodeC.exists
    /\ nodeC.unhealthy # (~nhC[n].deleting /\ DesiredPhase(nodeC) = "Quarantine")

(* Mutant of Finalize: waits for the Node to be there. *)
FinalizeNeedsNode(n) ==
    /\ nhC[n].finalizer /\ nodeC.exists
    /\ IF MustPatch(n)
       THEN PatchNode(Tainted(nodeC, FALSE)) ELSE KeepNode
    /\ UpdatePopped(n, NoHealth)

(* Deletion: remove our taint, then the finalizer.  One step: there is one *)
(* worker, nothing is read in between, and a restart in between leaves     *)
(* what a refused Update leaves.                                           *)
Finalize(n) ==
    \/ /\ nhC[n].finalizer
       /\ IF MustPatch(n)
          THEN PatchNode(Tainted(nodeC, FALSE)) ELSE KeepNode
       /\ UpdatePopped(n, NoHealth)
    \/ /\ ~nhC[n].finalizer
       /\ queue' = queue \ {n} /\ KeepNode /\ UNCHANGED HealthVars

(* Mutant of Enforce: the status is written first. *)
EnforceClaimsFirst(n) ==
    LET p == DesiredPhase(nodeC)
    IN  /\ KeepNode
        /\ UpdatePopped(n, [nhC[n] EXCEPT !.phase = p])
        /\ worker' = [name |-> n, phase |-> p]

(* Observe the node and enforce the taint; the status comes after it. *)
Enforce(n) ==
    LET p == DesiredPhase(nodeC)
    IN  /\ IF MustPatch(n) THEN PatchNode(Tainted(nodeC, p = "Quarantine"))
                           ELSE KeepNode
        /\ worker' = [name |-> n, phase |-> p]
        /\ queue' = queue \ {n}
        /\ UNCHANGED HealthVars

(* The patch of a Node that is gone is an error: nothing else happens. *)
PatchFails(n) ==
    /\ nhC[n].exists /\ nhC[n].finalizer /\ MustPatch(n) /\ ~node.exists
    /\ KeepNode /\ UNCHANGED <<HealthVars, queue, worker>>

ReconcileHealth(n) ==
    /\ worker = Idle /\ n \in queue
    /\ \/ /\ ~nhC[n].exists
          /\ queue' = queue \ {n}
          /\ KeepNode /\ UNCHANGED <<HealthVars, worker>>
       \/ /\ nhC[n].exists /\ nhC[n].deleting
          /\ Finalize(n) /\ UNCHANGED worker
       \/ /\ nhC[n].exists /\ ~nhC[n].deleting /\ ~nhC[n].finalizer
          /\ UpdatePopped(n, [nhC[n] EXCEPT !.finalizer = TRUE])
          /\ KeepNode /\ UNCHANGED worker
       \/ /\ nhC[n].exists /\ ~nhC[n].deleting /\ nhC[n].finalizer
          /\ Enforce(n)
       \/ PatchFails(n)
    /\ UNCHANGED left

(* The status write, when the status changes.  The copy is the one read    *)
(* before the patch: SyncHealth leaves it in place until here, as if the   *)
(* cache had been that much later.                                         *)
WriteStatus ==
    /\ worker # Idle
    /\ worker' = Idle
    /\ LET n == worker.name IN
       \/ /\ nhC[n].phase = worker.phase
          /\ UNCHANGED <<HealthVars, queue>>
       \/ /\ nhC[n].phase # worker.phase
          /\ UpdateHealth(n, [nhC[n] EXCEPT !.phase = worker.phase])
    /\ UNCHANGED <<NodeVars, enforced, left>>

Operator == (\E n \in Names : ReconcileHealth(n)) \/ WriteStatus

Spend(b) == left[b] > 0 /\ left' = [left EXCEPT ![b] = @ - 1]

(* A restart: caches are listed again and everything is queued. *)
Crash ==
    /\ Spend("crashes")
    /\ nodeC' = node /\ nodeFresh' = TRUE
    /\ nhC' = nh /\ nhFresh' = [n \in Names |-> TRUE]
    /\ queue' = Names /\ worker' = Idle
    /\ UNCHANGED <<node, nh, enforced>>

-----------------------------------------------------------------------------
(* Watches *)

(* mapNodeToNodeHealth: every NodeHealth of the index. *)
SyncNode ==
    /\ ~nodeFresh
    /\ nodeC' = node /\ nodeFresh' = TRUE
    /\ queue' = queue \cup {n \in Names : nhC[n].exists}
    /\ UNCHANGED <<node, HealthVars, worker, enforced, left>>

SyncHealth(n) ==
    /\ ~nhFresh[n] /\ worker.name # n
    /\ nhC' = [nhC EXCEPT ![n] = nh[n]]
    /\ nhFresh' = [nhFresh EXCEPT ![n] = TRUE]
    /\ queue' = queue \cup {n}
    /\ UNCHANGED <<NodeVars, nh, worker, enforced, left>>

-----------------------------------------------------------------------------
(* The cluster *)

NodeWith(new) ==
    /\ node' = new /\ nodeFresh' = FALSE
    /\ UNCHANGED <<nodeC, HealthVars, queue, worker, enforced>>

Flip ==
    /\ Spend("flips") /\ node.exists
    /\ NodeWith([node EXCEPT !.ready = ~@])

OtherActor ==
    /\ Spend("taintings") /\ node.exists
    /\ \E t \in OtherTaints :
           NodeWith([node EXCEPT !.others = IF t \in @ THEN @ \ {t}
                                            ELSE @ \cup {t}])

Vanish == Spend("vanish") /\ node.exists /\ NodeWith(NoNode)

Join ==
    /\ ~node.exists
    /\ NodeWith([NoNode EXCEPT !.exists = TRUE, !.ready = TRUE])
    /\ UNCHANGED left

Delete(n) ==
    /\ Spend("deletes") /\ nh[n].exists /\ ~nh[n].deleting
    /\ WriteHealth(n, IF nh[n].finalizer THEN [nh[n] EXCEPT !.deleting = TRUE]
                                         ELSE NoHealth)
    /\ UNCHANGED <<NodeVars, queue, worker, enforced>>

HealthNext ==
    \/ Operator \/ Crash \/ SyncNode \/ (\E n \in Names : SyncHealth(n))
    \/ Flip \/ OtherActor \/ Vanish \/ Join \/ \E n \in Names : Delete(n)

HealthSpec == HealthInit /\ [][HealthNext]_systemVars

(* The queue is served without starving a name, and watches deliver       *)
(* (strongly: SyncHealth waits for the worker in this model only).        *)
HealthFairSpec ==
    /\ HealthSpec
    /\ WF_systemVars(WriteStatus) /\ WF_systemVars(SyncNode)
    /\ \A n \in Names : SF_systemVars(ReconcileHealth(n)) /\ SF_systemVars(SyncHealth(n))

-----------------------------------------------------------------------------
(* The status claims no quarantine that was not applied: the taint is put  *)
(* on the Node before the status says so, also across restarts             *)
(* (nodehealth_controller.go:125).                                         *)
QuarantineWasEnforced ==
    (\E n \in Names : nh[n].phase = "Quarantine") => enforced

(* Once the cluster is quiet a Node that some NodeHealth watches carries   *)
(* the taint exactly while it is not ready, and each status agrees,        *)
(* whatever was read late and whoever removed the taint.                   *)
Agrees ==
    \A n \in Names : nh[n].exists =>
        /\ nh[n].phase = DesiredPhase(node)
        /\ node.exists => (node.unhealthy <=> ~node.ready)

QuarantineConverges == <>[]Agrees

(* A deleted NodeHealth is released, whatever the state of its Node.       *)
DeletionCompletes == \A n \in Names : nh[n].deleting ~> ~nh[n].exists

(* "Other taints are left untouched" (reconcile_helpers.go:154).           *)
OtherTaintsUntouched ==
    [][Operator => node'.others = node.others]_systemVars

(* "the taint is removed when the node recovers or the NodeHealth is       *)
(* deleted" (nodehealth_controller.go:51).                                 *)
DeletionRemovesTaint == (\A n \in Names : ~nh[n].exists) => ~node.unhealthy
=============================================================================
