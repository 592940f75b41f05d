------------------------ MODULE GPUQuotaPolicyProofs ------------------------
(***************************************************************************)
(* Proofs about GPUQuotaPolicy for any number of policies, tenants and     *)
(* namespaces and any disturbances: no ceiling exists outside the          *)
(* admission guards, however late a cache is and wherever a reconcile      *)
(* stops, and a policy that nothing is left to be done for is right.       *)
(***************************************************************************)
EXTENDS GPUQuotaPolicy, TLAPS

(* The parts of the type invariant.                                        *)
PolicyTypes ==
    /\ policy \in [Policies -> Policy \cup {None}]
    /\ policyC \in [Policies -> Policy \cup {None}]
    /\ policyF \in [Policies -> BOOLEAN]

ObjTypes ==
    /\ obj \in [Objects -> Object \cup {None}]
    /\ objC \in [Objects -> Object \cup {None}]
    /\ objF \in [Objects -> BOOLEAN]
    /\ wake \in [Objects -> SUBSET Policies]

NsTypes ==
    /\ ns \in [Namespaces -> {"absent", "plain", "enforced"}]
    /\ nsC \in [Namespaces -> {"absent", "plain", "enforced"}]
    /\ recycled \subseteq Namespaces

QueueTypes == queue \subseteq Policies /\ retry \subseteq Policies

Reconciles == [at : Steps, p : Policies \cup {None}, copy : Policy \cup {None}, ok : BOOLEAN]

(* A reconcile under way has a policy and the copy it read of it.          *)
RecOK == rec = Idle \/ (rec.at # "idle" /\ rec.p \in Policies /\ rec.copy \in Policy)

(* Namespace n carries the guards' label, or was deleted once.             *)
Guarded(n) == ns[n] = "enforced" \/ n \in recycled

(* Whatever a policy's namespace has to be guarded for.                    *)
Sheltered(x) == x # None /\ x.owner # Other => Guarded(NamespaceOf[x.owner[1]])

OwnersOK == \A o \in Objects : Sheltered(obj[o]) /\ Sheltered(objC[o])

(* A reconcile that syncs a ceiling has turned the guards on.              *)
StepOK == rec.at \in {"quota", "clusterQueue", "localQueue"} => Guarded(NamespaceOf[rec.p])

(* The cache shows no label that was never there.                          *)
NsOK == \A n \in Namespaces : nsC[n] = "enforced" => Guarded(n)

IInv == TypeOK /\ RecOK /\ OwnersOK /\ StepOK /\ NsOK

-----------------------------------------------------------------------------
(* Lemmas about the helpers of the model.                                  *)

LEMMA TypeParts ==
    TypeOK <=> /\ PolicyTypes /\ ObjTypes /\ NsTypes /\ QueueTypes
               /\ rec \in Reconciles /\ left \in [Disturbances -> Nat]
BY DEF TypeOK, PolicyTypes, ObjTypes, NsTypes, QueueTypes, Reconciles

LEMMA Names ==
    /\ \A p \in Policies : ResourceQuota(p) \in Objects /\ NamespaceOf[p] \in Namespaces
    /\ \A t \in Tenants : ClusterQueue(t) \in Objects
    /\ \A t \in Tenants, n \in Namespaces : LocalQueue(t, n) \in Objects
BY DEF Objects, Namespaces

(* Only the reconcile at rest is idle.                                     *)
LEMMA IdleIs == Idle \in Reconciles /\ Idle.at = "idle"
BY DEF Idle, Reconciles, Steps

LEMMA PolicyIs ==
    ASSUME NEW c \in Policy
    PROVE  /\ c.uid \in Nat /\ c.spec \in Specs /\ c.status \in Status
           /\ c.spec.tenant \in Tenants /\ c.spec.gpus \in Limits /\ c.spec.training \in BOOLEAN
           /\ c.deleting \in BOOLEAN /\ c.finalizer \in BOOLEAN
BY DEF Policy, Uids, Specs

(* What a policy may be rewritten to.                                      *)
LEMMA PolicyWith ==
    ASSUME NEW c \in Policy
    PROVE  /\ \A s \in Status : [c EXCEPT !.status = s] \in Policy
           /\ \A s \in Specs : [c EXCEPT !.spec = s] \in Policy
           /\ [c EXCEPT !.finalizer = TRUE] \in Policy
           /\ [c EXCEPT !.deleting = TRUE] \in Policy
<1>1. PICK b \in BOOLEAN : b = TRUE
  OBVIOUS
<1>2. [c EXCEPT !.finalizer = b] \in Policy /\ [c EXCEPT !.deleting = b] \in Policy
  BY DEF Policy
<1>3. ASSUME NEW s \in Status PROVE [c EXCEPT !.status = s] \in Policy
  BY DEF Policy
<1>4. ASSUME NEW s \in Specs PROVE [c EXCEPT !.spec = s] \in Policy
  BY DEF Policy
<1> QED BY <1>1, <1>2, <1>3, <1>4

LEMMA NewPolicyIs ==
    ASSUME NEW i \in Nat, NEW s \in Specs PROVE NewPolicy(i, s) \in Policy
<1>1. [phase |-> Unset, observed |-> None, admitting |-> Unset] \in Status
  BY DEF Status
<1> QED BY <1>1 DEF NewPolicy, Policy, Uids

LEMMA WritePolicyIs ==
    ASSUME PolicyTypes, NEW p \in Policies, NEW v \in Policy \cup {None}, WritePolicy(p, v)
    PROVE  PolicyTypes'
BY DEF PolicyTypes, WritePolicy

LEMMA SpendIs ==
    ASSUME left \in [Disturbances -> Nat], NEW b \in Disturbances, Spend(b)
    PROVE  left' \in [Disturbances -> Nat]
<1>1. left[b] \in Nat /\ left[b] > 0
  BY DEF Spend
<1>2. left' = [left EXCEPT ![b] = left[b] - 1] /\ left[b] - 1 \in Nat
  BY <1>1 DEF Spend
<1> QED BY <1>2

(* A write of objects, as a function of what they become.                  *)
LEMMA WriteObjectsIs ==
    ASSUME ObjTypes, NEW f, \A o \in DOMAIN f : f[o] \in Object \cup {None}, WriteObjects(f)
    PROVE  /\ ObjTypes' /\ objC' = objC
           /\ \A o \in Objects : obj'[o] = IF o \in DOMAIN f THEN f[o] ELSE obj[o]
<1>1. obj' \in [Objects -> Object \cup {None}] /\ objF' \in [Objects -> BOOLEAN] /\ objC' = objC
  BY DEF WriteObjects, ObjTypes
<1>2. wake' \in [Objects -> SUBSET Policies]
  BY DEF WriteObjects, ObjTypes, OwnersOf
<1> QED BY <1>1, <1>2 DEF ObjTypes, WriteObjects

LEMMA WriteObjectIs ==
    ASSUME ObjTypes, NEW o \in Objects, NEW v \in Object \cup {None}, WriteObject(o, v)
    PROVE  /\ ObjTypes' /\ objC' = objC /\ obj'[o] = v
           /\ \A x \in Objects : x # o => obj'[x] = obj[x]
<1> DEFINE f == [x \in {o} |-> v]
<1>1. DOMAIN f = {o} /\ f[o] = v
  OBVIOUS
<1>2. WriteObjects(f)
  BY DEF WriteObject
<1> HIDE DEF f
<1> QED BY <1>1, <1>2, WriteObjectsIs

(* A write of a sheltered object keeps every object sheltered.             *)
LEMMA ShelteredWrite ==
    ASSUME IInv, UNCHANGED NsVars, NEW o \in Objects, NEW v \in Object \cup {None}, Sheltered(v),
           WriteObject(o, v)
    PROVE  ObjTypes' /\ OwnersOK'
<1>1. /\ ObjTypes' /\ objC' = objC /\ obj'[o] = v
      /\ \A x \in Objects : x # o => obj'[x] = obj[x]
  BY TypeParts, WriteObjectIs DEF IInv
<1>2. ns' = ns /\ recycled' = recycled
  BY DEF NsVars
<1>3. ASSUME NEW x \in Objects PROVE (Sheltered(obj[x]) /\ Sheltered(objC[x]))'
  BY <1>1, <1>2 DEF IInv, OwnersOK, Sheltered, Guarded
<1> QED BY <1>1, <1>3 DEF OwnersOK

LEMMA RestKeepsObjects ==
    ASSUME IInv, UNCHANGED NsVars, UNCHANGED ObjVars PROVE ObjTypes' /\ OwnersOK'
BY TypeParts DEF IInv, NsVars, ObjVars, ObjTypes, OwnersOK, Sheltered, Guarded

LEMMA DeleteIs ==
    ASSUME IInv, UNCHANGED NsVars, NEW o \in Objects, Delete(o)
    PROVE  ObjTypes' /\ OwnersOK'
<1>1. Sheltered(None)
  BY DEF Sheltered
<1>2. CASE WriteObject(o, None)
  BY <1>1, <1>2, ShelteredWrite
<1>3. CASE UNCHANGED ObjVars
  BY <1>3, RestKeepsObjects
<1> QED BY <1>2, <1>3 DEF Delete

(* A step that leaves the namespaces alone.                                *)
LEMMA NamespacesRest ==
    ASSUME IInv, UNCHANGED NsVars, PolicyTypes', ObjTypes', QueueTypes', rec' \in Reconciles,
           left' \in [Disturbances -> Nat], RecOK', OwnersOK',
           rec'.at \in {"quota", "clusterQueue", "localQueue"} => Guarded(NamespaceOf[rec'.p])
    PROVE  IInv'
<1>1. ns' = ns /\ nsC' = nsC /\ recycled' = recycled
  BY DEF NsVars
<1>2. NsTypes'
  BY <1>1, TypeParts DEF IInv, NsTypes
<1>3. TypeOK'
  <2>1. PolicyTypes' /\ ObjTypes' /\ NsTypes' /\ QueueTypes' /\ rec' \in Reconciles
        /\ left' \in [Disturbances -> Nat]
    BY <1>2
  <2> QED BY <2>1 DEF TypeOK, PolicyTypes, ObjTypes, NsTypes, QueueTypes, Reconciles
<1>4. StepOK' /\ NsOK'
  BY <1>1 DEF IInv, StepOK, NsOK, Guarded
<1> QED BY <1>3, <1>4 DEF IInv

-----------------------------------------------------------------------------
(* The reconciler.                                                         *)

LEMMA ReturnIs ==
    ASSUME IInv, rec # Idle, Return \/ ReturnError \/ RequeueAfter
    PROVE  rec' = Idle /\ QueueTypes'
<1>1. rec.p \in Policies /\ queue \subseteq Policies /\ retry \subseteq Policies
  BY DEF IInv, RecOK, TypeOK
<1>2. rec' = Idle
  BY DEF Return, ReturnError, RequeueAfter
<1>3. queue' \in {queue, queue \cup {rec.p}} /\ retry' \in {retry, retry \cup {rec.p}}
  BY DEF Return, ReturnError, RequeueAfter
<1> QED BY <1>1, <1>2, <1>3 DEF QueueTypes

(* A step that ends the reconcile, whatever it did to the policy.          *)
LEMMA EndKeeps ==
    ASSUME IInv, UNCHANGED NsVars, UNCHANGED left, rec # Idle,
           Return \/ ReturnError \/ RequeueAfter, PolicyTypes', ObjTypes', OwnersOK'
    PROVE  IInv'
<1>1. rec' = Idle /\ QueueTypes'
  BY ReturnIs
<1>2. rec' \in Reconciles /\ RecOK' /\ rec'.at = "idle"
  BY <1>1, IdleIs DEF RecOK
<1>3. left' \in [Disturbances -> Nat]
  BY DEF IInv, TypeOK
<1> QED BY <1>1, <1>2, <1>3, NamespacesRest

LEMMA GoToIs ==
    ASSUME IInv, rec.at # "idle", NEW step \in Steps \ {"idle"}, GoTo(step)
    PROVE  QueueTypes' /\ rec' \in Reconciles /\ RecOK' /\ rec'.at = step /\ rec'.p = rec.p
<1>1. rec \in Reconciles /\ rec.p \in Policies /\ rec.copy \in Policy
  BY TypeParts, IdleIs DEF IInv, RecOK
<1>2. rec' = [rec EXCEPT !.at = step] /\ queue' = queue /\ retry' = retry
  BY DEF GoTo
<1>3. rec' \in Reconciles /\ rec'.at = step /\ rec'.p = rec.p /\ rec'.copy = rec.copy
  BY <1>1, <1>2 DEF Reconciles
<1> QED BY <1>1, <1>2, <1>3 DEF IInv, TypeOK, RecOK, QueueTypes

(* A step that goes on, to a ceiling only where the guards are on.         *)
LEMMA GoOnKeeps ==
    ASSUME IInv, UNCHANGED NsVars, UNCHANGED left, UNCHANGED PolicyVars, rec.at # "idle",
           NEW step \in Steps \ {"idle"}, GoTo(step), ObjTypes', OwnersOK',
           step \in {"quota", "clusterQueue", "localQueue"} => Guarded(NamespaceOf[rec.p])
    PROVE  IInv'
<1>1. QueueTypes' /\ rec' \in Reconciles /\ RecOK' /\ rec'.at = step /\ rec'.p = rec.p
  BY GoToIs
<1>2. left' \in [Disturbances -> Nat] /\ PolicyTypes'
  BY DEF IInv, TypeOK, PolicyTypes, PolicyVars
<1> QED BY <1>1, <1>2, NamespacesRest

LEMMA UnderWay ==
    ASSUME IInv, rec.at # "idle"
    PROVE  rec # Idle /\ rec.p \in Policies /\ rec.copy \in Policy
BY IdleIs DEF IInv, RecOK

LEMMA StatusWritten ==
    ASSUME IInv, rec.at # "idle", NEW s \in Status,
           UNCHANGED PolicyVars \/ WritePolicy(rec.p, [rec.copy EXCEPT !.status = s])
    PROVE  PolicyTypes'
<1>1. CASE UNCHANGED PolicyVars
  BY <1>1 DEF IInv, TypeOK, PolicyTypes, PolicyVars
<1>2. CASE WritePolicy(rec.p, [rec.copy EXCEPT !.status = s])
  BY <1>2, UnderWay, PolicyWith, WritePolicyIs, TypeParts DEF IInv
<1> QED BY <1>1, <1>2

LEMMA MarkDegradedIs ==
    ASSUME IInv, rec.at # "idle", markDegraded
    PROVE  PolicyTypes' /\ (Return \/ ReturnError \/ RequeueAfter)
<1> DEFINE s == [rec.copy.status EXCEPT !.phase = "Degraded", !.observed = rec.copy.spec]
<1>1. rec.copy.status \in Status /\ rec.copy.spec \in Specs
  BY UnderWay, PolicyIs
<1>2. s \in Status
  BY <1>1 DEF Status
<1>3. \/ UNCHANGED PolicyVars
      \/ WritePolicy(rec.p, [rec.copy EXCEPT !.status = s])
  BY DEF markDegraded, UpdateStatus
<1>4. Return \/ ReturnError \/ RequeueAfter
  BY DEF markDegraded, UpdateStatus
<1> HIDE DEF s
<1> QED BY <1>2, <1>3, <1>4, StatusWritten

(* Creating or correcting an object: it is the policy's, in a namespace    *)
(* that is guarded.                                                        *)
LEMMA EnsureKeeps ==
    ASSUME IInv, UNCHANGED NsVars, UNCHANGED left, rec.at # "idle", Guarded(NamespaceOf[rec.p]),
           NEW o \in Objects, NEW content \in Limits \cup Tenants, NEW next \in Steps \ {"idle"},
           Ensure(o, content, next)
    PROVE  IInv'
<1>1. rec # Idle /\ rec.p \in Policies /\ rec.copy \in Policy
  BY UnderWay
<1>2. rec.copy.uid \in Nat
  BY <1>1, PolicyIs
<1>3. objC[o] \in Object \cup {None}
  BY DEF IInv, TypeOK
<1>4. ASSUME NEW v \in Object, v.owner = <<rec.p, rec.copy.uid>>, WriteObject(o, v), GoTo(next),
             UNCHANGED PolicyVars
      PROVE  IInv'
  <2>1. v.owner[1] = rec.p
    BY <1>4
  <2>2. Sheltered(v)
    BY <2>1 DEF Sheltered
  <2>3. ObjTypes' /\ OwnersOK'
    BY <1>4, <2>2, ShelteredWrite
  <2> QED BY <1>4, <2>3, GoOnKeeps
<1>5. CASE WriteObject(o, [owner |-> <<rec.p, rec.copy.uid>>, content |-> content, active |-> FALSE])
           /\ GoTo(next) /\ UNCHANGED PolicyVars
  <2> DEFINE v == [owner |-> <<rec.p, rec.copy.uid>>, content |-> content, active |-> FALSE]
  <2>1. <<rec.p, rec.copy.uid>> \in Owners
    BY <1>1, <1>2 DEF Owners, Uids
  <2>2. v \in Object /\ v.owner = <<rec.p, rec.copy.uid>>
    BY <2>1 DEF Object
  <2>3. WriteObject(o, v)
    BY <1>5
  <2> HIDE DEF v
  <2> QED BY <1>4, <1>5, <2>2, <2>3
<1>6. CASE IsControlledBy(objC[o]) /\ WriteObject(o, [objC[o] EXCEPT !.content = content])
           /\ GoTo(next) /\ UNCHANGED PolicyVars
  <2> DEFINE v == [objC[o] EXCEPT !.content = content]
  <2>1. objC[o] \in Object /\ objC[o].owner = <<rec.p, rec.copy.uid>>
    BY <1>3, <1>6 DEF IsControlledBy
  <2>2. v \in Object /\ v.owner = objC[o].owner
    BY <2>1 DEF Object
  <2>3. WriteObject(o, v)
    BY <1>6
  <2> HIDE DEF v
  <2> QED BY <1>4, <1>6, <2>1, <2>2, <2>3
<1>7. CASE markDegraded /\ UNCHANGED ObjVars
  <2>1. PolicyTypes' /\ (Return \/ ReturnError \/ RequeueAfter)
    BY <1>7, MarkDegradedIs
  <2> QED BY <1>1, <1>7, <2>1, RestKeepsObjects, EndKeeps
<1>8. CASE GoTo(next) /\ UNCHANGED <<PolicyVars, ObjVars>>
  <2>1. UNCHANGED PolicyVars /\ UNCHANGED ObjVars
    BY <1>8
  <2> QED BY <1>8, <2>1, RestKeepsObjects, GoOnKeeps
<1>9. CASE (RequeueAfter \/ ReturnError) /\ UNCHANGED <<PolicyVars, ObjVars>>
  <2>1. UNCHANGED PolicyVars /\ UNCHANGED ObjVars
    BY <1>9
  <2>2. PolicyTypes'
    BY <2>1 DEF IInv, TypeOK, PolicyTypes, PolicyVars
  <2> QED BY <1>1, <1>9, <2>1, <2>2, RestKeepsObjects, EndKeeps
<1> QED BY <1>5, <1>6, <1>7, <1>8, <1>9 DEF Ensure

LEMMA BeginKeeps ==
    ASSUME IInv, NEW p \in Policies, Begin(p) PROVE IInv'
<1>1. /\ UNCHANGED ObjVars /\ UNCHANGED NsVars /\ retry' = retry /\ left' = left
      /\ rec = Idle /\ queue' \in {queue, queue \ {p}}
  BY DEF Begin
<1>2. policyC[p] \in Policy \cup {None} /\ policyF[p] \in BOOLEAN
  BY DEF IInv, TypeOK
<1>3. QueueTypes' /\ left' \in [Disturbances -> Nat]
  BY <1>1 DEF IInv, TypeOK, QueueTypes
<1>4. PolicyTypes'
  <2>1. CASE UNCHANGED PolicyVars
    BY <2>1 DEF IInv, TypeOK, PolicyTypes, PolicyVars
  <2>2. CASE policyC[p] # None /\ WritePolicy(p, [policyC[p] EXCEPT !.finalizer = TRUE])
    BY <1>2, <2>2, PolicyWith, WritePolicyIs, TypeParts DEF IInv
  <2> QED BY <2>1, <2>2 DEF Begin
<1>5. /\ rec' \in Reconciles /\ RecOK'
      /\ rec'.at \in {"idle", "finalize", "enforce"}
  <2>1. CASE rec' = rec
    BY <1>1, <2>1, IdleIs DEF RecOK
  <2>2. CASE policyC[p] # None /\ rec' = [at |-> IF policyC[p].deleting THEN "finalize" ELSE "enforce",
                                        p |-> p, copy |-> policyC[p], ok |-> policyF[p]]
    <3>1. PICK a \in {"finalize", "enforce"} : a = IF policyC[p].deleting THEN "finalize" ELSE "enforce"
      OBVIOUS
    <3>2. rec' = [at |-> a, p |-> p, copy |-> policyC[p], ok |-> policyF[p]]
      BY <2>2, <3>1
    <3> QED BY <1>2, <2>2, <3>2 DEF Reconciles, Steps, RecOK
  <2> QED BY <2>1, <2>2 DEF Begin
<1>6. ObjTypes' /\ OwnersOK'
  BY <1>1, RestKeepsObjects
<1> QED BY <1>1, <1>3, <1>4, <1>5, <1>6, NamespacesRest

(* Objects that only go, and caches that catch up, stay sheltered while    *)
(* guards stay on.                                                         *)
LEMMA ShelterStays ==
    ASSUME IInv, \A n \in Namespaces : Guarded(n) => Guarded(n)',
           \A o \in Objects : obj'[o] \in {obj[o], None} /\ objC'[o] \in {objC[o], obj[o]}
    PROVE  OwnersOK'
<1>1. ASSUME NEW x \in Object \cup {None}, Sheltered(x) PROVE Sheltered(x)'
  <2> SUFFICES ASSUME x # None, x.owner # Other PROVE Guarded(NamespaceOf[x.owner[1]])'
    BY DEF Sheltered
  <2>1. x.owner \in Owners
    BY DEF Object
  <2>2. x.owner[1] \in Policies
    BY <2>1 DEF Owners
  <2> QED BY <1>1, <2>2, Names DEF Sheltered
<1>2. ASSUME NEW o \in Objects PROVE (Sheltered(obj[o]) /\ Sheltered(objC[o]))'
  <2>1. /\ obj[o] \in Object \cup {None} /\ objC[o] \in Object \cup {None}
        /\ Sheltered(obj[o]) /\ Sheltered(objC[o]) /\ Sheltered(None)
    BY DEF IInv, TypeOK, OwnersOK, Sheltered
  <2>2. PICK y, z : y = obj'[o] /\ z = objC'[o]
    OBVIOUS
  <2>3. /\ y \in Object \cup {None} /\ Sheltered(y)
        /\ z \in Object \cup {None} /\ Sheltered(z)
    BY <2>1, <2>2
  <2>4. Sheltered(y)' /\ Sheltered(z)'
    BY <1>1, <2>3
  <2> QED BY <2>2, <2>4 DEF Sheltered
<1> QED BY <1>2 DEF OwnersOK

(* A step that moves namespaces.                                           *)
LEMMA NamespacesMove ==
    ASSUME IInv, NsTypes', NsOK', \A n \in Namespaces : Guarded(n) => Guarded(n)',
           PolicyTypes', ObjTypes', QueueTypes', rec' \in Reconciles, left' \in [Disturbances -> Nat],
           RecOK', OwnersOK', StepOK'
    PROVE  IInv'
<1>1. TypeOK'
  BY DEF TypeOK, PolicyTypes, ObjTypes, NsTypes, QueueTypes, Reconciles
<1> QED BY <1>1 DEF IInv

LEMMA EnforceKeeps ==
    ASSUME IInv, Enforce PROVE IInv'
<1>1. /\ rec.at = "enforce" /\ UNCHANGED ObjVars /\ nsC' = nsC /\ recycled' = recycled /\ left' = left
  BY DEF Enforce
<1>2. rec # Idle /\ rec.p \in Policies /\ rec.copy \in Policy
  BY <1>1, UnderWay
<1> PICK n \in Namespaces : n = NamespaceOf[rec.p]
  BY <1>2, Names
<1>3. /\ ns \in [Namespaces -> {"absent", "plain", "enforced"}] /\ recycled \subseteq Namespaces
      /\ nsC \in [Namespaces -> {"absent", "plain", "enforced"}]
  BY DEF IInv, TypeOK
<1>4. CASE nsC[n] = "enforced" /\ GoTo("quota") /\ UNCHANGED <<PolicyVars, ns>>
  <2>1. UNCHANGED NsVars /\ UNCHANGED PolicyVars
    BY <1>1, <1>4 DEF NsVars
  <2>2. Guarded(n)
    BY <1>2, <1>4 DEF IInv, NsOK
  <2>3. "quota" \in Steps \ {"idle"} /\ GoTo("quota")
    BY <1>4 DEF Steps
  <2> QED BY <1>1, <2>1, <2>2, <2>3, RestKeepsObjects, GoOnKeeps
<1>5. CASE /\ nsC[n] = "plain" /\ ns' = [ns EXCEPT ![n] = "enforced"]
           /\ GoTo("quota") /\ UNCHANGED PolicyVars
  <2>1. NsTypes' /\ \A m \in Namespaces : Guarded(m) => Guarded(m)'
    BY <1>1, <1>2, <1>3, <1>5 DEF NsTypes, Guarded
  <2>2. Guarded(n)'
    BY <1>2, <1>3, <1>5 DEF Guarded
  <2>3. NsOK'
    BY <1>1, <2>1 DEF IInv, NsOK
  <2>4. "quota" \in Steps \ {"idle"} /\ GoTo("quota")
    BY <1>5 DEF Steps
  <2>5. QueueTypes' /\ rec' \in Reconciles /\ RecOK' /\ rec'.at = "quota" /\ rec'.p = rec.p
    BY <1>1, <2>4, GoToIs
  <2>6. StepOK'
    BY <2>2, <2>5 DEF StepOK, Guarded
  <2>7. /\ obj' = obj /\ objC' = objC /\ ObjTypes' /\ PolicyTypes' /\ left' \in [Disturbances -> Nat]
    BY <1>1, <1>5 DEF IInv, TypeOK, ObjVars, PolicyVars, ObjTypes, PolicyTypes
  <2>8. OwnersOK'
    BY <2>1, <2>7, ShelterStays
  <2> QED BY <2>1, <2>3, <2>5, <2>6, <2>7, <2>8, NamespacesMove
<1>6. CASE markDegraded /\ ns' = ns
  <2>1. UNCHANGED NsVars
    BY <1>1, <1>6 DEF NsVars
  <2>2. PolicyTypes' /\ (Return \/ ReturnError \/ RequeueAfter)
    BY <1>1, <1>6, MarkDegradedIs
  <2> QED BY <1>1, <1>2, <2>1, <2>2, RestKeepsObjects, EndKeeps
<1> QED BY <1>4, <1>5, <1>6 DEF Enforce

LEMMA SyncQuotaKeeps ==
    ASSUME IInv, SyncQuota PROVE IInv'
<1>1. /\ rec.at = "quota" /\ UNCHANGED NsVars /\ left' = left
  BY DEF SyncQuota
<1>2. rec.p \in Policies /\ rec.copy \in Policy /\ ResourceQuota(rec.p) \in Objects
  BY <1>1, UnderWay, Names
<1>3. Guarded(NamespaceOf[rec.p])
  BY <1>1 DEF IInv, StepOK
<1>4. CASE Delete(ResourceQuota(rec.p)) /\ GoTo("clusterQueue") /\ UNCHANGED PolicyVars
  <2>1. ObjTypes' /\ OwnersOK'
    BY <1>1, <1>2, <1>4, DeleteIs
  <2>2. "clusterQueue" \in Steps \ {"idle"}
    BY DEF Steps
  <2> QED BY <1>1, <1>3, <1>4, <2>1, <2>2, GoOnKeeps
<1>5. CASE Ensure(ResourceQuota(rec.p), rec.copy.spec.gpus, "dropLocalQueue")
  <2>1. rec.copy.spec.gpus \in Limits \cup Tenants /\ "dropLocalQueue" \in Steps \ {"idle"}
    BY <1>2, PolicyIs DEF Steps
  <2> QED BY <1>1, <1>2, <1>3, <1>5, <2>1, EnsureKeeps
<1> QED BY <1>4, <1>5 DEF SyncQuota

LEMMA SyncKueueKeeps ==
    ASSUME IInv, SyncClusterQueue \/ SyncLocalQueue PROVE IInv'
<1>1. /\ rec.at \in {"clusterQueue", "localQueue"} /\ UNCHANGED NsVars /\ left' = left
  BY DEF SyncClusterQueue, SyncLocalQueue
<1>2. rec.p \in Policies /\ rec.copy \in Policy /\ rec.at # "idle"
  BY <1>1, UnderWay
<1>3. Guarded(NamespaceOf[rec.p])
  BY <1>1 DEF IInv, StepOK
<1>4. /\ rec.copy.spec.gpus \in Limits \cup Tenants /\ rec.copy.spec.tenant \in Limits \cup Tenants
      /\ ClusterQueue(rec.copy.spec.tenant) \in Objects
      /\ LocalQueue(rec.copy.spec.tenant, NamespaceOf[rec.p]) \in Objects
      /\ "localQueue" \in Steps \ {"idle"} /\ "status" \in Steps \ {"idle"}
  BY <1>2, PolicyIs, Names DEF Steps
<1>5. CASE SyncClusterQueue
  <2>1. Ensure(ClusterQueue(rec.copy.spec.tenant), rec.copy.spec.gpus, "localQueue")
    BY <1>5 DEF SyncClusterQueue
  <2> QED BY <1>1, <1>2, <1>3, <1>4, <2>1, EnsureKeeps
<1>6. CASE SyncLocalQueue
  <2>1. Ensure(LocalQueue(rec.copy.spec.tenant, NamespaceOf[rec.p]), rec.copy.spec.tenant, "status")
    BY <1>6 DEF SyncLocalQueue
  <2> QED BY <1>1, <1>2, <1>3, <1>4, <2>1, EnsureKeeps
<1> QED BY <1>5, <1>6

(* The deletes of a policy that goes, or asks for the other ceiling.       *)
LEMMA DropsKeep ==
    ASSUME IInv, Finalize \/ DropLocalQueue \/ DropClusterQueue PROVE IInv'
<1>1. /\ rec.at \in {"finalize", "dropLocalQueue", "dropClusterQueue"} /\ UNCHANGED NsVars
      /\ UNCHANGED PolicyVars /\ left' = left
  BY DEF Finalize, DropLocalQueue, DropClusterQueue
<1>2. rec.p \in Policies /\ rec.copy \in Policy /\ rec.at # "idle"
  BY <1>1, UnderWay
<1>3. PICK o \in Objects : Delete(o)
  <2>1. /\ ResourceQuota(rec.p) \in Objects /\ ClusterQueue(rec.copy.spec.tenant) \in Objects
        /\ LocalQueue(rec.copy.spec.tenant, NamespaceOf[rec.p]) \in Objects
    BY <1>2, PolicyIs, Names
  <2> QED BY <2>1 DEF Finalize, DropLocalQueue, DropClusterQueue
<1>4. PICK step \in {"dropLocalQueue", "dropClusterQueue", "dropFinalizer", "status"} : GoTo(step)
  BY DEF Finalize, DropLocalQueue, DropClusterQueue
<1>5. step \in Steps \ {"idle"} /\ step \notin {"quota", "clusterQueue", "localQueue"}
  BY DEF Steps
<1>6. ObjTypes' /\ OwnersOK'
  BY <1>1, <1>3, DeleteIs
<1> QED BY <1>1, <1>2, <1>4, <1>5, <1>6, GoOnKeeps

LEMMA DropFinalizerKeeps ==
    ASSUME IInv, DropFinalizer PROVE IInv'
<1>1. /\ rec.at = "dropFinalizer" /\ UNCHANGED NsVars /\ UNCHANGED ObjVars /\ left' = left
      /\ Return \/ ReturnError
  BY DEF DropFinalizer
<1>2. rec # Idle /\ rec.p \in Policies
  BY <1>1, UnderWay
<1>3. PolicyTypes'
  <2>1. CASE WritePolicy(rec.p, None)
    BY <1>2, <2>1, WritePolicyIs, TypeParts DEF IInv
  <2>2. CASE UNCHANGED PolicyVars
    BY <2>2 DEF IInv, TypeOK, PolicyTypes, PolicyVars
  <2> QED BY <2>1, <2>2 DEF DropFinalizer
<1> QED BY <1>1, <1>2, <1>3, RestKeepsObjects, EndKeeps

LEMMA SyncStatusKeeps ==
    ASSUME IInv, SyncStatus PROVE IInv'
<1>1. /\ rec.at = "status" /\ UNCHANGED NsVars /\ UNCHANGED ObjVars /\ left' = left
  BY DEF SyncStatus
<1>2. rec # Idle /\ rec.copy \in Policy
  BY <1>1, UnderWay
<1>3. PICK a \in {Unset, "True", "False"} :
         a = IF rec.copy.spec.training THEN admittingCondition ELSE Unset
  BY DEF admittingCondition
<1> DEFINE s == [phase |-> "Synced", observed |-> rec.copy.spec, admitting |-> a]
<1>4. s \in Status
  BY <1>2, PolicyIs DEF Status
<1>5. UpdateStatus(s, Return)
  BY <1>3 DEF SyncStatus
<1> HIDE DEF s
<1>6. /\ UNCHANGED PolicyVars \/ WritePolicy(rec.p, [rec.copy EXCEPT !.status = s])
      /\ Return \/ ReturnError
  BY <1>5 DEF UpdateStatus
<1>7. PolicyTypes'
  BY <1>1, <1>4, <1>6, StatusWritten
<1> QED BY <1>1, <1>2, <1>6, <1>7, RestKeepsObjects, EndKeeps

-----------------------------------------------------------------------------
(* Caches, timers, failures, and the others.                               *)

(* A step that leaves the reconcile where it is, or only tells it that its *)
(* copy is old.                                                            *)
LEMMA OthersKeep ==
    ASSUME IInv, UNCHANGED NsVars, PolicyTypes', ObjTypes', OwnersOK', QueueTypes',
           left' \in [Disturbances -> Nat],
           rec' = rec \/ (rec # Idle /\ rec' = [rec EXCEPT !.ok = FALSE])
    PROVE  IInv'
<1>1. rec \in Reconciles
  BY TypeParts DEF IInv
<1>2. /\ rec' \in Reconciles /\ rec'.at = rec.at /\ rec'.p = rec.p /\ rec'.copy = rec.copy
      /\ rec = Idle => rec' = Idle
  <2>1. PICK b \in BOOLEAN : b = FALSE
    OBVIOUS
  <2>2. rec' = rec \/ (rec # Idle /\ rec' = [rec EXCEPT !.ok = b])
    BY <2>1
  <2> QED BY <1>1, <2>2 DEF Reconciles
<1>3. RecOK'
  BY <1>2 DEF IInv, RecOK
<1>4. rec'.at \in {"quota", "clusterQueue", "localQueue"} => Guarded(NamespaceOf[rec'.p])
  BY <1>2 DEF IInv, StepOK
<1> QED BY <1>2, <1>3, <1>4, NamespacesRest

LEMMA PolicyEditKeeps ==
    ASSUME IInv, NEW p \in Policies, NEW v \in Policy \cup {None}, WritePolicy(p, v), Outdate(p),
           left' \in [Disturbances -> Nat]
    PROVE  IInv'
<1>1. /\ UNCHANGED ObjVars /\ UNCHANGED NsVars /\ queue' = queue /\ retry' = retry
      /\ rec' = IF rec.p = p THEN [rec EXCEPT !.ok = FALSE] ELSE rec
  BY DEF Outdate
<1>2. PolicyTypes'
  BY WritePolicyIs, TypeParts DEF IInv
<1>3. QueueTypes'
  BY <1>1 DEF IInv, TypeOK, QueueTypes
<1>4. rec' = rec \/ (rec # Idle /\ rec' = [rec EXCEPT !.ok = FALSE])
  <2>1. CASE rec = Idle
    <3>1. PICK b \in BOOLEAN : b = FALSE
      OBVIOUS
    <3>2. rec = [at |-> "idle", p |-> None, copy |-> None, ok |-> b]
      BY <2>1, <3>1 DEF Idle
    <3>3. [rec EXCEPT !.ok = b] = rec
      BY <3>2
    <3> QED BY <1>1, <3>1, <3>3
  <2> QED BY <1>1, <2>1
<1> QED BY <1>1, <1>2, <1>3, <1>4, RestKeepsObjects, OthersKeep

LEMMA EditSpecKeeps ==
    ASSUME IInv, NEW p \in Policies, NEW s \in Specs, EditSpec(p, s) PROVE IInv'
<1>1. policy[p] \in Policy
  BY DEF EditSpec, IInv, TypeOK
<1>2. left' \in [Disturbances -> Nat]
  <2>1. \E b \in Disturbances : Spend(b)
    BY DEF EditSpec, Disturbances
  <2> QED BY <2>1, SpendIs DEF IInv, TypeOK
<1>3. [policy[p] EXCEPT !.spec = s] \in Policy
  BY <1>1, PolicyWith
<1> QED BY <1>2, <1>3, PolicyEditKeeps DEF EditSpec

LEMMA DeletePolicyKeeps ==
    ASSUME IInv, NEW p \in Policies, DeletePolicy(p) PROVE IInv'
<1>1. policy[p] \in Policy
  BY DEF DeletePolicy, IInv, TypeOK
<1>2. left' \in [Disturbances -> Nat]
  <2>1. \E b \in Disturbances : Spend(b)
    BY DEF DeletePolicy, Disturbances
  <2> QED BY <2>1, SpendIs DEF IInv, TypeOK
<1>3. PICK v \in Policy \cup {None} : WritePolicy(p, v)
  BY <1>1, PolicyWith DEF DeletePolicy
<1> QED BY <1>2, <1>3, PolicyEditKeeps DEF DeletePolicy

LEMMA RecreatePolicyKeeps ==
    ASSUME IInv, NEW p \in Policies, NEW s \in Specs, RecreatePolicy(p, s) PROVE IInv'
<1>1. left \in [Disturbances -> Nat] /\ "recreations" \in Disturbances
  BY DEF IInv, TypeOK, Disturbances
<1>2. left' \in [Disturbances -> Nat]
  BY <1>1, SpendIs DEF RecreatePolicy
<1>3. left.recreations \in Nat
  BY <1>1
<1>4. PICK v \in Policy \cup {None} : WritePolicy(p, v)
  BY <1>3, NewPolicyIs DEF RecreatePolicy
<1> QED BY <1>2, <1>4, PolicyEditKeeps DEF RecreatePolicy

(* Others create, remove and change objects; none becomes a policy's.      *)
LEMMA ObjectStepsKeep ==
    ASSUME IInv, NEW o \in Objects,
           CreateForeign(o) \/ RemoveObject(o) \/ Drift(o) \/ KueueReports(o) \/ CollectGarbage(o)
    PROVE  IInv'
<1>1. UNCHANGED PolicyVars /\ UNCHANGED NsVars /\ queue' = queue /\ retry' = retry /\ rec' = rec
  BY DEF CreateForeign, RemoveObject, Drift, KueueReports, CollectGarbage, OnlyObjects
<1>2. left' \in [Disturbances -> Nat]
  <2>1. CASE left' = left
    BY <2>1 DEF IInv, TypeOK
  <2>2. CASE \E b \in Disturbances : Spend(b)
    BY <2>2, SpendIs DEF IInv, TypeOK
  <2> QED BY <2>1, <2>2 DEF CreateForeign, RemoveObject, Drift, KueueReports, CollectGarbage, Disturbances
<1>3. obj[o] \in Object \cup {None} /\ Sheltered(obj[o])
  BY DEF IInv, TypeOK, OwnersOK
<1>4. PICK v \in Object \cup {None} : Sheltered(v) /\ WriteObject(o, v)
  <2>1. CASE WriteObject(o, [owner |-> Other, content |-> Other, active |-> FALSE])
    <3> DEFINE v == [owner |-> Other, content |-> Other, active |-> FALSE]
    <3>1. v \in Object /\ v.owner = Other
      BY DEF Object, Owners
    <3>2. WriteObject(o, v)
      BY <2>1
    <3> HIDE DEF v
    <3>3. Sheltered(v)
      BY <3>1 DEF Sheltered
    <3> QED BY <3>1, <3>2, <3>3
  <2>2. CASE WriteObject(o, None)
    BY <2>2 DEF Sheltered
  <2>3. CASE obj[o] # None /\ WriteObject(o, [obj[o] EXCEPT !.content = Other])
    <3> DEFINE v == [obj[o] EXCEPT !.content = Other]
    <3>1. v \in Object /\ v.owner = obj[o].owner
      BY <1>3, <2>3 DEF Object
    <3>2. WriteObject(o, v)
      BY <2>3
    <3> HIDE DEF v
    <3>3. Sheltered(v)
      BY <1>3, <2>3, <3>1 DEF Sheltered
    <3> QED BY <3>1, <3>2, <3>3
  <2>4. CASE obj[o] # None /\ WriteObject(o, [obj[o] EXCEPT !.active = ~@])
    <3>1. obj[o] \in Object /\ obj[o].active \in BOOLEAN
      BY <1>3, <2>4 DEF Object
    <3>2. PICK b \in BOOLEAN : b = (~obj[o].active)
      BY <3>1
    <3> DEFINE v == [obj[o] EXCEPT !.active = b]
    <3>3. v \in Object /\ v.owner = obj[o].owner
      BY <3>1 DEF Object
    <3>4. WriteObject(o, v)
      BY <2>4, <3>2, Zenon
    <3> HIDE DEF v
    <3>5. Sheltered(v)
      BY <1>3, <2>4, <3>3 DEF Sheltered
    <3> QED BY <3>3, <3>4, <3>5
  <2> QED BY <2>1, <2>2, <2>3, <2>4 DEF CreateForeign, RemoveObject, Drift, KueueReports, CollectGarbage
<1>5. ObjTypes' /\ OwnersOK'
  BY <1>1, <1>4, ShelteredWrite
<1>6. PolicyTypes' /\ QueueTypes'
  BY <1>1 DEF IInv, TypeOK, PolicyTypes, QueueTypes, PolicyVars
<1> QED BY <1>1, <1>2, <1>5, <1>6, OthersKeep

LEMMA DeliveryKeeps ==
    ASSUME IInv, Delivery PROVE IInv'
<1>1. ASSUME NEW p \in Policies, SyncPolicyC(p) \/ TimerFires(p) PROVE IInv'
  <2>1. /\ UNCHANGED ObjVars /\ UNCHANGED NsVars /\ rec' = rec /\ left' = left
        /\ queue' = queue \cup {p} /\ retry' \in {retry, retry \ {p}}
    BY <1>1 DEF SyncPolicyC, TimerFires
  <2>2. QueueTypes' /\ left' \in [Disturbances -> Nat]
    BY <2>1 DEF IInv, TypeOK, QueueTypes
  <2>3. PolicyTypes'
    <3>1. CASE SyncPolicyC(p)
      BY <3>1 DEF SyncPolicyC, IInv, TypeOK, PolicyTypes
    <3>2. CASE TimerFires(p)
      BY <3>2 DEF TimerFires, IInv, TypeOK, PolicyTypes, PolicyVars
    <3> QED BY <1>1, <3>1, <3>2
  <2> QED BY <2>1, <2>2, <2>3, RestKeepsObjects, OthersKeep
<1>2. ASSUME NEW o \in Objects, SyncObjectC(o) PROVE IInv'
  <2>1. /\ UNCHANGED PolicyVars /\ UNCHANGED NsVars /\ rec' = rec /\ left' = left /\ retry' = retry
        /\ queue' = queue \cup wake[o] /\ obj' = obj
        /\ objC' = [objC EXCEPT ![o] = obj[o]] /\ objF' = [objF EXCEPT ![o] = TRUE]
        /\ wake' = [wake EXCEPT ![o] = {}]
    BY <1>2 DEF SyncObjectC
  <2>2. ObjTypes' /\ QueueTypes' /\ PolicyTypes' /\ left' \in [Disturbances -> Nat]
    BY <2>1 DEF IInv, TypeOK, ObjTypes, QueueTypes, PolicyTypes, PolicyVars
  <2>3. \A n \in Namespaces : Guarded(n) => Guarded(n)'
    BY <2>1 DEF Guarded, NsVars
  <2>4. \A x \in Objects : obj'[x] \in {obj[x], None} /\ objC'[x] \in {objC[x], obj[x]}
    BY <2>1 DEF IInv, TypeOK
  <2>5. OwnersOK'
    BY <2>3, <2>4, ShelterStays
  <2> QED BY <2>1, <2>2, <2>5, OthersKeep
<1>3. ASSUME NEW n \in Namespaces, SyncNamespaceC(n) PROVE IInv'
  <2>1. /\ nsC' = [nsC EXCEPT ![n] = ns[n]] /\ ns' = ns /\ recycled' = recycled
        /\ UNCHANGED PolicyVars /\ UNCHANGED ObjVars /\ queue' = queue /\ retry' = retry
        /\ rec' = rec /\ left' = left
    BY <1>3 DEF SyncNamespaceC
  <2>2. TypeOK'
    BY <2>1 DEF IInv, TypeOK, PolicyVars, ObjVars
  <2>3. NsOK'
    BY <2>1 DEF IInv, TypeOK, NsOK, Guarded
  <2>4. RecOK' /\ OwnersOK' /\ StepOK'
    BY <2>1 DEF IInv, RecOK, OwnersOK, StepOK, Sheltered, Guarded, ObjVars
  <2> QED BY <2>2, <2>3, <2>4 DEF IInv
<1> QED BY <1>1, <1>2, <1>3 DEF Delivery

LEMMA CallFailsKeeps ==
    ASSUME IInv, CallFails PROVE IInv'
<1>1. rec # Idle /\ ReturnError /\ UNCHANGED PolicyVars /\ UNCHANGED ObjVars /\ UNCHANGED NsVars
  BY DEF CallFails
<1>2. rec' = Idle /\ QueueTypes'
  BY <1>1, ReturnIs
<1>3. rec' \in Reconciles /\ RecOK' /\ rec'.at = "idle"
  BY <1>2, IdleIs DEF RecOK
<1>4. left' \in [Disturbances -> Nat]
  BY SpendIs DEF CallFails, Disturbances, IInv, TypeOK
<1>5. PolicyTypes'
  BY <1>1 DEF IInv, TypeOK, PolicyTypes, PolicyVars
<1> QED BY <1>1, <1>2, <1>3, <1>4, <1>5, RestKeepsObjects, NamespacesRest

LEMMA CrashKeeps ==
    ASSUME IInv, Crash PROVE IInv'
<1>1. /\ rec' = Idle /\ retry' = {} /\ queue' = Policies
      /\ policyC' = policy /\ policyF' = [p \in Policies |-> TRUE]
      /\ objC' = obj /\ objF' = [o \in Objects |-> TRUE] /\ nsC' = ns
      /\ wake' = [o \in Objects |-> {}]
      /\ policy' = policy /\ obj' = obj /\ ns' = ns /\ recycled' = recycled
  BY DEF Crash
<1>2. left' \in [Disturbances -> Nat]
  BY SpendIs DEF Crash, Disturbances, IInv, TypeOK
<1>3. PolicyTypes' /\ ObjTypes' /\ NsTypes' /\ QueueTypes'
  BY <1>1 DEF IInv, TypeOK, PolicyTypes, ObjTypes, NsTypes, QueueTypes
<1>4. rec' \in Reconciles /\ RecOK' /\ StepOK'
  BY <1>1, IdleIs DEF RecOK, StepOK
<1>5. \A n \in Namespaces : Guarded(n) => Guarded(n)'
  BY <1>1 DEF Guarded
<1>6. NsOK'
  BY <1>1 DEF NsOK, Guarded
<1>7. OwnersOK'
  BY <1>1, <1>5, ShelterStays
<1> QED BY <1>2, <1>3, <1>4, <1>5, <1>6, <1>7, NamespacesMove

(* A namespace that goes takes its objects along and is recycled; one that *)
(* comes back carries no label.                                            *)
LEMMA DeleteNamespaceKeeps ==
    ASSUME IInv, NEW n \in Namespaces, DeleteNamespace(n) PROVE IInv'
<1> DEFINE f == [o \in {x \in Objects : Inside(x, n) /\ obj[x] # None} |-> None]
<1>1. /\ ns' = [ns EXCEPT ![n] = "absent"] /\ recycled' = recycled \cup {n} /\ nsC' = nsC
      /\ UNCHANGED PolicyVars /\ queue' = queue /\ retry' = retry /\ rec' = rec
      /\ WriteObjects(f)
  BY DEF DeleteNamespace
<1>2. left' \in [Disturbances -> Nat]
  BY SpendIs DEF DeleteNamespace, Disturbances, IInv, TypeOK
<1>3. DOMAIN f \subseteq Objects /\ \A o \in DOMAIN f : f[o] = None
  OBVIOUS
<1> HIDE DEF f
<1>4. /\ ObjTypes' /\ objC' = objC
      /\ \A o \in Objects : obj'[o] = IF o \in DOMAIN f THEN f[o] ELSE obj[o]
  BY <1>1, <1>3, WriteObjectsIs, TypeParts DEF IInv
<1>5. \A o \in Objects : obj'[o] \in {obj[o], None} /\ objC'[o] \in {objC[o], obj[o]}
  BY <1>3, <1>4
<1>6. \A m \in Namespaces : Guarded(m) => Guarded(m)'
  BY <1>1 DEF Guarded, IInv, TypeOK
<1>7. NsTypes' /\ NsOK'
  BY <1>1, <1>6 DEF IInv, TypeOK, NsTypes, NsOK
<1>8. PolicyTypes' /\ QueueTypes' /\ rec' \in Reconciles /\ RecOK'
  BY <1>1, TypeParts DEF IInv, TypeOK, PolicyTypes, QueueTypes, PolicyVars, RecOK
<1>9. StepOK'
  <2> SUFFICES ASSUME rec.at \in {"quota", "clusterQueue", "localQueue"}
               PROVE  \E m \in Namespaces : m = NamespaceOf[rec.p] /\ Guarded(m)'
    BY <1>1 DEF StepOK, Guarded
  <2>1. rec.p \in Policies /\ Guarded(NamespaceOf[rec.p])
    BY UnderWay DEF IInv, StepOK
  <2> QED BY <1>6, <2>1, Names
<1>10. OwnersOK'
  BY <1>5, <1>6, ShelterStays
<1> QED BY <1>2, <1>4, <1>6, <1>7, <1>8, <1>9, <1>10, NamespacesMove

LEMMA CreateNamespaceKeeps ==
    ASSUME IInv, NEW n \in Namespaces, CreateNamespace(n) PROVE IInv'
<1>1. /\ ns[n] = "absent" /\ ns' = [ns EXCEPT ![n] = "plain"] /\ recycled' = recycled /\ nsC' = nsC
      /\ UNCHANGED PolicyVars /\ UNCHANGED ObjVars /\ queue' = queue /\ retry' = retry
      /\ rec' = rec /\ left' = left
  BY DEF CreateNamespace
<1>2. \A m \in Namespaces : Guarded(m) => Guarded(m)'
  BY <1>1 DEF Guarded, IInv, TypeOK
<1>3. NsTypes' /\ NsOK'
  BY <1>1, <1>2 DEF IInv, TypeOK, NsTypes, NsOK
<1>4. /\ PolicyTypes' /\ ObjTypes' /\ QueueTypes' /\ rec' \in Reconciles /\ RecOK'
      /\ left' \in [Disturbances -> Nat]
  BY <1>1, TypeParts DEF IInv, TypeOK, PolicyTypes, ObjTypes, QueueTypes, PolicyVars, ObjVars, RecOK
<1>5. StepOK'
  <2> SUFFICES ASSUME rec.at \in {"quota", "clusterQueue", "localQueue"}
               PROVE  \E m \in Namespaces : m = NamespaceOf[rec.p] /\ Guarded(m)'
    BY <1>1 DEF StepOK, Guarded
  <2>1. rec.p \in Policies /\ Guarded(NamespaceOf[rec.p])
    BY UnderWay DEF IInv, StepOK
  <2> QED BY <1>2, <2>1, Names
<1>6. obj' = obj /\ objC' = objC
  BY <1>1 DEF ObjVars
<1>7. OwnersOK'
  BY <1>2, <1>6, ShelterStays
<1> QED BY <1>2, <1>3, <1>4, <1>5, <1>7, NamespacesMove

-----------------------------------------------------------------------------
(* Every state satisfies IInv.                                             *)

LEMMA InitHolds == Init => IInv
<1> SUFFICES ASSUME Init PROVE IInv
  OBVIOUS
<1>1. /\ policyC = policy /\ policyF = [p \in Policies |-> TRUE]
      /\ obj = [o \in Objects |-> None] /\ objC = obj
      /\ objF = [o \in Objects |-> TRUE] /\ wake = [o \in Objects |-> {}]
      /\ ns = [n \in Namespaces |-> "plain"] /\ nsC = ns
      /\ queue = Policies /\ retry = {} /\ rec = Idle /\ recycled = {}
  BY DEF Init
<1>2. policy \in [Policies -> Policy \cup {None}] /\ left \in [Disturbances -> Nat]
  <2>1. PICK sc \in Scenarios, s \in [Policies -> Specs] :
           /\ policy = [p \in Policies |-> IF p \in sc.policies THEN NewPolicy(0, s[p]) ELSE None]
           /\ left = sc.budget
    BY DEF Init
  <2>2. left \in [Disturbances -> Nat]
    BY <2>1, ScenariosAssumption
  <2>3. \A p \in Policies : NewPolicy(0, s[p]) \in Policy
    BY NewPolicyIs
  <2> QED BY <2>1, <2>2, <2>3
<1>3. PolicyTypes /\ ObjTypes /\ NsTypes /\ QueueTypes
  BY <1>1, <1>2 DEF PolicyTypes, ObjTypes, NsTypes, QueueTypes
<1>4. TypeOK
  BY <1>1, <1>2, <1>3, IdleIs, TypeParts
<1>5. RecOK /\ StepOK
  BY <1>1, IdleIs DEF RecOK, StepOK
<1>6. OwnersOK
  BY <1>1 DEF OwnersOK, Sheltered
<1>7. NsOK
  BY <1>1 DEF NsOK, Guarded
<1> QED BY <1>4, <1>5, <1>6, <1>7 DEF IInv

LEMMA NextKeeps == IInv /\ [Next]_vars => IInv'
<1> SUFFICES ASSUME IInv, [Next]_vars PROVE IInv'
  OBVIOUS
<1>1. CASE Reconcile
  BY <1>1, BeginKeeps, DropsKeep, DropFinalizerKeeps, EnforceKeeps, SyncQuotaKeeps, SyncKueueKeeps,
     SyncStatusKeeps DEF Reconcile
<1>2. CASE Delivery
  BY <1>2, DeliveryKeeps
<1>3. CASE CallFails
  BY <1>3, CallFailsKeeps
<1>4. CASE Crash
  BY <1>4, CrashKeeps
<1>5. CASE Environment
  <2>1. CASE \E p \in Policies : \/ DeletePolicy(p)
                                \/ \E s \in Specs : EditSpec(p, s) \/ RecreatePolicy(p, s)
    BY <2>1, DeletePolicyKeeps, EditSpecKeeps, RecreatePolicyKeeps
  <2>2. CASE \E o \in Objects : \/ CreateForeign(o) \/ RemoveObject(o) \/ Drift(o)
                               \/ KueueReports(o) \/ CollectGarbage(o)
    BY <2>2, ObjectStepsKeep
  <2>3. CASE \E n \in Namespaces : DeleteNamespace(n) \/ CreateNamespace(n)
    BY <2>3, DeleteNamespaceKeeps, CreateNamespaceKeeps
  <2> QED BY <1>5, <2>1, <2>2, <2>3 DEF Environment
<1>6. CASE UNCHANGED vars
  <2>1. /\ UNCHANGED PolicyVars /\ UNCHANGED ObjVars /\ UNCHANGED NsVars
        /\ queue' = queue /\ retry' = retry /\ rec' = rec /\ left' = left
    BY <1>6 DEF vars, PolicyVars, ObjVars, NsVars
  <2>2. PolicyTypes' /\ QueueTypes' /\ left' \in [Disturbances -> Nat]
    BY <2>1 DEF IInv, TypeOK, PolicyTypes, QueueTypes, PolicyVars
  <2> QED BY <2>1, <2>2, RestKeepsObjects, OthersKeep
<1> QED BY <1>1, <1>2, <1>3, <1>4, <1>5, <1>6 DEF Next

LEMMA IInvHolds == Spec => []IInv
BY InitHolds, NextKeeps, PTL DEF Spec

-----------------------------------------------------------------------------
(* What settling rests on.                                                 *)

(* Object x has policy p, of whatever uid, for its owner.                  *)
Mine(p, x) == x # None /\ x.owner # Other /\ x.owner[1] = p

(* The objects that a policy p with copy c may have made.                  *)
Places(p, c) == {ResourceQuota(p), ClusterQueue(c.spec.tenant),
                 LocalQueue(c.spec.tenant, NamespaceOf[p])}

(* Uids count down to the one that the next policy will get.               *)
Known(i, next) == i = 0 \/ i > next

UidsOK ==
    /\ \A p \in Policies : /\ policy[p] # None => Known(policy[p].uid, left["recreations"])
                           /\ policyC[p] # None => Known(policyC[p].uid, left["recreations"])
    /\ rec # Idle => Known(rec.copy.uid, left["recreations"])
    /\ \A o \in Objects : obj[o] # None /\ obj[o].owner # Other => Known(obj[o].owner[2], left["recreations"])

(* A copy of a policy, however old, names the tenant that the policy has   *)
(* now, unless it was made again since.                                    *)
Agrees(c, now) == now # None /\ c.uid = now.uid => c.spec.tenant = now.spec.tenant

TenantsOK ==
    /\ \A p \in Policies : policyC[p] # None => Agrees(policyC[p], policy[p])
    /\ rec # Idle => Agrees(rec.copy, policy[rec.p])

(* What a policy owns bears one of its names.                              *)
PlacesOK == \A p \in Policies : policy[p] # None => Owned(p) \subseteq Places(p, policy[p])

(* Where tenants are not edited.                                           *)
NamesOK == left["tenants"] = 0 /\ UidsOK /\ TenantsOK /\ PlacesOK

(* Policy p is queued, or an event that will queue it is on its way.       *)
Coming(p) == p \in queue \/ \E o \in Objects : p \in wake[o]

(* ... or it will be looked at again for another reason.                   *)
Pending(p) == Coming(p) \/ p \in retry \/ ~policyF[p]

(* A copy called fresh is the server's object, and a change of an object   *)
(* that a policy owns, or owned, has an event on its way.                  *)
CopiesOK == \A p \in Policies : policyF[p] => policyC[p] = policy[p]
WakesOK == \A o \in Objects :
              IF objF[o] THEN objC[o] = obj[o] /\ wake[o] = {}
              ELSE \A p \in Policies : Mine(p, obj[o]) \/ Mine(p, objC[o]) => p \in wake[o]

(* Object o, which is x, is as copy c of policy p asks.                     *)
Owns(p, c, x) == x # None /\ x.owner = <<p, c.uid>>
ContentOf(c, o) == IF o[1] = "LocalQueue" THEN o[2] ELSE c.spec.gpus
Asked(c, o) == c.spec.training <=> o[1] # "ResourceQuota"
Fits(p, c, o, x) == IF Asked(c, o) THEN Owns(p, c, x) /\ x.content = ContentOf(c, o)
                    ELSE ~Owns(p, c, x)

(* Only its finalizer keeps a deleted policy.                              *)
FinalizersOK == \A p \in Policies : policy[p] # None /\ policy[p].deleting => policy[p].finalizer

(* A reconcile has the policy as it is, or it is not the last one.         *)
HeldOK == rec # Idle => IF rec.ok THEN rec.copy = policy[rec.p]
                        ELSE rec.p \in queue \/ ~policyF[rec.p]

(* Each step suits the copy.                                               *)
ShapeOK ==
    /\ rec.at \in {"finalize", "dropFinalizer"} => rec.copy.deleting
    /\ rec.at \in {"enforce", "quota", "clusterQueue", "localQueue", "status"} => ~rec.copy.deleting
    /\ rec.at \in {"clusterQueue", "localQueue"} => rec.copy.spec.training
    /\ rec.at \in {"dropLocalQueue", "dropClusterQueue"} /\ ~rec.copy.deleting => ~rec.copy.spec.training

(* The objects that a reconcile at step at has been through.               *)
Passed(at, p, c) ==
    CASE at \in {"clusterQueue", "dropLocalQueue"} -> {ResourceQuota(p)}
      [] at = "localQueue" -> {ResourceQuota(p), ClusterQueue(c.spec.tenant)}
      [] at = "dropClusterQueue" -> {ResourceQuota(p), LocalQueue(c.spec.tenant, NamespaceOf[p])}
      [] at = "status" -> Places(p, c)
      [] OTHER -> {}

(* What a reconcile has been through is as asked, or another is to come.   *)
SyncedOK ==
    rec # Idle /\ ~rec.copy.deleting =>
       Coming(rec.p) \/ \A o \in Passed(rec.at, rec.p, rec.copy) : Fits(rec.p, rec.copy, o, obj[o])

(* At rest a policy is right, or will be looked at again.                  *)
RestOK == \A p \in Policies :
             (rec = Idle \/ rec.p # p) /\ policy[p] # None => Pending(p) \/ Right(p)

SettlingInv == /\ NamesOK /\ CopiesOK /\ WakesOK /\ FinalizersOK
               /\ HeldOK /\ ShapeOK /\ SyncedOK /\ RestOK

(* A step and policy p: it stays, goes, is written by one who knows it, or *)
(* is made anew.                                                           *)
MovesPolicy(p) ==
    \/ policy'[p] \in {policy[p], None}
    \/ /\ policy[p] # None
       /\ policy'[p].uid = policy[p].uid /\ policy'[p].spec.tenant = policy[p].spec.tenant
    \/ /\ policy[p] = None /\ policy'[p].uid = left["recreations"]
       /\ left["recreations"] > left'["recreations"]

(* ... and an object: its owner stays, or is the reconcile's policy.       *)
MovesObject(o) ==
    \/ obj'[o] = None \/ obj'[o].owner = Other
    \/ obj[o] # None /\ obj'[o].owner = obj[o].owner
    \/ rec # Idle /\ o \in Places(rec.p, rec.copy) /\ obj'[o].owner = <<rec.p, rec.copy.uid>>

(* ... and the reconcile: it ends, goes on or begins.                      *)
MovesRec ==
    \/ rec' = Idle
    \/ rec # Idle /\ rec'.p = rec.p /\ rec'.copy = rec.copy
    \/ /\ rec'.p \in Policies /\ policyC[rec'.p] # None
       /\ rec'.copy = policyC[rec'.p] /\ policy' = policy

(* What every step does to the names.                                      *)
Moves ==
    /\ left'["tenants"] = 0 /\ left'["recreations"] <= left["recreations"]
    /\ left'["recreations"] \in Nat
    /\ \A p \in Policies : MovesPolicy(p) /\ policyC'[p] \in {policyC[p], policy'[p]}
    /\ \A o \in Objects : MovesObject(o)
    /\ MovesRec

(* A step and an object as policy p sees it: p will hear of it, or nothing *)
(* of it concerns p.                                                       *)
Unmoved(p, o) == obj'[o] = obj[o] \/ (~Mine(p, obj[o]) /\ ~Mine(p, obj'[o]))
Noticed == \A p \in Policies, o \in Objects :
              p \in wake'[o] \/ (p \notin wake[o] /\ Unmoved(p, o))

-----------------------------------------------------------------------------
(* Lemmas about them.                                                      *)

LEMMA LeftIs ==
    ASSUME IInv, NamesOK, left' = left \/ \E b \in Disturbances \ {"tenants"} : Spend(b)
    PROVE  /\ left'["tenants"] = 0 /\ left'["recreations"] <= left["recreations"]
           /\ left'["recreations"] \in Nat
<1>1. /\ left \in [Disturbances -> Nat] /\ left["tenants"] = 0
      /\ "tenants" \in Disturbances /\ "recreations" \in Disturbances
  BY DEF IInv, TypeOK, NamesOK, Disturbances
<1>2. CASE left' = left
  BY <1>1, <1>2
<1>3. ASSUME NEW b \in Disturbances \ {"tenants"}, Spend(b)
      PROVE  /\ left'["tenants"] = 0 /\ left'["recreations"] <= left["recreations"]
             /\ left'["recreations"] \in Nat
  <2>1. left[b] \in Nat /\ left[b] > 0 /\ left' = [left EXCEPT ![b] = left[b] - 1]
    BY <1>1, <1>3 DEF Spend
  <2> QED BY <1>1, <2>1
<1> QED BY <1>2, <1>3

LEMMA OwnsIs ==
    ASSUME NEW p \in Policies, NEW c \in Policy, NEW x, x # None, x.owner = <<p, c.uid>>
    PROVE  Mine(p, x)
<1>1. <<p, c.uid>> # Other
  BY PolicyIs, OtherAssumption
<1> QED BY <1>1 DEF Mine

LEMMA NamesStay ==
    ASSUME IInv, NamesOK, Moves PROVE NamesOK'
<1>1. /\ left["recreations"] \in Nat /\ left'["recreations"] \in Nat
      /\ left'["recreations"] <= left["recreations"]
  BY DEF IInv, TypeOK, Moves, Disturbances
<1>2. ASSUME NEW i \in Nat, Known(i, left["recreations"]) PROVE Known(i, left'["recreations"])
  BY <1>1, <1>2 DEF Known
<1>3. /\ \A p \in Policies : policy[p] \in Policy \cup {None} /\ policyC[p] \in Policy \cup {None}
      /\ rec # Idle => rec.p \in Policies /\ rec.copy \in Policy
      /\ \A o \in Objects : obj[o] \in Object \cup {None}
  BY DEF IInv, TypeOK, RecOK
<1>0. /\ \A c \in Policy : c.uid \in Nat
      /\ \A x \in Object : x.owner # Other => x.owner[2] \in Nat
  BY PolicyIs DEF Object, Owners, Uids
<1>4. ASSUME NEW p \in Policies, policy'[p] # None PROVE Known(policy'[p].uid, left'["recreations"])
  <2>1. CASE policy[p] = None /\ policy'[p].uid = left["recreations"]
             /\ left["recreations"] > left'["recreations"]
    BY <2>1 DEF Known
  <2>2. CASE policy[p] # None /\ policy'[p].uid = policy[p].uid
    BY <1>0, <1>3, <1>2, <2>2 DEF NamesOK, UidsOK
  <2> QED BY <1>4, <2>1, <2>2 DEF Moves, MovesPolicy
<1>5. ASSUME NEW p \in Policies, policyC'[p] # None PROVE Known(policyC'[p].uid, left'["recreations"])
  <2>1. CASE policyC'[p] = policyC[p]
    BY <1>0, <1>3, <1>2, <1>5, <2>1 DEF NamesOK, UidsOK
  <2>2. CASE policyC'[p] = policy'[p]
    BY <1>4, <1>5, <2>2
  <2> QED BY <2>1, <2>2 DEF Moves
<1>6. ASSUME rec' # Idle PROVE Known(rec'.copy.uid, left'["recreations"])
  <2>1. CASE rec # Idle /\ rec'.copy = rec.copy
    BY <1>0, <1>3, <1>2, <2>1 DEF NamesOK, UidsOK
  <2>2. CASE rec'.p \in Policies /\ policyC[rec'.p] # None /\ rec'.copy = policyC[rec'.p]
    BY <1>0, <1>3, <1>2, <2>2 DEF NamesOK, UidsOK
  <2> QED BY <1>6, <2>1, <2>2 DEF Moves, MovesRec
<1>7. ASSUME NEW o \in Objects, obj'[o] # None, obj'[o].owner # Other
      PROVE  /\ Known(obj'[o].owner[2], left["recreations"]) /\ Known(obj'[o].owner[2], left'["recreations"])
  <2>1. CASE obj[o] # None /\ obj'[o].owner = obj[o].owner
    BY <1>0, <1>2, <1>3, <1>7, <2>1 DEF NamesOK, UidsOK
  <2>2. CASE rec # Idle /\ obj'[o].owner = <<rec.p, rec.copy.uid>>
    BY <1>0, <1>2, <1>3, <2>2 DEF NamesOK, UidsOK
  <2> QED BY <1>7, <2>1, <2>2 DEF Moves, MovesObject
<1>8. UidsOK'
  BY <1>2, <1>4, <1>5, <1>6, <1>7 DEF UidsOK, Known
<1>9. ASSUME NEW p \in Policies, NEW c \in Policy, Agrees(c, policy[p]), Known(c.uid, left["recreations"]) PROVE Agrees(c, policy'[p])
  <2>1. c.uid \in Nat
    BY PolicyIs
  <2>2. CASE policy'[p] \in {policy[p], None}
    BY <1>9, <2>2 DEF Agrees
  <2>3. CASE policy[p] # None /\ policy'[p].uid = policy[p].uid
             /\ policy'[p].spec.tenant = policy[p].spec.tenant
    BY <1>9, <2>3 DEF Agrees
  <2>4. CASE policy'[p].uid = left["recreations"] /\ left["recreations"] > left'["recreations"]
    BY <1>1, <1>9, <2>1, <2>4 DEF Agrees, Known
  <2> QED BY <2>2, <2>3, <2>4 DEF Moves, MovesPolicy
<1>10. ASSUME NEW p \in Policies, policyC'[p] # None PROVE Agrees(policyC'[p], policy'[p])
  <2>1. CASE policyC'[p] = policyC[p]
    <3>1. PICK c \in Policy : c = policyC[p]
      BY <1>3, <1>10, <2>1
    <3>2. Agrees(c, policy[p]) /\ Known(c.uid, left["recreations"])
      BY <1>10, <2>1, <3>1 DEF NamesOK, TenantsOK, UidsOK
    <3> QED BY <1>9, <2>1, <3>1, <3>2 DEF Agrees
  <2>2. CASE policyC'[p] = policy'[p]
    BY <2>2 DEF Agrees
  <2> QED BY <2>1, <2>2 DEF Moves
<1>11. ASSUME rec' # Idle PROVE Agrees(rec'.copy, policy'[rec'.p])
  <2>1. CASE rec # Idle /\ rec'.p = rec.p /\ rec'.copy = rec.copy
    <3>1. PICK c \in Policy, p \in Policies : c = rec.copy /\ p = rec.p
      BY <1>3, <2>1
    <3>2. Agrees(c, policy[p]) /\ Known(c.uid, left["recreations"])
      BY <2>1, <3>1 DEF NamesOK, TenantsOK, UidsOK
    <3> QED BY <1>9, <2>1, <3>1, <3>2 DEF Agrees
  <2>2. CASE rec'.p \in Policies /\ policyC[rec'.p] # None /\ rec'.copy = policyC[rec'.p]
             /\ policy' = policy
    BY <2>2 DEF NamesOK, TenantsOK, Agrees
  <2> QED BY <1>11, <2>1, <2>2 DEF Moves, MovesRec
<1>12. TenantsOK'
  BY <1>10, <1>11 DEF TenantsOK, Agrees
<1>13. ASSUME NEW p \in Policies, policy'[p] # None, NEW o \in Objects, obj'[o] # None,
              obj'[o].owner = <<p, policy'[p].uid>>
       PROVE  o \in Places(p, policy[p]) /\ policy'[p].spec.tenant = policy[p].spec.tenant
  <2>1. policy'[p].uid \in Nat => obj'[o].owner # Other
    BY <1>13, OtherAssumption
  <2>2. policy'[p].uid = left["recreations"] \/ (policy[p] # None /\ policy'[p].uid = policy[p].uid)
    BY <1>13 DEF Moves, MovesPolicy
  <2>3. obj'[o].owner # Other /\ policy'[p].uid \in Nat
    BY <1>1, <1>3, <2>1, <2>2, PolicyIs
  <2>4. Known(obj'[o].owner[2], left["recreations"]) /\ obj'[o].owner[2] = policy'[p].uid
    <3>1. obj'[o].owner[2] = policy'[p].uid
      BY <1>13
    <3>2. Known(obj'[o].owner[2], left["recreations"])
      BY <1>7, <1>13, <2>3
    <3> QED BY <3>1, <3>2
  <2>5. ~(policy'[p].uid = left["recreations"] /\ left["recreations"] > left'["recreations"])
    BY <1>1, <2>4 DEF Known
  <2>6. policy[p] # None /\ policy'[p].uid = policy[p].uid
        /\ policy'[p].spec.tenant = policy[p].spec.tenant
    BY <1>13, <2>5 DEF Moves, MovesPolicy
  <2>7. CASE obj[o] # None /\ obj'[o].owner = obj[o].owner
    BY <1>13, <2>6, <2>7 DEF NamesOK, PlacesOK, Owned
  <2>8. CASE rec # Idle /\ o \in Places(rec.p, rec.copy) /\ obj'[o].owner = <<rec.p, rec.copy.uid>>
    <3>1. rec.p = p /\ rec.copy.uid = policy[p].uid
      BY <1>13, <2>6, <2>8
    <3>2. rec.copy.spec.tenant = policy[p].spec.tenant
      BY <2>6, <2>8, <3>1 DEF NamesOK, TenantsOK, Agrees
    <3> QED BY <2>6, <2>8, <3>1, <3>2 DEF Places
  <2> QED BY <1>13, <2>3, <2>6, <2>7, <2>8 DEF Moves, MovesObject
<1>14. PlacesOK'
  <2> SUFFICES ASSUME NEW p \in Policies, policy'[p] # None, NEW o \in Objects, obj'[o] # None,
                      obj'[o].owner = <<p, policy'[p].uid>>
               PROVE  o \in Places(p, policy'[p])
    BY DEF PlacesOK, Owned, Places
  <2> QED BY <1>13 DEF Places
<1> QED BY <1>8, <1>12, <1>14 DEF NamesOK, Moves

LEMMA ObjectsWritten ==
    ASSUME IInv, WakesOK, NEW f, \A o \in DOMAIN f : f[o] \in Object \cup {None}, WriteObjects(f)
    PROVE  WakesOK' /\ Noticed
<1>1. /\ objF \in [Objects -> BOOLEAN] /\ wake \in [Objects -> SUBSET Policies] /\ objC' = objC
      /\ obj \in [Objects -> Object \cup {None}]
  BY DEF IInv, TypeOK, WriteObjects
<1>2. ASSUME NEW o \in Objects, o \in DOMAIN f
      PROVE  /\ obj'[o] = f[o] /\ ~objF'[o]
             /\ \A p \in Policies :
                   p \in wake'[o] <=> p \in wake[o] \/ Mine(p, obj[o]) \/ Mine(p, f[o])
  BY <1>2 DEF WriteObjects, OwnersOf, Mine
<1>3. ASSUME NEW o \in Objects, o \notin DOMAIN f
      PROVE  obj'[o] = obj[o] /\ objF'[o] = objF[o] /\ wake'[o] = wake[o]
  BY <1>1, <1>3 DEF WriteObjects
<1>4. WakesOK'
  <2> SUFFICES ASSUME NEW o \in Objects
               PROVE  IF objF'[o] THEN objC'[o] = obj'[o] /\ wake'[o] = {}
                      ELSE \A p \in Policies : Mine(p, obj'[o]) \/ Mine(p, objC'[o]) => p \in wake'[o]
    BY DEF WakesOK, Mine
  <2>1. CASE o \in DOMAIN f
    BY <1>1, <1>2, <2>1 DEF WakesOK
  <2>2. CASE o \notin DOMAIN f
    BY <1>1, <1>3, <2>2 DEF WakesOK
  <2> QED BY <2>1, <2>2
<1>5. Noticed
  <2> SUFFICES ASSUME NEW p \in Policies, NEW o \in Objects
               PROVE  p \in wake'[o] \/ (p \notin wake[o] /\ Unmoved(p, o))
    BY DEF Noticed
  <2>1. CASE o \in DOMAIN f
    BY <1>2, <2>1 DEF Unmoved
  <2>2. CASE o \notin DOMAIN f
    BY <1>3, <2>2 DEF Unmoved
  <2> QED BY <2>1, <2>2
<1> QED BY <1>4, <1>5

LEMMA ObjectWritten ==
    ASSUME IInv, WakesOK, NEW o \in Objects, NEW v \in Object \cup {None}, WriteObject(o, v)
    PROVE  /\ WakesOK' /\ Noticed
           /\ \A p \in Policies : Mine(p, v) \/ Mine(p, obj[o]) => p \in wake'[o]
<1> DEFINE f == [x \in {o} |-> v]
<1>1. o \in DOMAIN f /\ f[o] = v /\ \A x \in DOMAIN f : f[x] \in Object \cup {None}
  OBVIOUS
<1>2. WriteObjects(f)
  BY DEF WriteObject
<1> HIDE DEF f
<1>3. WakesOK' /\ Noticed
  BY <1>1, <1>2, ObjectsWritten
<1>4. wake'[o] = wake[o] \cup OwnersOf({obj[o], v})
  BY <1>1, <1>2 DEF WriteObjects
<1> QED BY <1>3, <1>4 DEF OwnersOf, Mine

LEMMA ObjectsUnwritten ==
    ASSUME WakesOK, UNCHANGED ObjVars PROVE WakesOK' /\ Noticed
BY DEF ObjVars, WakesOK, Mine, Noticed, Unmoved

(* What fits, and what is right, does as long as nothing that concerns the *)
(* policy moves.                                                           *)
LEMMA FitsStays ==
    ASSUME NEW p \in Policies, NEW c \in Policy, NEW o \in Objects, Unmoved(p, o),
           Fits(p, c, o, obj[o])
    PROVE  Fits(p, c, o, obj'[o])
<1>1. \A x : Owns(p, c, x) => Mine(p, x)
  BY OwnsIs DEF Owns
<1> QED BY <1>1 DEF Unmoved, Fits

LEMMA NamesDiffer ==
    ASSUME NEW p, NEW t, NEW n
    PROVE  /\ ResourceQuota(p)[1] = "ResourceQuota" /\ ClusterQueue(t)[1] = "ClusterQueue"
           /\ LocalQueue(t, n)[1] = "LocalQueue" /\ LocalQueue(t, n)[2] = t
BY DEF ResourceQuota, ClusterQueue, LocalQueue

(* A policy is right if all it asks for fits, and its status says so.      *)
Told(p) ==
    /\ ~policy[p].deleting
    /\ policy[p].status.phase = "Synced" /\ policy[p].status.observed = policy[p].spec
    /\ policy[p].status.admitting =
          IF ~policy[p].spec.training THEN Unset
          ELSE IF obj[ClusterQueue(policy[p].spec.tenant)].active THEN "True" ELSE "False"

LEMMA RightIs ==
    ASSUME IInv, PlacesOK, NEW p \in Policies, policy[p] # None
    PROVE  Right(p) <=> Told(p) /\ \A o \in Places(p, policy[p]) : Fits(p, policy[p], o, obj[o])
<1> DEFINE c == policy[p]
           rq == ResourceQuota(p)
           cq == ClusterQueue(c.spec.tenant)
           lq == LocalQueue(c.spec.tenant, NamespaceOf[p])
<1>1. c \in Policy /\ c.spec.training \in BOOLEAN /\ c.spec.tenant \in Tenants
  BY PolicyIs DEF IInv, TypeOK
<1>2. rq \in Objects /\ cq \in Objects /\ lq \in Objects /\ Places(p, c) = {rq, cq, lq}
  BY <1>1, Names DEF Places
<1>3. /\ rq[1] = "ResourceQuota" /\ cq[1] = "ClusterQueue" /\ lq[1] = "LocalQueue"
      /\ lq[2] = c.spec.tenant
  BY NamesDiffer
<1>4. Wanted(p) = IF c.spec.training THEN {cq, lq} ELSE {rq}
  BY DEF Wanted
<1> HIDE DEF rq, cq, lq
<1>5. \A o \in Places(p, c) : o \in Wanted(p) <=> Asked(c, o)
  BY <1>1, <1>2, <1>3, <1>4 DEF Asked
<1>6. \A o \in Objects : o \in Owned(p) <=> Owns(p, c, obj[o])
  BY DEF Owned, Owns
<1>7. Owned(p) \subseteq Places(p, c)
  BY DEF PlacesOK
<1>8. Wanted(p) \subseteq Places(p, c) /\ Places(p, c) \subseteq Objects
  BY <1>1, <1>2, <1>4
<1>9. \A o \in Places(p, c) : Content(p, o) = ContentOf(c, o)
  BY DEF Content, ContentOf
<1>10. (Owned(p) = Wanted(p) /\ \A o \in Wanted(p) : obj[o].content = Content(p, o))
          <=> \A o \in Places(p, c) : Fits(p, c, o, obj[o])
  <2>1. ASSUME Owned(p) = Wanted(p), \A o \in Wanted(p) : obj[o].content = Content(p, o)
        PROVE  \A o \in Places(p, c) : Fits(p, c, o, obj[o])
    BY <1>5, <1>6, <1>8, <1>9, <2>1 DEF Fits
  <2>2. ASSUME \A o \in Places(p, c) : Fits(p, c, o, obj[o])
        PROVE  Owned(p) = Wanted(p) /\ \A o \in Wanted(p) : obj[o].content = Content(p, o)
    BY <1>5, <1>6, <1>7, <1>8, <1>9, <2>2 DEF Fits, Owned
  <2> QED BY <2>1, <2>2
<1> QED BY <1>10 DEF Right, Told

LEMMA RightStays ==
    ASSUME IInv, NEW p \in Policies, policy'[p] = policy[p], \A o \in Objects : Unmoved(p, o), Right(p)
    PROVE  Right(p)'
<1> SUFFICES ASSUME policy[p] # None PROVE Right(p)'
  BY DEF Right
<1> DEFINE c == policy[p]
<1>1. c \in Policy /\ c.spec.tenant \in Tenants
  BY PolicyIs DEF IInv, TypeOK
<1>2. \A x : x # None /\ x.owner = <<p, c.uid>> => Mine(p, x)
  BY <1>1, OwnsIs
<1>3. Owned(p)' = Owned(p) /\ \A o \in Owned(p) : obj'[o] = obj[o]
  BY <1>2 DEF Owned, Unmoved
<1>4. Wanted(p)' = Wanted(p) /\ Wanted(p) = Owned(p)
  BY DEF Wanted, Right
<1>5. \A o \in Wanted(p) : obj'[o].content = Content(p, o) /\ Content(p, o)' = Content(p, o)
  BY <1>3, <1>4 DEF Right, Content
<1>6. c.spec.training => obj'[ClusterQueue(c.spec.tenant)] = obj[ClusterQueue(c.spec.tenant)]
  BY <1>3, <1>4 DEF Wanted
<1> QED BY <1>3, <1>4, <1>5, <1>6 DEF Right

LEMMA PassedIs ==
    ASSUME NEW p \in Policies, NEW c \in Policy, NEW at
    PROVE  Passed(at, p, c) \subseteq Places(p, c) /\ Places(p, c) \subseteq Objects
<1>1. Places(p, c) \subseteq Objects
  BY PolicyIs, Names DEF Places
<1> QED BY <1>1 DEF Passed, Places

(* A policy hears of what concerns it.                                     *)
LEMMA ComingStays ==
    ASSUME Noticed, queue \subseteq queue', NEW p \in Policies
    PROVE  /\ Coming(p) => Coming(p)'
           /\ Coming(p)' \/ \A o \in Objects : Unmoved(p, o)
BY DEF Noticed, Coming

LEMMA PendingStays ==
    ASSUME Noticed, queue \subseteq queue', retry \subseteq retry', NEW p \in Policies,
           policyF'[p] = policyF[p]
    PROVE  /\ Pending(p) => Pending(p)'
           /\ Pending(p)' \/ \A o \in Objects : Unmoved(p, o)
BY ComingStays DEF Pending

(* A policy that no reconcile looks at.                                    *)
LEMMA RestStays ==
    ASSUME IInv, RestOK, NEW p \in Policies, policy'[p] = policy[p], rec = Idle \/ rec.p # p,
           Pending(p) => Pending(p)', Pending(p)' \/ \A o \in Objects : Unmoved(p, o)
    PROVE  policy'[p] # None => Pending(p)' \/ Right(p)'
BY RightStays DEF RestOK

(* A reconcile that stays where it is.                                     *)
LEMMA SyncedStays ==
    ASSUME IInv, SyncedOK, rec # Idle, rec'.at = rec.at, rec'.p = rec.p, rec'.copy = rec.copy,
           \A p \in Policies : /\ Coming(p) => Coming(p)'
                               /\ Coming(p)' \/ \A o \in Objects : Unmoved(p, o)
    PROVE  SyncedOK'
<1>1. PICK p \in Policies, c \in Policy : p = rec.p /\ c = rec.copy
  BY DEF IInv, RecOK
<1>2. ASSUME ~c.deleting, ~Coming(p)' PROVE \A o \in Passed(rec.at, p, c) : Fits(p, c, o, obj'[o])
  BY <1>1, <1>2, PassedIs, FitsStays DEF SyncedOK
<1> QED BY <1>1, <1>2 DEF SyncedOK, Coming

(* Steps of others that leave the policies and the reconcile alone.        *)
LEMMA OthersSettle ==
    ASSUME IInv, SettlingInv, NamesOK', CopiesOK', WakesOK', rec' = rec, policy' = policy,
           \A p \in Policies :
              /\ Coming(p) => Coming(p)'
              /\ Coming(p)' \/ \A o \in Objects : Unmoved(p, o)
              /\ Pending(p) => Pending(p)'
              /\ p \in queue \/ ~policyF[p] => p \in queue' \/ ~policyF'[p]
    PROVE  SettlingInv'
<1>1. FinalizersOK' /\ ShapeOK'
  BY DEF SettlingInv, FinalizersOK, ShapeOK
<1>2. HeldOK'
  BY DEF SettlingInv, HeldOK, IInv, RecOK
<1>3. SyncedOK'
  <2>1. CASE rec = Idle
    BY <2>1 DEF SyncedOK
  <2>2. CASE rec # Idle
    BY <2>2, SyncedStays DEF SettlingInv
  <2> QED BY <2>1, <2>2
<1>4. RestOK'
  <2> SUFFICES ASSUME NEW p \in Policies, rec = Idle \/ rec.p # p, policy'[p] # None
               PROVE  Pending(p)' \/ Right(p)'
    BY DEF RestOK
  <2>1. Pending(p)' \/ \A o \in Objects : Unmoved(p, o)
    BY DEF Pending
  <2> QED BY <2>1, RestStays DEF SettlingInv
<1> QED BY <1>1, <1>2, <1>3, <1>4 DEF SettlingInv

(* The reconcile ends.                                                     *)
LEMMA EndSettles ==
    ASSUME IInv, SettlingInv, NamesOK', rec # Idle, Return \/ ReturnError \/ RequeueAfter,
           UNCHANGED ObjVars, NEW v, UNCHANGED PolicyVars \/ WritePolicy(rec.p, v),
           v # None /\ v.deleting => v.finalizer,
           NEW q \in Policies, q = rec.p, policy'[q] # None => Pending(q)' \/ Right(q)'
    PROVE  SettlingInv'
<1>1. WakesOK' /\ Noticed
  BY ObjectsUnwritten DEF SettlingInv
<1>2. rec' = Idle /\ queue \subseteq queue' /\ retry \subseteq retry'
  BY DEF Return, ReturnError, RequeueAfter
<1>3. HeldOK' /\ ShapeOK' /\ SyncedOK'
  BY <1>2, IdleIs DEF HeldOK, ShapeOK, SyncedOK
<1>4. /\ policy \in [Policies -> Policy \cup {None}] /\ policyF \in [Policies -> BOOLEAN]
      /\ policyC' = policyC
      /\ \A p \in Policies \ {q} : policy'[p] = policy[p] /\ policyF'[p] = policyF[p]
      /\ (policy'[q] = policy[q] /\ policyF'[q] = policyF[q]) \/ (policy'[q] = v /\ ~policyF'[q])
  BY DEF IInv, TypeOK, PolicyVars, WritePolicy
<1>5. CopiesOK' /\ FinalizersOK'
  BY <1>4 DEF SettlingInv, CopiesOK, FinalizersOK
<1>6. RestOK'
  <2> SUFFICES ASSUME NEW p \in Policies, policy'[p] # None PROVE Pending(p)' \/ Right(p)'
    BY DEF RestOK
  <2>1. CASE p = q
    BY <2>1
  <2>2. CASE p # q
    BY <1>1, <1>2, <1>4, <2>2, PendingStays, RestStays DEF SettlingInv
  <2> QED BY <2>1, <2>2
<1> QED BY <1>1, <1>3, <1>5, <1>6 DEF SettlingInv

(* The reconcile goes on.                                                  *)
LEMMA GoOnSettles ==
    ASSUME IInv, SettlingInv, NamesOK', WakesOK', Noticed, UNCHANGED PolicyVars,
           rec.at # "idle", NEW step \in Steps \ {"idle"}, GoTo(step),
           \/ rec.copy.deleting /\ step \in {"dropLocalQueue", "dropClusterQueue", "dropFinalizer"}
           \/ ~rec.copy.deleting /\ step \in {"quota", "status"}
           \/ ~rec.copy.deleting /\ rec.copy.spec.training /\ step \in {"clusterQueue", "localQueue"}
           \/ ~rec.copy.deleting /\ ~rec.copy.spec.training
              /\ step \in {"dropLocalQueue", "dropClusterQueue"},
           NEW p \in Policies, NEW c \in Policy, p = rec.p, c = rec.copy,
           NEW O, Passed(step, p, c) \subseteq Passed(rec.at, p, c) \cup O,
           ~c.deleting => Coming(p)' \/ \A o \in O : Fits(p, c, o, obj'[o])
    PROVE  SettlingInv'
<1>1. rec # Idle /\ rec \in Reconciles
  BY UnderWay, TypeParts DEF IInv
<1>2. /\ rec'.at = step /\ rec'.p = p /\ rec'.copy = c /\ rec'.ok = rec.ok
      /\ queue' = queue /\ retry' = retry /\ rec' # Idle
  <2>1. rec' = [rec EXCEPT !.at = step] /\ queue' = queue /\ retry' = retry
    BY DEF GoTo
  <2> QED BY <1>1, <2>1, IdleIs DEF Reconciles
<1>3. CopiesOK' /\ FinalizersOK'
  BY DEF SettlingInv, CopiesOK, FinalizersOK, PolicyVars
<1>4. HeldOK'
  BY <1>1, <1>2 DEF SettlingInv, HeldOK, PolicyVars
<1>5. ShapeOK'
  BY <1>1, <1>2 DEF ShapeOK
<1>6. Coming(p) => Coming(p)'
  BY <1>2, ComingStays
<1>7. ASSUME ~c.deleting, ~Coming(p)', NEW o \in Passed(step, p, c) PROVE Fits(p, c, o, obj'[o])
  <2>1. CASE o \in O
    BY <1>1, <1>7, <2>1
  <2>2. CASE o \in Passed(rec.at, p, c)
    <3>1. o \in Objects /\ Unmoved(p, o)
      BY <1>2, <1>7, <2>2, PassedIs, ComingStays
    <3>2. Fits(p, c, o, obj[o])
      BY <1>1, <1>6, <1>7, <2>2 DEF SettlingInv, SyncedOK
    <3> QED BY <3>1, <3>2, FitsStays
  <2> QED BY <1>1, <1>7, <2>1, <2>2
<1>8. SyncedOK'
  BY <1>2, <1>7 DEF SyncedOK, Coming
<1>9. RestOK'
  <2> SUFFICES ASSUME NEW q \in Policies, q # p, policy'[q] # None PROVE Pending(q)' \/ Right(q)'
    BY <1>2 DEF RestOK
  <2>1. policy'[q] = policy[q] /\ policyF'[q] = policyF[q]
    BY DEF PolicyVars
  <2> QED BY <1>1, <1>2, <2>1, PendingStays, RestStays DEF SettlingInv
<1> QED BY <1>3, <1>4, <1>5, <1>8, <1>9 DEF SettlingInv

-----------------------------------------------------------------------------
(* The reconciler's steps settle.                                          *)

LEMMA PolicyRests ==
    ASSUME UNCHANGED PolicyVars
    PROVE  \A p \in Policies : MovesPolicy(p) /\ policyC'[p] \in {policyC[p], policy'[p]}
BY DEF PolicyVars, MovesPolicy

LEMMA ObjectsRest ==
    ASSUME obj' = obj PROVE \A o \in Objects : MovesObject(o)
BY DEF MovesObject

LEMMA ObjectMoves ==
    ASSUME IInv, NEW o \in Objects, NEW v \in Object \cup {None}, WriteObject(o, v),
           \/ v = None \/ v.owner = Other
           \/ obj[o] # None /\ v.owner = obj[o].owner
           \/ rec # Idle /\ o \in Places(rec.p, rec.copy) /\ v.owner = <<rec.p, rec.copy.uid>>
    PROVE  \A x \in Objects : MovesObject(x)
<1>1. obj'[o] = v /\ \A x \in Objects : x # o => obj'[x] = obj[x]
  BY WriteObjectIs, TypeParts DEF IInv
<1> QED BY <1>1 DEF MovesObject

LEMMA GoesOn ==
    ASSUME IInv, rec.at # "idle", NEW step, GoTo(step)
    PROVE  rec # Idle /\ rec'.p = rec.p /\ rec'.copy = rec.copy /\ MovesRec
<1>1. rec \in Reconciles /\ rec # Idle
  BY TypeParts, UnderWay DEF IInv
<1>2. rec' = [rec EXCEPT !.at = step]
  BY DEF GoTo
<1>3. rec'.p = rec.p /\ rec'.copy = rec.copy
  BY <1>1, <1>2 DEF Reconciles
<1> QED BY <1>1, <1>3 DEF MovesRec

(* A status written or not, and the end.                                   *)
LEMMA StatusSettles ==
    ASSUME IInv, SettlingInv, rec.at # "idle", UNCHANGED ObjVars, left' = left, NEW s \in Status,
           Return \/ ReturnError \/ RequeueAfter,
           NEW p \in Policies, p = rec.p,
           UNCHANGED PolicyVars \/ (rec.ok /\ WritePolicy(p, [rec.copy EXCEPT !.status = s])),
           policy'[p] # None => Pending(p)' \/ Right(p)'
    PROVE  SettlingInv'
<1>1. rec # Idle /\ rec.copy \in Policy
  BY UnderWay
<1>2. PICK v : v = [rec.copy EXCEPT !.status = s]
  OBVIOUS
<1>3. /\ v.uid = rec.copy.uid /\ v.spec = rec.copy.spec
      /\ v.deleting = rec.copy.deleting /\ v.finalizer = rec.copy.finalizer
  BY <1>1, <1>2 DEF Policy
<1>4. rec' = Idle
  BY DEF Return, ReturnError, RequeueAfter
<1>5. CASE UNCHANGED PolicyVars
  <2>1. Moves
    BY <1>4, <1>5, PolicyRests, ObjectsRest, LeftIs DEF SettlingInv, Moves, MovesRec, ObjVars
  <2>2. NamesOK'
    BY <2>1, NamesStay DEF SettlingInv
  <2>3. PICK w : w = None
    OBVIOUS
  <2> QED BY <1>1, <1>5, <2>2, <2>3, EndSettles
<1>6. CASE rec.ok /\ WritePolicy(p, v)
  <2>1. policy[p] = rec.copy /\ policy[p] # None
    BY <1>1, <1>6, AbsentAssumption DEF SettlingInv, HeldOK
  <2>2. policy' = [policy EXCEPT ![p] = v] /\ policyC' = policyC
    BY <1>6 DEF WritePolicy
  <2>3. \A q \in Policies : MovesPolicy(q) /\ policyC'[q] \in {policyC[q], policy'[q]}
    BY <1>3, <2>1, <2>2 DEF IInv, TypeOK, MovesPolicy
  <2>4. Moves
    BY <1>4, <2>3, ObjectsRest, LeftIs DEF SettlingInv, Moves, MovesRec, ObjVars
  <2>5. NamesOK'
    BY <2>4, NamesStay DEF SettlingInv
  <2>6. v.deleting => v.finalizer
    BY <1>3, <2>1 DEF SettlingInv, FinalizersOK
  <2> QED BY <1>1, <1>6, <2>5, <2>6, EndSettles
<1> QED BY <1>2, <1>5, <1>6

LEMMA DegradeSettles ==
    ASSUME IInv, SettlingInv, rec.at # "idle", UNCHANGED ObjVars, left' = left, markDegraded
    PROVE  SettlingInv'
<1>1. PICK p \in Policies, c \in Policy : p = rec.p /\ c = rec.copy
  BY UnderWay
<1>2. PICK s : s = [c.status EXCEPT !.phase = "Degraded", !.observed = c.spec]
  OBVIOUS
<1>3. s \in Status
  BY <1>2, PolicyIs DEF Status
<1>4. UpdateStatus(s, RequeueAfter)
  BY <1>1, <1>2 DEF markDegraded
<1>5. /\ RequeueAfter \/ ReturnError
      /\ UNCHANGED PolicyVars \/ (rec.ok /\ WritePolicy(p, [rec.copy EXCEPT !.status = s]))
  BY <1>1, <1>4 DEF UpdateStatus
<1>6. Pending(p)'
  BY <1>1, <1>5 DEF RequeueAfter, ReturnError, Pending, Coming
<1> QED BY <1>1, <1>3, <1>5, <1>6, StatusSettles

LEMMA UnfinishedSettles ==
    ASSUME IInv, SettlingInv, rec # Idle, UNCHANGED ObjVars, UNCHANGED PolicyVars,
           left' = left \/ \E b \in Disturbances \ {"tenants"} : Spend(b),
           RequeueAfter \/ ReturnError
    PROVE  SettlingInv'
<1>1. PICK p \in Policies : p = rec.p
  BY DEF IInv, RecOK
<1>2. Pending(p)'
  BY <1>1 DEF RequeueAfter, ReturnError, Pending, Coming
<1>3. Moves
  BY PolicyRests, ObjectsRest, LeftIs
     DEF SettlingInv, Moves, MovesRec, ObjVars, RequeueAfter, ReturnError
<1>4. NamesOK'
  BY <1>3, NamesStay DEF SettlingInv
<1>5. PICK w : w = None
  OBVIOUS
<1> QED BY <1>1, <1>2, <1>4, <1>5, EndSettles

(* The next step suits the copy, and adds one object to what was synced.   *)
Follows(step, c) ==
    \/ c.deleting /\ step \in {"dropLocalQueue", "dropClusterQueue", "dropFinalizer"}
    \/ ~c.deleting /\ step \in {"quota", "status"}
    \/ ~c.deleting /\ c.spec.training /\ step \in {"clusterQueue", "localQueue"}
    \/ ~c.deleting /\ ~c.spec.training /\ step \in {"dropLocalQueue", "dropClusterQueue"}

LEMMA DeleteSettles ==
    ASSUME IInv, SettlingInv, rec.at # "idle", UNCHANGED PolicyVars, left' = left,
           NEW p \in Policies, NEW c \in Policy, p = rec.p, c = rec.copy,
           NEW o \in Places(p, c), Delete(o), c.deleting \/ ~Asked(c, o),
           NEW step \in Steps \ {"idle"}, GoTo(step), Follows(step, c),
           Passed(step, p, c) \subseteq Passed(rec.at, p, c) \cup {o}
    PROVE  SettlingInv'
<1>1. o \in Objects /\ objC[o] \in Object \cup {None}
  BY PassedIs DEF IInv, TypeOK
<1>2. queue' = queue /\ WakesOK
  BY DEF GoTo, SettlingInv
<1>3. \A x : Owns(p, c, x) => Mine(p, x)
  BY OwnsIs DEF Owns
<1>4. CASE ~Owns(p, c, objC[o]) /\ UNCHANGED ObjVars
  <2>1. WakesOK' /\ Noticed /\ \A x \in Objects : MovesObject(x)
    BY <1>2, <1>4, ObjectsUnwritten, ObjectsRest DEF ObjVars
  <2>2. Moves
    BY <2>1, GoesOn, PolicyRests, LeftIs DEF SettlingInv, Moves
  <2>3. NamesOK'
    BY <2>2, NamesStay DEF SettlingInv
  <2>4. Coming(p)' \/ ~Owns(p, c, obj'[o])
    BY <1>1, <1>2, <1>3, <1>4 DEF WakesOK, Coming, ObjVars
  <2>5. PICK O : O = {o}
    OBVIOUS
  <2>6. ~c.deleting => Coming(p)' \/ \A x \in O : Fits(p, c, x, obj'[x])
    BY <2>4, <2>5 DEF Fits
  <2> QED BY <1>4, <2>1, <2>3, <2>5, <2>6, GoOnSettles DEF Follows
<1>5. CASE Owns(p, c, objC[o]) /\ WriteObject(o, None)
  <2>1. WakesOK' /\ Noticed
    BY <1>1, <1>2, <1>5, ObjectWritten
  <2>2. \A x \in Objects : MovesObject(x)
    BY <1>1, <1>5, ObjectMoves
  <2>3. Moves
    BY <2>2, GoesOn, PolicyRests, LeftIs DEF SettlingInv, Moves
  <2>4. NamesOK'
    BY <2>3, NamesStay DEF SettlingInv
  <2>5. p \in wake'[o]
    <3>1. Mine(p, objC[o])
      BY <1>3, <1>5
    <3>2. Mine(p, obj[o]) \/ p \in wake[o]
      BY <1>1, <1>2, <3>1 DEF WakesOK
    <3> QED BY <1>1, <1>2, <1>5, <2>1, <3>2, ObjectWritten DEF Noticed
  <2>6. Coming(p)'
    BY <1>1, <2>5 DEF Coming
  <2> QED BY <2>1, <2>4, <2>6, GoOnSettles DEF Follows
<1> QED BY <1>4, <1>5 DEF Delete, IsControlledBy, Owns

LEMMA EnsureSettles ==
    ASSUME IInv, SettlingInv, rec.at # "idle", left' = left,
           NEW p \in Policies, NEW c \in Policy, p = rec.p, c = rec.copy,
           NEW o \in Places(p, c), ~c.deleting, Asked(c, o),
           NEW content \in Limits \cup Tenants, content = ContentOf(c, o),
           NEW step \in Steps \ {"idle"}, Ensure(o, content, step), Follows(step, c),
           Passed(step, p, c) \subseteq Passed(rec.at, p, c) \cup {o}
    PROVE  SettlingInv'
<1>1. o \in Objects /\ objC[o] \in Object \cup {None}
  BY PassedIs DEF IInv, TypeOK
<1>2. WakesOK /\ rec # Idle /\ c.uid \in Nat
  BY UnderWay, PolicyIs DEF SettlingInv
<1>3. \A x : Owns(p, c, x) => Mine(p, x)
  BY OwnsIs DEF Owns
<1>4. CASE markDegraded /\ UNCHANGED ObjVars
  BY <1>4, DegradeSettles
<1>5. CASE (RequeueAfter \/ ReturnError) /\ UNCHANGED <<PolicyVars, ObjVars>>
  BY <1>2, <1>5, UnfinishedSettles
<1>6. CASE /\ Owns(p, c, objC[o]) /\ objC[o].content = content
           /\ GoTo(step) /\ UNCHANGED <<PolicyVars, ObjVars>>
  <2>1. WakesOK' /\ Noticed /\ \A x \in Objects : MovesObject(x)
    BY <1>2, <1>6, ObjectsUnwritten, ObjectsRest DEF ObjVars
  <2>2. Moves
    BY <1>6, <2>1, GoesOn, PolicyRests, LeftIs DEF SettlingInv, Moves
  <2>3. NamesOK'
    BY <2>2, NamesStay DEF SettlingInv
  <2>4. Coming(p)' \/ obj'[o] = objC[o]
    BY <1>1, <1>2, <1>3, <1>6 DEF WakesOK, Coming, ObjVars
  <2>5. PICK O : O = {o}
    OBVIOUS
  <2>6. Coming(p)' \/ \A x \in O : Fits(p, c, x, obj'[x])
    BY <1>6, <2>4, <2>5 DEF Fits
  <2>7. UNCHANGED PolicyVars /\ GoTo(step)
    BY <1>6
  <2> QED BY <2>1, <2>3, <2>5, <2>6, <2>7, GoOnSettles DEF Follows
<1>7. ASSUME NEW v \in Object, v.owner = <<p, c.uid>>, WriteObject(o, v), GoTo(step),
             UNCHANGED PolicyVars
      PROVE  SettlingInv'
  <2>1. v # None /\ Mine(p, v)
    BY <1>7, AbsentAssumption, OwnsIs
  <2>2. WakesOK' /\ Noticed /\ p \in wake'[o]
    BY <1>1, <1>2, <1>7, <2>1, ObjectWritten
  <2>3. \A x \in Objects : MovesObject(x)
    BY <1>1, <1>2, <1>7, ObjectMoves
  <2>4. Moves
    BY <1>7, <2>3, GoesOn, PolicyRests, LeftIs DEF SettlingInv, Moves
  <2>5. NamesOK'
    BY <2>4, NamesStay DEF SettlingInv
  <2>6. Coming(p)'
    BY <1>1, <2>2 DEF Coming
  <2> QED BY <1>7, <2>2, <2>5, <2>6, GoOnSettles DEF Follows
<1>8. CASE WriteObject(o, [owner |-> <<p, c.uid>>, content |-> content, active |-> FALSE])
           /\ GoTo(step) /\ UNCHANGED PolicyVars
  <2>1. PICK v : v = [owner |-> <<p, c.uid>>, content |-> content, active |-> FALSE]
    OBVIOUS
  <2>2. v \in Object /\ v.owner = <<p, c.uid>>
    BY <1>2, <2>1 DEF Object, Owners, Uids
  <2> QED BY <1>7, <1>8, <2>1, <2>2
<1>9. CASE /\ Owns(p, c, objC[o]) /\ WriteObject(o, [objC[o] EXCEPT !.content = content])
           /\ GoTo(step) /\ UNCHANGED PolicyVars
  <2>1. PICK v : v = [objC[o] EXCEPT !.content = content]
    OBVIOUS
  <2>2. v \in Object /\ v.owner = <<p, c.uid>>
    BY <1>1, <1>9, <2>1 DEF Object, Owns
  <2> QED BY <1>7, <1>9, <2>1, <2>2
<1> QED BY <1>4, <1>5, <1>6, <1>8, <1>9 DEF Ensure, IsControlledBy, Owns

LEMMA StepSettles ==
    ASSUME IInv, SettlingInv, Finalize \/ SyncQuota \/ SyncClusterQueue \/ SyncLocalQueue
                              \/ DropLocalQueue \/ DropClusterQueue
    PROVE  SettlingInv'
<1>1. left' = left /\ rec.at # "idle"
  BY DEF Finalize, SyncQuota, SyncClusterQueue, SyncLocalQueue, DropLocalQueue, DropClusterQueue
<1>2. PICK p \in Policies, c \in Policy : p = rec.p /\ c = rec.copy
  BY <1>1, UnderWay
<1>3. /\ ResourceQuota(p) \in Places(p, c) /\ ClusterQueue(c.spec.tenant) \in Places(p, c)
      /\ LocalQueue(c.spec.tenant, NamespaceOf[p]) \in Places(p, c)
  BY DEF Places
<1>4. /\ c.spec.gpus \in Limits \cup Tenants /\ c.spec.tenant \in Limits \cup Tenants
      /\ c.spec.training \in BOOLEAN /\ c.deleting \in BOOLEAN
  BY PolicyIs
<1>5. ShapeOK
  BY DEF SettlingInv
<1>6. CASE Finalize
  <2>1. rec.at = "finalize" /\ Delete(ResourceQuota(p)) /\ UNCHANGED PolicyVars
    BY <1>2, <1>6 DEF Finalize
  <2>2. PICK step \in Steps \ {"idle"} : step = "dropLocalQueue" /\ GoTo(step)
    BY <1>6 DEF Finalize, Steps
  <2>3. c.deleting /\ Follows(step, c)
    BY <1>2, <1>5, <2>1, <2>2 DEF ShapeOK, Follows
  <2>4. Passed(step, p, c) \subseteq Passed(rec.at, p, c) \cup {ResourceQuota(p)}
    BY <2>1, <2>2 DEF Passed
  <2> QED BY <1>1, <1>2, <1>3, <2>1, <2>2, <2>3, <2>4, DeleteSettles
<1>7. CASE SyncQuota
  <2>1. rec.at = "quota" /\ ~c.deleting
    BY <1>2, <1>5, <1>7 DEF SyncQuota, ShapeOK
  <2>2. Asked(c, ResourceQuota(p)) <=> ~c.spec.training
    BY <1>4, NamesDiffer DEF Asked
  <2>3. CASE c.spec.training
    <3>1. Delete(ResourceQuota(p)) /\ UNCHANGED PolicyVars
      BY <1>2, <1>7, <2>3 DEF SyncQuota
    <3>2. PICK step \in Steps \ {"idle"} : step = "clusterQueue" /\ GoTo(step)
      BY <1>2, <1>7, <2>3 DEF SyncQuota, Steps
    <3>3. Follows(step, c)
      BY <2>1, <2>3, <3>2 DEF Follows
    <3>4. Passed(step, p, c) \subseteq Passed(rec.at, p, c) \cup {ResourceQuota(p)}
      BY <2>1, <3>2 DEF Passed
    <3> QED BY <1>1, <1>2, <1>3, <2>2, <2>3, <3>1, <3>2, <3>3, <3>4, DeleteSettles
  <2>4. CASE ~c.spec.training
    <3>1. PICK step \in Steps \ {"idle"} :
             step = "dropLocalQueue" /\ Ensure(ResourceQuota(p), c.spec.gpus, step)
      BY <1>2, <1>7, <2>4 DEF SyncQuota, Steps
    <3>2. Follows(step, c)
      BY <2>1, <2>4, <3>1 DEF Follows
    <3>3. Passed(step, p, c) \subseteq Passed(rec.at, p, c) \cup {ResourceQuota(p)}
      BY <2>1, <3>1 DEF Passed
    <3>4. c.spec.gpus = ContentOf(c, ResourceQuota(p))
      BY NamesDiffer DEF ContentOf
    <3> QED BY <1>1, <1>2, <1>3, <1>4, <2>1, <2>2, <2>4, <3>1, <3>2, <3>3, <3>4, EnsureSettles
  <2> QED BY <1>4, <2>3, <2>4
<1>8. CASE SyncClusterQueue
  <2> PICK o : o = ClusterQueue(c.spec.tenant)
    OBVIOUS
  <2>1. rec.at = "clusterQueue" /\ ~c.deleting /\ c.spec.training
    BY <1>2, <1>5, <1>8 DEF SyncClusterQueue, ShapeOK
  <2>2. PICK step \in Steps \ {"idle"} : step = "localQueue" /\ Ensure(o, c.spec.gpus, step)
    BY <1>2, <1>8 DEF SyncClusterQueue, Steps
  <2>3. Follows(step, c)
    BY <2>1, <2>2 DEF Follows
  <2>4. Passed(step, p, c) \subseteq Passed(rec.at, p, c) \cup {o}
    BY <2>1, <2>2 DEF Passed
  <2>5. Asked(c, o) /\ c.spec.gpus = ContentOf(c, o)
    BY <1>4, <2>1, NamesDiffer DEF Asked, ContentOf
  <2> QED BY <1>1, <1>2, <1>3, <1>4, <2>1, <2>2, <2>3, <2>4, <2>5, EnsureSettles
<1>9. CASE SyncLocalQueue
  <2> PICK o : o = LocalQueue(c.spec.tenant, NamespaceOf[p])
    OBVIOUS
  <2>1. rec.at = "localQueue" /\ ~c.deleting /\ c.spec.training
    BY <1>2, <1>5, <1>9 DEF SyncLocalQueue, ShapeOK
  <2>2. PICK step \in Steps \ {"idle"} : step = "status" /\ Ensure(o, c.spec.tenant, step)
    BY <1>2, <1>9 DEF SyncLocalQueue, Steps
  <2>3. Follows(step, c)
    BY <2>1, <2>2 DEF Follows
  <2>4. Passed(step, p, c) \subseteq Passed(rec.at, p, c) \cup {o}
    BY <2>1, <2>2 DEF Passed, Places
  <2>5. Asked(c, o) /\ c.spec.tenant = ContentOf(c, o)
    BY <1>4, <2>1, NamesDiffer DEF Asked, ContentOf
  <2> QED BY <1>1, <1>2, <1>3, <1>4, <2>1, <2>2, <2>3, <2>4, <2>5, EnsureSettles
<1>10. CASE DropLocalQueue
  <2> PICK o : o = LocalQueue(c.spec.tenant, NamespaceOf[p])
    OBVIOUS
  <2>1. rec.at = "dropLocalQueue" /\ Delete(o) /\ UNCHANGED PolicyVars
    BY <1>2, <1>10 DEF DropLocalQueue
  <2>2. PICK step \in Steps \ {"idle"} : step = "dropClusterQueue" /\ GoTo(step)
    BY <1>10 DEF DropLocalQueue, Steps
  <2>3. c.deleting \/ (~c.deleting /\ ~c.spec.training)
    BY <1>2, <1>4, <1>5, <2>1 DEF ShapeOK
  <2>4. Follows(step, c) /\ (c.deleting \/ ~Asked(c, o))
    BY <1>4, <2>2, <2>3, NamesDiffer DEF Follows, Asked
  <2>5. Passed(step, p, c) \subseteq Passed(rec.at, p, c) \cup {o}
    BY <2>1, <2>2 DEF Passed
  <2> QED BY <1>1, <1>2, <1>3, <2>1, <2>2, <2>4, <2>5, DeleteSettles
<1>11. CASE DropClusterQueue
  <2> PICK o : o = ClusterQueue(c.spec.tenant)
    OBVIOUS
  <2>1. rec.at = "dropClusterQueue" /\ Delete(o) /\ UNCHANGED PolicyVars
    BY <1>2, <1>11 DEF DropClusterQueue
  <2>2. PICK step \in Steps \ {"idle"} :
           step = (IF c.deleting THEN "dropFinalizer" ELSE "status") /\ GoTo(step)
    BY <1>2, <1>11 DEF DropClusterQueue, Steps
  <2>3. c.deleting \/ (~c.deleting /\ ~c.spec.training)
    BY <1>2, <1>4, <1>5, <2>1 DEF ShapeOK
  <2>4. Follows(step, c) /\ (c.deleting \/ ~Asked(c, o))
    BY <1>4, <2>2, <2>3, NamesDiffer DEF Follows, Asked
  <2>5. Passed(step, p, c) \subseteq Passed(rec.at, p, c) \cup {o}
    BY <2>1, <2>2 DEF Passed, Places
  <2> QED BY <1>1, <1>2, <1>3, <2>1, <2>2, <2>4, <2>5, DeleteSettles
<1> QED BY <1>6, <1>7, <1>8, <1>9, <1>10, <1>11

LEMMA EnforceSettles == ASSUME IInv, SettlingInv, Enforce PROVE SettlingInv'
<1>1. /\ UNCHANGED ObjVars /\ left' = left /\ rec.at = "enforce"
      /\ markDegraded \/ (GoTo("quota") /\ UNCHANGED PolicyVars)
  BY DEF Enforce
<1>2. CASE markDegraded
  BY <1>1, <1>2, DegradeSettles
<1>3. CASE GoTo("quota") /\ UNCHANGED PolicyVars
  <2>1. PICK p \in Policies, c \in Policy : p = rec.p /\ c = rec.copy /\ ~c.deleting
    BY <1>1, UnderWay DEF SettlingInv, ShapeOK
  <2>2. PICK step \in Steps \ {"idle"} : step = "quota" /\ GoTo(step)
    BY <1>3 DEF Steps
  <2>3. WakesOK' /\ Noticed
    BY <1>1, ObjectsUnwritten DEF SettlingInv
  <2>4. Moves
    BY <1>1, <1>3, GoesOn, PolicyRests, ObjectsRest, LeftIs DEF SettlingInv, Moves, ObjVars
  <2>5. NamesOK'
    BY <2>4, NamesStay DEF SettlingInv
  <2>6. PICK O : O = {}
    OBVIOUS
  <2>7. Passed(step, p, c) \subseteq Passed(rec.at, p, c) \cup O
    BY <2>2 DEF Passed
  <2>8. \A o \in O : Fits(p, c, o, obj'[o])
    BY <2>6
  <2> QED BY <1>1, <1>3, <2>1, <2>2, <2>3, <2>5, <2>6, <2>7, <2>8, GoOnSettles
<1> QED BY <1>1, <1>2, <1>3

LEMMA DropFinalizerSettles == ASSUME IInv, SettlingInv, DropFinalizer PROVE SettlingInv'
<1>1. UNCHANGED ObjVars /\ left' = left /\ rec.at = "dropFinalizer"
  BY DEF DropFinalizer
<1>2. PICK p \in Policies : p = rec.p /\ rec # Idle
  BY <1>1, UnderWay
<1>3. CASE UNCHANGED PolicyVars /\ ReturnError
  BY <1>1, <1>2, <1>3, UnfinishedSettles
<1>4. CASE WritePolicy(p, None) /\ Return
  <2>1. policy' = [policy EXCEPT ![p] = None] /\ policyC' = policyC /\ rec' = Idle
    BY <1>4 DEF WritePolicy, Return
  <2>2. \A q \in Policies : MovesPolicy(q) /\ policyC'[q] \in {policyC[q], policy'[q]}
    BY <2>1 DEF IInv, TypeOK, MovesPolicy
  <2>3. Moves
    BY <1>1, <2>1, <2>2, ObjectsRest, LeftIs DEF SettlingInv, Moves, MovesRec, ObjVars
  <2>4. NamesOK'
    BY <2>3, NamesStay DEF SettlingInv
  <2>5. policy'[p] = None
    BY <2>1 DEF IInv, TypeOK
  <2>6. PICK v : v = None
    OBVIOUS
  <2> QED BY <1>1, <1>2, <1>4, <2>4, <2>5, <2>6, EndSettles
<1> QED BY <1>2, <1>3, <1>4 DEF DropFinalizer

LEMMA SyncStatusSettles == ASSUME IInv, SettlingInv, SyncStatus PROVE SettlingInv'
<1>1. UNCHANGED ObjVars /\ left' = left /\ rec.at = "status"
  BY DEF SyncStatus
<1>2. PICK p \in Policies, c \in Policy : p = rec.p /\ c = rec.copy /\ rec # Idle /\ ~c.deleting
  BY <1>1, UnderWay DEF SettlingInv, ShapeOK
<1>3. PICK q : q = ClusterQueue(c.spec.tenant)
  OBVIOUS
<1>4. PICK a \in {Unset, "True", "False"} :
         a = IF ~c.spec.training THEN Unset
             ELSE IF objC[q] # None /\ objC[q].active THEN "True" ELSE "False"
  OBVIOUS
<1>5. PICK s : s = [phase |-> "Synced", observed |-> c.spec, admitting |-> a]
  OBVIOUS
<1>6. s \in Status
  BY <1>5, PolicyIs DEF Status
<1>7. UpdateStatus(s, Return)
  <2>1. a = IF c.spec.training THEN admittingCondition ELSE Unset
    BY <1>2, <1>3, <1>4, PolicyIs DEF admittingCondition
  <2> QED BY <1>2, <1>5, <2>1 DEF SyncStatus
<1>8. CASE s = c.status /\ UNCHANGED PolicyVars /\ Return
  <2>1. ASSUME policy[p] # None, ~Pending(p) PROVE Right(p)
    <3>1. c = policy[p]
      BY <1>2, <2>1 DEF SettlingInv, HeldOK, Pending, Coming
    <3>2. \A o \in Places(p, c) : Fits(p, c, o, obj[o])
      BY <1>1, <1>2, <2>1 DEF SettlingInv, SyncedOK, Pending, Passed
    <3>3. c.spec.training => objC[q] = obj[q] /\ obj[q] # None
      <4>1. q \in Places(p, c) /\ q[1] = "ClusterQueue" /\ q \in Objects
        BY <1>3, NamesDiffer, PassedIs DEF Places
      <4>2. c.spec.training => Owns(p, c, obj[q])
        BY <3>2, <4>1 DEF Fits, Asked
      <4>3. Owns(p, c, obj[q]) => Mine(p, obj[q]) /\ obj[q] # None
        BY OwnsIs DEF Owns
      <4>4. p \notin wake[q]
        BY <2>1, <4>1 DEF Pending, Coming
      <4> QED BY <4>1, <4>2, <4>3, <4>4 DEF SettlingInv, WakesOK
    <3>4. Told(p)
      BY <1>2, <1>3, <1>4, <1>5, <1>8, <3>1, <3>3 DEF Told
    <3> QED BY <2>1, <3>1, <3>2, <3>4, RightIs DEF SettlingInv, NamesOK
  <2>2. policy'[p] = policy[p] /\ (Pending(p) => Pending(p)')
    BY <1>1, <1>8 DEF PolicyVars, ObjVars, Return, Pending, Coming
  <2>3. \A o \in Objects : Unmoved(p, o)
    BY <1>1 DEF ObjVars, Unmoved
  <2>4. policy'[p] # None => Pending(p)' \/ Right(p)'
    BY <2>1, <2>2, <2>3, RightStays
  <2> QED BY <1>1, <1>2, <1>6, <1>8, <2>4, StatusSettles
<1>9. CASE rec.ok /\ WritePolicy(p, [c EXCEPT !.status = s]) /\ Return
  <2>1. Pending(p)'
    BY <1>9 DEF WritePolicy, Pending, IInv, TypeOK
  <2> QED BY <1>1, <1>2, <1>6, <1>9, <2>1, StatusSettles
<1>10. CASE UNCHANGED PolicyVars /\ ReturnError
  BY <1>1, <1>2, <1>10, UnfinishedSettles
<1> QED BY <1>2, <1>7, <1>8, <1>9, <1>10 DEF UpdateStatus

LEMMA BeginSettles == ASSUME IInv, SettlingInv, NEW p \in Policies, Begin(p) PROVE SettlingInv'
<1>1. /\ rec = Idle /\ UNCHANGED ObjVars /\ retry' = retry /\ left' = left
      /\ queue \ {p} \subseteq queue'
  BY DEF Begin
<1>2. PICK c : c = policyC[p]
  OBVIOUS
<1>3. /\ policy \in [Policies -> Policy \cup {None}] /\ policyF \in [Policies -> BOOLEAN]
      /\ c \in Policy \cup {None} /\ (policyF[p] => c = policy[p])
  BY <1>2 DEF IInv, TypeOK, SettlingInv, CopiesOK
<1>4. WakesOK'
  BY <1>1, ObjectsUnwritten DEF SettlingInv
<1>5. ASSUME NEW q \in Policies, q # p, policy'[q] = policy[q], policyF'[q] = policyF[q],
             policy'[q] # None
      PROVE  Pending(q)' \/ Right(q)'
  <2>1. Pending(q) => Pending(q)'
    BY <1>1, <1>5 DEF Pending, Coming, ObjVars
  <2>2. \A o \in Objects : Unmoved(q, o)
    BY <1>1 DEF ObjVars, Unmoved
  <2> QED BY <1>1, <1>5, <2>1, <2>2, RestStays DEF SettlingInv
<1>6. CASE rec' = rec /\ UNCHANGED PolicyVars /\ (queue' = queue \/ policy[p] = None \/ ~policyF[p])
  <2>1. Moves
    BY <1>1, <1>6, PolicyRests, ObjectsRest, LeftIs DEF SettlingInv, Moves, MovesRec, ObjVars
  <2>2. NamesOK'
    BY <2>1, NamesStay DEF SettlingInv
  <2>3. CopiesOK' /\ FinalizersOK' /\ HeldOK' /\ ShapeOK' /\ SyncedOK'
    BY <1>1, <1>6, IdleIs DEF SettlingInv, CopiesOK, FinalizersOK, HeldOK, ShapeOK, SyncedOK, PolicyVars
  <2>4. ASSUME policy'[p] # None PROVE Pending(p)' \/ Right(p)'
    <3>1. CASE queue' = queue
      <4>1. Pending(p) => Pending(p)'
        BY <1>1, <1>6, <3>1 DEF Pending, Coming, ObjVars, PolicyVars
      <4>2. \A o \in Objects : Unmoved(p, o)
        BY <1>1 DEF ObjVars, Unmoved
      <4> QED BY <1>1, <1>6, <2>4, <4>1, <4>2, RestStays DEF SettlingInv, PolicyVars
    <3>2. CASE policy[p] = None \/ ~policyF[p]
      BY <1>6, <2>4, <3>2 DEF PolicyVars, Pending
    <3> QED BY <1>6, <3>1, <3>2
  <2>5. RestOK'
    BY <1>5, <1>6, <2>4 DEF RestOK, PolicyVars
  <2> QED BY <1>4, <2>2, <2>3, <2>5 DEF SettlingInv
<1>7. CASE /\ c # None /\ policyF[p] /\ rec' = rec
           /\ WritePolicy(p, [c EXCEPT !.finalizer = TRUE])
  <2>1. PICK v : v = [c EXCEPT !.finalizer = TRUE]
    OBVIOUS
  <2>2. v.uid = c.uid /\ v.spec = c.spec /\ v.finalizer
    BY <1>3, <1>7, <2>1 DEF Policy
  <2>3. /\ policy' = [policy EXCEPT ![p] = v] /\ policyF' = [policyF EXCEPT ![p] = FALSE]
        /\ policyC' = policyC
    BY <1>7, <2>1 DEF WritePolicy
  <2>4. \A q \in Policies : MovesPolicy(q) /\ policyC'[q] \in {policyC[q], policy'[q]}
    BY <1>3, <1>7, <2>2, <2>3 DEF MovesPolicy
  <2>5. Moves
    BY <1>1, <1>7, <2>4, ObjectsRest, LeftIs DEF SettlingInv, Moves, MovesRec, ObjVars
  <2>6. NamesOK'
    BY <2>5, NamesStay DEF SettlingInv
  <2>7. CopiesOK' /\ FinalizersOK'
    BY <1>3, <2>2, <2>3 DEF SettlingInv, CopiesOK, FinalizersOK
  <2>8. HeldOK' /\ ShapeOK' /\ SyncedOK'
    BY <1>1, <1>7, IdleIs DEF HeldOK, ShapeOK, SyncedOK
  <2>9. Pending(p)' /\ \A q \in Policies \ {p} : policy'[q] = policy[q] /\ policyF'[q] = policyF[q]
    BY <1>3, <2>3 DEF Pending
  <2>10. RestOK'
    BY <1>5, <2>9 DEF RestOK
  <2> QED BY <1>4, <2>6, <2>7, <2>8, <2>10 DEF SettlingInv
<1>8. CASE /\ c # None /\ UNCHANGED PolicyVars
           /\ rec' = [at |-> IF c.deleting THEN "finalize" ELSE "enforce",
                      p |-> p, copy |-> c, ok |-> policyF[p]]
  <2>1. /\ rec'.at = IF c.deleting THEN "finalize" ELSE "enforce"
        /\ rec'.p = p /\ rec'.copy = c /\ rec'.ok = policyF[p]
    BY <1>8
  <2>2. Moves
    BY <1>1, <1>2, <1>8, <2>1, PolicyRests, ObjectsRest, LeftIs
       DEF SettlingInv, Moves, MovesRec, ObjVars, PolicyVars
  <2>3. NamesOK'
    BY <2>2, NamesStay DEF SettlingInv
  <2>4. CopiesOK' /\ FinalizersOK'
    BY <1>8 DEF SettlingInv, CopiesOK, FinalizersOK, PolicyVars
  <2>5. HeldOK'
    BY <1>3, <1>8, <2>1 DEF HeldOK, PolicyVars
  <2>6. ShapeOK'
    BY <2>1 DEF ShapeOK
  <2>7. Passed(rec'.at, p, c) = {}
    BY <2>1 DEF Passed
  <2>8. SyncedOK'
    BY <2>1, <2>7 DEF SyncedOK
  <2>9. rec' # Idle
    BY <2>1, IdleIs
  <2>10. RestOK'
    BY <1>5, <1>8, <2>1, <2>9 DEF RestOK, PolicyVars
  <2> QED BY <1>4, <2>3, <2>4, <2>5, <2>6, <2>8, <2>10 DEF SettlingInv
<1>9. \/ /\ c = None \/ (c # None /\ c.deleting /\ ~c.finalizer)
         /\ rec' = rec /\ UNCHANGED PolicyVars
      \/ /\ c # None /\ policyF[p] /\ rec' = rec
         /\ WritePolicy(p, [c EXCEPT !.finalizer = TRUE])
      \/ ~policyF[p] /\ rec' = rec /\ UNCHANGED PolicyVars
      \/ /\ c # None /\ UNCHANGED PolicyVars
         /\ rec' = [at |-> IF c.deleting THEN "finalize" ELSE "enforce",
                    p |-> p, copy |-> c, ok |-> policyF[p]]
  BY <1>2 DEF Begin
<1>10. c = None \/ (c # None /\ c.deleting /\ ~c.finalizer) => policy[p] = None \/ ~policyF[p]
  BY <1>3 DEF SettlingInv, FinalizersOK
<1> QED BY <1>6, <1>7, <1>8, <1>9, <1>10

-----------------------------------------------------------------------------
(* Caches, timers, failures, and the others settle.                        *)

LEMMA DeliverySettles == ASSUME IInv, SettlingInv, Delivery PROVE SettlingInv'
<1>0. left' = left /\ rec' = rec /\ policy' = policy /\ obj' = obj
  BY DEF Delivery, SyncPolicyC, TimerFires, SyncObjectC, SyncNamespaceC, PolicyVars, ObjVars
<1>1. ASSUME \A q \in Policies : policyC'[q] \in {policyC[q], policy'[q]} PROVE NamesOK'
  <2>1. MovesRec
    BY <1>0 DEF MovesRec
  <2>2. Moves
    BY <1>0, <1>1, <2>1, ObjectsRest, LeftIs DEF SettlingInv, Moves, MovesPolicy
  <2> QED BY <2>2, NamesStay DEF SettlingInv
<1>2. \A q \in Policies, o \in Objects : Unmoved(q, o)
  BY <1>0 DEF Unmoved
<1>3. ASSUME NEW p \in Policies, SyncPolicyC(p) PROVE SettlingInv'
  <2>1. /\ policyC' = [policyC EXCEPT ![p] = policy[p]] /\ policyF' = [policyF EXCEPT ![p] = TRUE]
        /\ queue' = queue \cup {p} /\ retry' = retry /\ UNCHANGED ObjVars
        /\ policyC \in [Policies -> Policy \cup {None}] /\ policyF \in [Policies -> BOOLEAN]
    BY <1>3 DEF SyncPolicyC, IInv, TypeOK
  <2>2. NamesOK'
    BY <1>0, <1>1, <2>1
  <2>3. CopiesOK' /\ WakesOK'
    BY <1>0, <2>1, ObjectsUnwritten DEF SettlingInv, CopiesOK
  <2>4. ASSUME NEW q \in Policies
        PROVE  /\ Coming(q) => Coming(q)'
               /\ Pending(q) => Pending(q)'
               /\ q \in queue \/ ~policyF[q] => q \in queue' \/ ~policyF'[q]
    BY <2>1 DEF Coming, Pending, ObjVars
  <2> QED BY <1>0, <1>2, <2>2, <2>3, <2>4, OthersSettle
<1>4. ASSUME NEW p \in Policies, TimerFires(p) PROVE SettlingInv'
  <2>1. /\ UNCHANGED ObjVars /\ UNCHANGED PolicyVars /\ queue' = queue \cup {p} /\ retry' = retry \ {p}
    BY <1>4 DEF TimerFires
  <2>2. NamesOK'
    BY <1>1, <2>1 DEF PolicyVars
  <2>3. CopiesOK' /\ WakesOK'
    BY <2>1, ObjectsUnwritten DEF SettlingInv, CopiesOK, PolicyVars
  <2>4. ASSUME NEW q \in Policies
        PROVE  /\ Coming(q) => Coming(q)'
               /\ Pending(q) => Pending(q)'
               /\ q \in queue \/ ~policyF[q] => q \in queue' \/ ~policyF'[q]
    BY <2>1 DEF Coming, Pending, ObjVars, PolicyVars
  <2> QED BY <1>0, <1>2, <2>2, <2>3, <2>4, OthersSettle
<1>5. ASSUME NEW o \in Objects, SyncObjectC(o) PROVE SettlingInv'
  <2>1. /\ UNCHANGED PolicyVars /\ retry' = retry
        /\ queue' = queue \cup wake[o] /\ wake' = [wake EXCEPT ![o] = {}]
        /\ objC' = [objC EXCEPT ![o] = obj[o]] /\ objF' = [objF EXCEPT ![o] = TRUE]
        /\ objC \in [Objects -> Object \cup {None}] /\ objF \in [Objects -> BOOLEAN]
        /\ wake \in [Objects -> SUBSET Policies]
    BY <1>5 DEF SyncObjectC, IInv, TypeOK
  <2>2. NamesOK'
    BY <1>1, <2>1 DEF PolicyVars
  <2>3. CopiesOK'
    BY <2>1 DEF SettlingInv, CopiesOK, PolicyVars
  <2>4. WakesOK'
    <3> SUFFICES ASSUME NEW x \in Objects
                 PROVE  IF objF'[x] THEN objC'[x] = obj'[x] /\ wake'[x] = {}
                        ELSE \A p \in Policies : Mine(p, obj'[x]) \/ Mine(p, objC'[x]) => p \in wake'[x]
      BY DEF WakesOK, Mine
    <3>1. CASE x = o
      BY <1>0, <2>1, <3>1
    <3>2. CASE x # o
      BY <1>0, <2>1, <3>2 DEF SettlingInv, WakesOK
    <3> QED BY <3>1, <3>2
  <2>5. ASSUME NEW q \in Policies
        PROVE  /\ Coming(q) => Coming(q)'
               /\ Pending(q) => Pending(q)'
               /\ q \in queue \/ ~policyF[q] => q \in queue' \/ ~policyF'[q]
    <3>1. Coming(q) => Coming(q)'
      BY <2>1 DEF Coming
    <3> QED BY <2>1, <3>1 DEF Pending, PolicyVars
  <2> QED BY <1>0, <1>2, <2>2, <2>3, <2>4, <2>5, OthersSettle
<1>6. ASSUME NEW n \in Namespaces, SyncNamespaceC(n) PROVE SettlingInv'
  <2>1. UNCHANGED PolicyVars /\ UNCHANGED ObjVars /\ queue' = queue /\ retry' = retry
    BY <1>6 DEF SyncNamespaceC
  <2>2. NamesOK'
    BY <1>1, <2>1 DEF PolicyVars
  <2>3. CopiesOK' /\ WakesOK'
    BY <2>1, ObjectsUnwritten DEF SettlingInv, CopiesOK, PolicyVars
  <2>4. ASSUME NEW q \in Policies
        PROVE  /\ Coming(q) => Coming(q)'
               /\ Pending(q) => Pending(q)'
               /\ q \in queue \/ ~policyF[q] => q \in queue' \/ ~policyF'[q]
    BY <2>1 DEF Coming, Pending, ObjVars, PolicyVars
  <2> QED BY <1>0, <1>2, <2>2, <2>3, <2>4, OthersSettle
<1> QED BY <1>3, <1>4, <1>5, <1>6 DEF Delivery

LEMMA CallFailsSettles == ASSUME IInv, SettlingInv, CallFails PROVE SettlingInv'
<1>1. /\ rec # Idle /\ ReturnError /\ UNCHANGED ObjVars /\ UNCHANGED PolicyVars
      /\ \E b \in Disturbances \ {"tenants"} : Spend(b)
  BY DEF CallFails, Disturbances
<1> QED BY <1>1, UnfinishedSettles

LEMMA CrashSettles == ASSUME IInv, SettlingInv, Crash PROVE SettlingInv'
<1>1. /\ rec' = Idle /\ queue' = Policies /\ policyC' = policy /\ policy' = policy
      /\ obj' = obj /\ objC' = obj /\ objF' = [o \in Objects |-> TRUE]
      /\ wake' = [o \in Objects |-> {}] /\ \E b \in Disturbances \ {"tenants"} : Spend(b)
  BY DEF Crash, Disturbances
<1>2. Moves
  BY <1>1, ObjectsRest, LeftIs DEF SettlingInv, Moves, MovesRec, MovesPolicy
<1>3. NamesOK'
  BY <1>2, NamesStay DEF SettlingInv
<1>4. CopiesOK' /\ WakesOK' /\ FinalizersOK'
  BY <1>1 DEF SettlingInv, CopiesOK, WakesOK, FinalizersOK
<1>5. HeldOK' /\ ShapeOK' /\ SyncedOK'
  BY <1>1, IdleIs DEF HeldOK, ShapeOK, SyncedOK
<1>6. RestOK'
  BY <1>1 DEF RestOK, Pending, Coming
<1> QED BY <1>3, <1>4, <1>5, <1>6 DEF SettlingInv

LEMMA PolicyEditSettles ==
    ASSUME IInv, SettlingInv, NEW p \in Policies, NEW v \in Policy \cup {None}, WritePolicy(p, v),
           Outdate(p), NEW b \in Disturbances \ {"tenants"}, Spend(b),
           v # None /\ v.deleting => v.finalizer,
           \/ v = None
           \/ policy[p] # None /\ v.uid = policy[p].uid /\ v.spec.tenant = policy[p].spec.tenant
           \/ policy[p] = None /\ b = "recreations" /\ v.uid = left["recreations"]
    PROVE  SettlingInv'
<1>1. /\ UNCHANGED ObjVars /\ queue' = queue /\ retry' = retry
      /\ rec' = IF rec.p = p THEN [rec EXCEPT !.ok = FALSE] ELSE rec
  BY DEF Outdate
<1>2. /\ policy \in [Policies -> Policy \cup {None}] /\ policyF \in [Policies -> BOOLEAN]
      /\ rec \in Reconciles
      /\ policy' = [policy EXCEPT ![p] = v] /\ policyF' = [policyF EXCEPT ![p] = FALSE]
      /\ policyC' = policyC
  BY TypeParts DEF IInv, WritePolicy, PolicyTypes
<1>3. /\ rec'.at = rec.at /\ rec'.p = rec.p /\ rec'.copy = rec.copy
      /\ rec'.ok = IF rec.p = p THEN FALSE ELSE rec.ok
      /\ rec' = Idle <=> rec = Idle
  <2>1. PICK f \in BOOLEAN : f = FALSE
    OBVIOUS
  <2>2. /\ rec'.at = rec.at /\ rec'.p = rec.p /\ rec'.copy = rec.copy
        /\ rec'.ok = IF rec.p = p THEN FALSE ELSE rec.ok
    BY <1>1, <1>2, <2>1 DEF Reconciles
  <2>3. rec = Idle => rec' = Idle
    <3>1. SUFFICES ASSUME rec = Idle PROVE rec' = Idle
      OBVIOUS
    <3>2. rec = [at |-> "idle", p |-> None, copy |-> None, ok |-> f]
      BY <2>1, <3>1 DEF Idle
    <3>3. [rec EXCEPT !.ok = f] = rec
      BY <3>2
    <3> QED BY <1>1, <2>1, <3>1, <3>3
  <2>4. rec # Idle => rec' # Idle
    BY <2>2, IdleIs DEF IInv, RecOK
  <2> QED BY <2>2, <2>3, <2>4
<1>4. left["recreations"] > left'["recreations"] \/ b # "recreations"
  <2>1. "recreations" \in Disturbances /\ left \in [Disturbances -> Nat]
    BY DEF Disturbances, IInv, TypeOK
  <2> QED BY <2>1 DEF Spend
<1>5. \A q \in Policies : MovesPolicy(q) /\ policyC'[q] \in {policyC[q], policy'[q]}
  BY <1>2, <1>4 DEF MovesPolicy
<1>6. MovesRec
  BY <1>3 DEF MovesRec
<1>7. Moves
  BY <1>1, <1>5, <1>6, ObjectsRest, LeftIs DEF SettlingInv, Moves, ObjVars
<1>8. NamesOK'
  BY <1>7, NamesStay DEF SettlingInv
<1>9. CopiesOK' /\ FinalizersOK'
  BY <1>2 DEF SettlingInv, CopiesOK, FinalizersOK
<1>10. WakesOK' /\ Noticed
  BY <1>1, ObjectsUnwritten DEF SettlingInv
<1>11. HeldOK' /\ ShapeOK'
  BY <1>1, <1>2, <1>3 DEF SettlingInv, HeldOK, ShapeOK, IInv, RecOK
<1>12. SyncedOK'
  <2>1. CASE rec = Idle
    BY <1>3, <2>1 DEF SyncedOK
  <2>2. CASE rec # Idle
    BY <1>1, <1>3, <1>10, <2>2, SyncedStays, ComingStays DEF SettlingInv
  <2> QED BY <2>1, <2>2
<1>13. RestOK'
  <2> SUFFICES ASSUME NEW q \in Policies, rec' = Idle \/ rec'.p # q, policy'[q] # None
               PROVE  Pending(q)' \/ Right(q)'
    BY DEF RestOK
  <2>1. CASE q = p
    BY <1>2, <2>1 DEF Pending
  <2>2. CASE q # p
    BY <1>1, <1>2, <1>3, <1>10, <2>2, PendingStays, RestStays DEF SettlingInv
  <2> QED BY <2>1, <2>2
<1> QED BY <1>8, <1>9, <1>10, <1>11, <1>12, <1>13 DEF SettlingInv

LEMMA EditSpecSettles ==
    ASSUME IInv, SettlingInv, NEW p \in Policies, NEW s \in Specs, EditSpec(p, s) PROVE SettlingInv'
<1>1. policy[p] \in Policy /\ policy[p] # None /\ left["tenants"] = 0 /\ Outdate(p)
  BY DEF EditSpec, IInv, TypeOK, SettlingInv, NamesOK
<1>2. s.tenant = policy[p].spec.tenant /\ Spend("edits")
  <2>1. PICK d : d = IF s.tenant = policy[p].spec.tenant THEN "edits" ELSE "tenants"
    OBVIOUS
  <2>2. Spend(d)
    BY <2>1 DEF EditSpec
  <2>3. d # "tenants"
    BY <1>1, <2>2 DEF Spend
  <2> QED BY <2>1, <2>2, <2>3
<1>3. PICK v : v = [policy[p] EXCEPT !.spec = s]
  OBVIOUS
<1>4. /\ v \in Policy /\ v.uid = policy[p].uid /\ v.spec = s /\ v.deleting = policy[p].deleting
      /\ v.finalizer = policy[p].finalizer
  BY <1>1, <1>3 DEF Policy
<1>5. WritePolicy(p, v)
  BY <1>3 DEF EditSpec
<1>6. v.deleting => v.finalizer
  BY <1>1, <1>4 DEF SettlingInv, FinalizersOK
<1>7. PICK b \in Disturbances \ {"tenants"} : b = "edits"
  BY DEF Disturbances
<1> QED BY <1>1, <1>2, <1>4, <1>5, <1>6, <1>7, PolicyEditSettles

LEMMA DeletePolicySettles ==
    ASSUME IInv, SettlingInv, NEW p \in Policies, DeletePolicy(p) PROVE SettlingInv'
<1>1. policy[p] \in Policy /\ policy[p] # None /\ Outdate(p) /\ Spend("deletes")
  BY DEF DeletePolicy, IInv, TypeOK
<1>2. PICK v : v = IF policy[p].finalizer THEN [policy[p] EXCEPT !.deleting = TRUE] ELSE None
  OBVIOUS
<1>3. /\ v = None \/ (v.uid = policy[p].uid /\ v.spec = policy[p].spec /\ v.finalizer)
      /\ v \in Policy \cup {None}
  BY <1>1, <1>2, PolicyWith DEF Policy
<1>4. WritePolicy(p, v)
  BY <1>2 DEF DeletePolicy
<1>5. PICK b \in Disturbances \ {"tenants"} : b = "deletes"
  BY DEF Disturbances
<1> QED BY <1>1, <1>3, <1>4, <1>5, PolicyEditSettles

LEMMA RecreatePolicySettles ==
    ASSUME IInv, SettlingInv, NEW p \in Policies, NEW s \in Specs, RecreatePolicy(p, s)
    PROVE  SettlingInv'
<1>1. PICK b \in Disturbances \ {"tenants"} : b = "recreations"
  BY DEF Disturbances
<1>2. policy[p] = None /\ Outdate(p) /\ Spend(b) /\ left["recreations"] \in Nat
  BY <1>1 DEF RecreatePolicy, IInv, TypeOK
<1>3. PICK v : v = NewPolicy(left["recreations"], s)
  OBVIOUS
<1>4. v \in Policy /\ v.uid = left["recreations"] /\ ~v.deleting
  BY <1>2, <1>3, NewPolicyIs DEF NewPolicy
<1>5. WritePolicy(p, v)
  BY <1>3 DEF RecreatePolicy
<1> QED BY <1>1, <1>2, <1>4, <1>5, PolicyEditSettles

(* Others write objects: whoever owns, or owned, them hears of it.         *)
LEMMA OthersWrite ==
    ASSUME IInv, SettlingInv, UNCHANGED PolicyVars, queue' = queue, retry' = retry, rec' = rec,
           left' = left \/ \E b \in Disturbances \ {"tenants"} : Spend(b),
           WakesOK', Noticed, \A x \in Objects : MovesObject(x)
    PROVE  SettlingInv'
<1>1. MovesRec
  BY DEF MovesRec
<1>2. Moves
  BY <1>1, PolicyRests, LeftIs DEF SettlingInv, Moves
<1>3. NamesOK'
  BY <1>2, NamesStay DEF SettlingInv
<1>4. CopiesOK' /\ policy' = policy /\ policyF' = policyF
  BY DEF SettlingInv, CopiesOK, PolicyVars
<1>5. ASSUME NEW q \in Policies
      PROVE  /\ Coming(q) => Coming(q)'
             /\ Coming(q)' \/ \A o \in Objects : Unmoved(q, o)
             /\ Pending(q) => Pending(q)'
  BY <1>4, ComingStays, PendingStays
<1> QED BY <1>3, <1>4, <1>5, OthersSettle

LEMMA ObjectStepsSettle ==
    ASSUME IInv, SettlingInv, NEW o \in Objects,
           CreateForeign(o) \/ RemoveObject(o) \/ Drift(o) \/ KueueReports(o) \/ CollectGarbage(o)
    PROVE  SettlingInv'
<1>1. /\ UNCHANGED PolicyVars /\ queue' = queue /\ retry' = retry /\ rec' = rec
      /\ left' = left \/ \E b \in Disturbances \ {"tenants"} : Spend(b)
  BY DEF CreateForeign, RemoveObject, Drift, KueueReports, CollectGarbage, OnlyObjects, Disturbances
<1>2. obj[o] \in Object \cup {None} /\ WakesOK
  BY DEF IInv, TypeOK, SettlingInv
<1>3. PICK v \in Object \cup {None} :
         /\ WriteObject(o, v)
         /\ v = None \/ v.owner = Other \/ (obj[o] # None /\ v.owner = obj[o].owner)
  <2>1. CASE WriteObject(o, [owner |-> Other, content |-> Other, active |-> FALSE])
    <3>1. PICK v : v = [owner |-> Other, content |-> Other, active |-> FALSE]
      OBVIOUS
    <3>2. v \in Object /\ v.owner = Other
      BY <3>1 DEF Object, Owners
    <3> QED BY <2>1, <3>1, <3>2
  <2>2. CASE WriteObject(o, None)
    BY <2>2
  <2>3. CASE obj[o] # None /\ WriteObject(o, [obj[o] EXCEPT !.content = Other])
    <3>1. PICK v : v = [obj[o] EXCEPT !.content = Other]
      OBVIOUS
    <3>2. v \in Object /\ v.owner = obj[o].owner
      BY <1>2, <2>3, <3>1 DEF Object
    <3> QED BY <2>3, <3>1, <3>2
  <2>4. CASE obj[o] # None /\ WriteObject(o, [obj[o] EXCEPT !.active = ~@])
    <3>1. obj[o] \in Object /\ obj[o].active \in BOOLEAN
      BY <1>2, <2>4 DEF Object
    <3>2. PICK b \in BOOLEAN : b = (~obj[o].active)
      BY <3>1
    <3>3. PICK v : v = [obj[o] EXCEPT !.active = b]
      OBVIOUS
    <3>4. v \in Object /\ v.owner = obj[o].owner
      BY <3>1, <3>3 DEF Object
    <3>5. WriteObject(o, v)
      BY <2>4, <3>2, <3>3, Zenon
    <3> QED BY <2>4, <3>4, <3>5
  <2> QED BY <2>1, <2>2, <2>3, <2>4 DEF CreateForeign, RemoveObject, Drift, KueueReports, CollectGarbage
<1>4. WakesOK' /\ Noticed /\ \A x \in Objects : MovesObject(x)
  BY <1>2, <1>3, ObjectWritten, ObjectMoves
<1> QED BY <1>1, <1>4, OthersWrite

LEMMA NamespaceStepsSettle ==
    ASSUME IInv, SettlingInv, NEW n \in Namespaces, DeleteNamespace(n) \/ CreateNamespace(n)
    PROVE  SettlingInv'
<1>1. CASE CreateNamespace(n)
  <2>1. /\ UNCHANGED PolicyVars /\ UNCHANGED ObjVars /\ queue' = queue /\ retry' = retry
        /\ rec' = rec /\ left' = left
    BY <1>1 DEF CreateNamespace
  <2>2. WakesOK' /\ Noticed /\ \A x \in Objects : MovesObject(x)
    BY <2>1, ObjectsUnwritten, ObjectsRest DEF SettlingInv, ObjVars
  <2> QED BY <2>1, <2>2, OthersWrite
<1>2. CASE DeleteNamespace(n)
  <2>1. PICK f : f = [o \in {x \in Objects : Inside(x, n) /\ obj[x] # None} |-> None]
    OBVIOUS
  <2>2. /\ UNCHANGED PolicyVars /\ queue' = queue /\ retry' = retry /\ rec' = rec
        /\ WriteObjects(f) /\ \E b \in Disturbances \ {"tenants"} : Spend(b)
    BY <1>2, <2>1 DEF DeleteNamespace, Disturbances
  <2>3. \A o \in DOMAIN f : f[o] = None
    BY <2>1
  <2>4. WakesOK' /\ Noticed
    BY <2>2, <2>3, ObjectsWritten DEF SettlingInv
  <2>5. \A x \in Objects : obj'[x] = IF x \in DOMAIN f THEN f[x] ELSE obj[x]
    BY <2>2 DEF WriteObjects
  <2>6. \A x \in Objects : MovesObject(x)
    BY <2>3, <2>5 DEF MovesObject
  <2> QED BY <2>2, <2>4, <2>6, OthersWrite
<1> QED BY <1>1, <1>2

-----------------------------------------------------------------------------

LEMMA SettlingNext == IInv /\ SettlingInv /\ [Next]_vars => SettlingInv'
<1> SUFFICES ASSUME IInv, SettlingInv, [Next]_vars PROVE SettlingInv'
  OBVIOUS
<1>1. CASE Reconcile
  BY <1>1, BeginSettles, StepSettles, EnforceSettles, DropFinalizerSettles, SyncStatusSettles
     DEF Reconcile
<1>2. CASE Environment
  BY <1>2, DeletePolicySettles, EditSpecSettles, RecreatePolicySettles, ObjectStepsSettle,
     NamespaceStepsSettle DEF Environment
<1>3. CASE UNCHANGED vars
  <2>1. /\ UNCHANGED PolicyVars /\ UNCHANGED ObjVars /\ queue' = queue /\ retry' = retry
        /\ rec' = rec /\ left' = left
    BY <1>3 DEF vars, PolicyVars, ObjVars
  <2>2. WakesOK' /\ Noticed /\ \A x \in Objects : MovesObject(x)
    BY <2>1, ObjectsUnwritten, ObjectsRest DEF SettlingInv, ObjVars
  <2> QED BY <2>1, <2>2, OthersWrite
<1> QED BY <1>1, <1>2, <1>3, DeliverySettles, CallFailsSettles, CrashSettles DEF Next

LEMMA SettlingInit ==
    ASSUME \A sc \in Scenarios : sc.budget["tenants"] = 0, Init PROVE SettlingInv
<1>1. /\ policyC = policy /\ policyF = [p \in Policies |-> TRUE]
      /\ obj = [o \in Objects |-> None] /\ objC = obj
      /\ objF = [o \in Objects |-> TRUE] /\ queue = Policies /\ rec = Idle
      /\ wake = [o \in Objects |-> {}]
  BY DEF Init
<1>2. /\ left["tenants"] = 0
      /\ \A p \in Policies : policy[p] # None => policy[p].uid = 0 /\ ~policy[p].deleting
  BY DEF Init, NewPolicy
<1>3. NamesOK
  BY <1>1, <1>2 DEF NamesOK, UidsOK, TenantsOK, PlacesOK, Known, Agrees, Owned
<1>4. CopiesOK /\ WakesOK /\ FinalizersOK
  BY <1>1, <1>2 DEF CopiesOK, WakesOK, FinalizersOK
<1>5. HeldOK /\ ShapeOK /\ SyncedOK /\ RestOK
  BY <1>1, IdleIs DEF HeldOK, ShapeOK, SyncedOK, RestOK, Pending, Coming
<1> QED BY <1>3, <1>4, <1>5 DEF SettlingInv

-----------------------------------------------------------------------------
(* The theorems.                                                           *)

(* Every variable keeps its type, whatever the policies, the tenants, the  *)
(* namespaces and the disturbances (gpuquotapolicy_controller.go).         *)
THEOREM TypeCorrect == Spec => []TypeOK
<1>1. IInv => TypeOK
  BY DEF IInv
<1> QED BY <1>1, IInvHolds, PTL

(* Unless its namespace has been deleted, every ceiling of a policy is in  *)
(* a namespace whose admission guards are on (ensureNamespaceEnforced      *)
(* before syncNamespaceResourceQuota and syncKueueTrainingQuota).          *)
THEOREM CeilingsAreGuarded == Spec => []CeilingIsGuarded
<1>1. IInv => CeilingIsGuarded
  <2> SUFFICES ASSUME IInv, NEW p \in Policies, policy[p] # None, Owned(p) # {},
                      NamespaceOf[p] \notin recycled
               PROVE  ns[NamespaceOf[p]] = "enforced"
    BY DEF CeilingIsGuarded
  <2>1. PICK o \in Objects : obj[o] # None /\ obj[o].owner = <<p, policy[p].uid>>
    BY DEF Owned
  <2>2. policy[p] \in Policy
    BY DEF IInv, TypeOK
  <2>3. <<p, policy[p].uid>> # Other
    BY <2>2, PolicyIs, OtherAssumption
  <2>4. obj[o].owner[1] = p
    BY <2>1
  <2> QED BY <2>1, <2>3, <2>4 DEF IInv, OwnersOK, Sheltered, Guarded
<1> QED BY <1>1, IInvHolds, PTL

(* The watches and requeues of SetupWithManager and markDegraded suffice,  *)
(* however often specs are edited, policies deleted and made again,        *)
(* objects removed, edited or taken, calls failed and operators restarted: *)
(* when nothing is queued, pending or undelivered for a policy, the one    *)
(* ceiling its spec asks for exists with the right content, the other does *)
(* not, and the status says so.  Only a change of the tenant breaks it.    *)
THEOREM SettledStatusIsRight ==
    ASSUME \A sc \in Scenarios : sc.budget["tenants"] = 0
    PROVE  Spec => []SettledIsRight
<1>1. Init => SettlingInv
  BY SettlingInit
<1>2. SettlingInv => SettledIsRight
  <2> SUFFICES ASSUME SettlingInv, NEW p \in Policies, Quiet(Policies \ {p}) PROVE Right(p)
    BY DEF SettledIsRight
  <2>1. rec = Idle /\ p \notin queue /\ p \notin retry /\ policyF[p]
    BY DEF Quiet
  <2>2. policy[p] # None /\ Coming(p) => Right(p)
    BY <2>1 DEF Quiet, Coming, SettlingInv, WakesOK
  <2>3. ~Coming(p) /\ policy[p] # None => Right(p)
    BY <2>1 DEF SettlingInv, RestOK, Pending
  <2> QED BY <2>2, <2>3 DEF Right
<1> QED BY <1>1, <1>2, IInvHolds, SettlingNext, PTL DEF Spec
=============================================================================
