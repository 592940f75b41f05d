---------------------- MODULE InferenceDeploymentProofs ----------------------
(***************************************************************************)
(* Proofs about InferenceDeployment for any replica counts, versions,      *)
(* policies and disturbances: a status of an older spec, an older          *)
(* generation or an older Deployment never makes a spec look served.       *)
(***************************************************************************)
EXTENDS InferenceDeployment, TLAPS

(* The parts of the type invariant.                                        *)
InfdTypes == infd \in Infd \cup {None} /\ infdC \in Infd \cup {None} /\ infdF \in BOOLEAN

PodCounts == [old : Nat, new : Nat, ready : Nat]

ObjTypes ==
    /\ obj \in [Kinds -> Object \cup {None}] /\ objC \in [Kinds -> Object \cup {None}]
    /\ news \in [Kinds -> {"none", "quiet", "wake"}]
    /\ pods \in PodCounts /\ pods.ready <= pods.old + pods.new

PolicyTypes == policy \in [Policies -> Queues] /\ policyC \in [Policies -> Queues]

Steps == {"idle", "deployment", "checkService", "service", "status"}
Reconciles == [at : Steps, copy : Infd \cup {None}, ok : BOOLEAN, queue : Queues,
               status : DeploymentStatus]

RestTypes == /\ queued \in BOOLEAN /\ retry \in BOOLEAN /\ rec \in Reconciles
             /\ served \subseteq Specs /\ left \in [Disturbances -> Nat]

(* A reconcile under way has the copy it read.                             *)
RecOK == rec = Idle \/ (rec.at # "idle" /\ rec.copy \in Infd)

SpecOf(content) == [replicas |-> content.replicas, version |-> content.version]

(* A status that is of the newest generation and shows n pods, all new and *)
(* all ready.                                                              *)
Converged(s, n) == s.seen /\ {s.replicas, s.updated, s.ready} = {n}

(* A Deployment whose status has converged was served, and one that has a  *)
(* controller was made from a spec.                                        *)
Fair(o) == /\ Converged(o.status, o.content.replicas) => SpecOf(o.content) \in served
           /\ o.owner # Other => SpecOf(o.content) \in Specs
Honest(o) == o # None => Fair(o)

DepOK == Honest(obj["Deployment"]) /\ Honest(objC["Deployment"])

(* The status a reconcile holds is one of its own copy's spec.             *)
Synced == {"checkService", "service", "status"}
StepOK == rec.at \in Synced /\ Converged(rec.status, rec.copy.spec.replicas)
              => rec.copy.spec \in served

Deserved(s) == s.phase = "Ready" =>
    s.observed \in Specs /\ (s.observed.replicas > 0 => s.observed \in served)

InfdOK == infd # None => Deserved(infd.status)

IInv == TypeOK /\ RecOK /\ DepOK /\ StepOK /\ InfdOK

-----------------------------------------------------------------------------
(* Lemmas about the helpers of the model.                                  *)

LEMMA TypeParts == TypeOK <=> InfdTypes /\ ObjTypes /\ PolicyTypes /\ RestTypes
BY DEF TypeOK, InfdTypes, ObjTypes, PolicyTypes, RestTypes, PodCounts, Reconciles, Steps

LEMMA BlanksAre ==
    /\ NoStatus \in DeploymentStatus /\ ~NoStatus.seen
    /\ Idle \in Reconciles /\ Idle.at = "idle"
    /\ NoPods \in PodCounts /\ NoPods.ready = 0
    /\ "Deployment" \in Kinds /\ "Service" \in Kinds /\ "Deployment" # "Service"
<1>1. NoStatus \in DeploymentStatus /\ ~NoStatus.seen
  BY DEF NoStatus, DeploymentStatus
<1>2. Idle \in Reconciles /\ Idle.at = "idle"
  BY <1>1 DEF Idle, Reconciles, Steps, Queues
<1>3. NoPods \in PodCounts /\ NoPods.ready = 0
  BY DEF NoPods, PodCounts
<1> QED BY <1>1, <1>2, <1>3 DEF Kinds

LEMMA SpecIs ==
    ASSUME NEW s \in Specs
    PROVE  /\ s.replicas \in Nat /\ s.replicas \in Replicas /\ s.version \in Versions
           /\ s = [replicas |-> s.replicas, version |-> s.version]
BY ConstantsAssumption DEF Specs

LEMMA InfdIs ==
    ASSUME NEW c \in Infd
    PROVE  /\ c.uid \in Nat /\ c.spec \in Specs /\ c.status \in Status
           /\ \A s \in Status : [c EXCEPT !.status = s] \in Infd /\ [c EXCEPT !.status = s].status = s
           /\ \A s \in Specs : [c EXCEPT !.spec = s] \in Infd /\ [c EXCEPT !.spec = s].status = c.status
BY DEF Infd

LEMMA SpendIs ==
    ASSUME left \in [Disturbances -> Nat], NEW b \in Disturbances, Spend(b)
    PROVE  left' \in [Disturbances -> Nat]
<1>1. left[b] \in Nat /\ left[b] > 0
  BY DEF Spend
<1>2. left' = [left EXCEPT ![b] = left[b] - 1] /\ left[b] - 1 \in Nat
  BY <1>1 DEF Spend
<1> QED BY <1>2

LEMMA PutIs ==
    ASSUME ObjTypes, NEW k \in Kinds, NEW v \in Object \cup {None}, Put(k, v)
    PROVE  /\ obj' \in [Kinds -> Object \cup {None}] /\ objC' = objC
           /\ news' \in [Kinds -> {"none", "quiet", "wake"}]
           /\ obj'[k] = v /\ \A x \in Kinds : x # k => obj'[x] = obj[x]
<1>1. obj' = [obj EXCEPT ![k] = v] /\ objC' = objC
  BY DEF Put
<1>2. PICK e \in {"wake", "quiet"} : news' = [news EXCEPT ![k] = e]
  BY DEF Put
<1> QED BY <1>1, <1>2 DEF ObjTypes

LEMMA PodsAfterIs ==
    ASSUME ObjTypes, NEW o, NEW v, NEW q, q = PodsAfter(o, v)
    PROVE  q \in PodCounts /\ q.ready <= q.old + q.new
<1>1. pods \in PodCounts /\ pods.ready <= pods.old + pods.new
  BY DEF ObjTypes
<1>2. PICK m \in Nat, z \in Nat : m = pods.old + pods.new /\ z = 0
  BY <1>1 DEF PodCounts
<1>3. q \in {NoPods, pods, [pods EXCEPT !.old = m, !.new = z]}
  BY <1>2 DEF PodsAfter
<1>4. CASE q = [pods EXCEPT !.old = m, !.new = z]
  <2>1. q = [old |-> m, new |-> z, ready |-> pods.ready]
    BY <1>1, <1>4 DEF PodCounts
  <2> QED BY <1>1, <1>2, <2>1 DEF PodCounts
<1>5. CASE q = NoPods
  BY <1>5, BlanksAre DEF PodCounts
<1> QED BY <1>1, <1>3, <1>4, <1>5

LEMMA WriteIs ==
    ASSUME ObjTypes, NEW k \in Kinds, NEW v \in Object \cup {None}, Write(k, v)
    PROVE  /\ ObjTypes' /\ objC' = objC
           /\ obj'[k] = v /\ \A x \in Kinds : x # k => obj'[x] = obj[x]
<1>1. /\ obj' \in [Kinds -> Object \cup {None}] /\ objC' = objC
      /\ news' \in [Kinds -> {"none", "quiet", "wake"}]
      /\ obj'[k] = v /\ \A x \in Kinds : x # k => obj'[x] = obj[x]
  BY PutIs DEF Write
<1>2. PICK q : q = PodsAfter(obj[k], v)
  OBVIOUS
<1>3. q \in PodCounts /\ q.ready <= q.old + q.new
  BY <1>2, PodsAfterIs
<1>4. pods' = q \/ pods' = pods
  BY <1>2 DEF Write
<1>5. pods' \in PodCounts /\ pods'.ready <= pods'.old + pods'.new
  BY <1>3, <1>4 DEF ObjTypes
<1> QED BY <1>1, <1>5 DEF ObjTypes

(* A write of an honest Deployment, or of any Service.                     *)
LEMMA HonestWrite ==
    ASSUME IInv, served' = served, NEW k \in Kinds, NEW v \in Object \cup {None},
           k = "Deployment" => Honest(v), Write(k, v)
    PROVE  ObjTypes' /\ DepOK'
<1>1. /\ ObjTypes' /\ objC' = objC
      /\ obj'[k] = v /\ \A x \in Kinds : x # k => obj'[x] = obj[x]
  BY WriteIs, TypeParts DEF IInv
<1>2. \/ obj'["Deployment"] = v /\ k = "Deployment"
      \/ obj'["Deployment"] = obj["Deployment"]
  BY <1>1, BlanksAre
<1>3. DepOK'
  BY <1>1, <1>2 DEF IInv, DepOK, Honest, Fair, Converged, SpecOf
<1> QED BY <1>1, <1>3

LEMMA ObjectsRest ==
    ASSUME IInv, served' = served, UNCHANGED ObjVars PROVE ObjTypes' /\ DepOK'
BY TypeParts DEF IInv, ObjVars, ObjTypes, DepOK, Honest, Fair, Converged, SpecOf

LEMMA InfdRests ==
    ASSUME IInv, served' = served, UNCHANGED InfdVars PROVE InfdTypes' /\ InfdOK'
BY TypeParts DEF IInv, InfdVars, InfdTypes, InfdOK, Deserved

LEMMA PolicyRests ==
    ASSUME IInv, UNCHANGED PolicyVars PROVE PolicyTypes'
BY TypeParts DEF IInv, PolicyVars, PolicyTypes

(* What a step has to show.                                                *)
LEMMA Shown ==
    ASSUME InfdTypes', ObjTypes', PolicyTypes', RestTypes', RecOK', DepOK', StepOK', InfdOK'
    PROVE  IInv'
<1>1. TypeOK'
  BY DEF TypeOK, InfdTypes, ObjTypes, PolicyTypes, RestTypes, PodCounts, Reconciles, Steps
<1> QED BY <1>1 DEF IInv

LEMMA UnderWay ==
    ASSUME IInv, rec.at # "idle"
    PROVE  rec # Idle /\ rec.copy \in Infd /\ rec.copy.spec \in Specs /\ rec.copy.status \in Status
BY BlanksAre, InfdIs DEF IInv, RecOK

(* A reconcile that ends.                                                  *)
LEMMA ReturnIs ==
    ASSUME IInv, served' = served, left' \in [Disturbances -> Nat],
           NEW again \in BOOLEAN, NEW later \in BOOLEAN, Return(again, later)
    PROVE  RestTypes' /\ RecOK' /\ StepOK'
<1>1. rec' = Idle /\ queued' = again /\ retry' = later
  BY DEF Return
<1>2. RecOK' /\ StepOK'
  BY <1>1, BlanksAre DEF RecOK, StepOK, Synced
<1> QED BY <1>1, <1>2, BlanksAre DEF IInv, TypeOK, RestTypes

(* A reconcile that goes on.                                               *)
LEMMA GoOnIs ==
    ASSUME IInv, served' = served, left' \in [Disturbances -> Nat], queued' = queued, retry' = retry,
           rec.at # "idle", rec' \in Reconciles, rec'.at # "idle", rec'.copy = rec.copy,
           rec'.at \in Synced /\ Converged(rec'.status, rec.copy.spec.replicas) => rec.copy.spec \in served
    PROVE  RestTypes' /\ RecOK' /\ StepOK'
<1>1. RecOK'
  BY UnderWay DEF RecOK
<1>2. PICK d : d = rec'.status
  OBVIOUS
<1>3. rec'.at \in Synced /\ Converged(d, rec.copy.spec.replicas) => rec.copy.spec \in served
  BY <1>2
<1>4. StepOK'
  BY <1>2, <1>3 DEF StepOK, Converged
<1> QED BY <1>1, <1>4 DEF IInv, TypeOK, RestTypes

(* Status().Update of a status that is deserved, then the end.             *)
LEMMA StatusUpdated ==
    ASSUME IInv, served' = served, left' = left, NEW c \in Infd, NEW ok \in BOOLEAN,
           NEW s \in Status, Deserved(s), NEW again \in BOOLEAN, NEW later \in BOOLEAN,
           UpdateStatus(c, ok, s, Return(again, later))
    PROVE  InfdTypes' /\ InfdOK' /\ RestTypes' /\ RecOK' /\ StepOK'
<1>1. \/ UNCHANGED InfdVars /\ Return(again, later)
      \/ WriteInfd([c EXCEPT !.status = s]) /\ Return(again, later)
      \/ UNCHANGED InfdVars /\ ReturnError
  BY DEF UpdateStatus
<1>2. left' \in [Disturbances -> Nat] /\ retry \in BOOLEAN
  BY DEF IInv, TypeOK
<1>3. RestTypes' /\ RecOK' /\ StepOK'
  <2>1. CASE Return(again, later)
    BY <2>1, <1>2, ReturnIs
  <2>2. CASE ReturnError
    BY <2>2, <1>2, ReturnIs DEF ReturnError
  <2> QED BY <1>1, <2>1, <2>2
<1>4. CASE UNCHANGED InfdVars
  BY <1>3, <1>4, InfdRests
<1>5. CASE WriteInfd([c EXCEPT !.status = s])
  <2>1. PICK v : v = [c EXCEPT !.status = s]
    OBVIOUS
  <2>2. v \in Infd /\ v.status = s
    BY <2>1, InfdIs
  <2>3. infd' = v /\ infdF' = FALSE /\ infdC' = infdC
    BY <1>5, <2>1 DEF WriteInfd
  <2>4. InfdTypes'
    BY <2>2, <2>3, TypeParts DEF IInv, InfdTypes
  <2>5. InfdOK'
    BY <2>2, <2>3 DEF InfdOK, Deserved
  <2> QED BY <1>3, <2>4, <2>5
<1> QED BY <1>1, <1>4, <1>5

LEMMA DegradedIs ==
    ASSUME NEW c \in Infd, NEW k \in Kinds, NEW s, s = Degraded(c, k)
    PROVE  s \in Status /\ Deserved(s)
<1>1. c.spec \in Specs
  BY InfdIs
<1>2. PICK z \in Nat : z = 0
  OBVIOUS
<1>3. s = [phase |-> "Degraded", conflict |-> k, ready |-> z, observed |-> c.spec]
  BY <1>2 DEF Degraded
<1>4. s \in Status /\ s.phase = "Degraded"
  BY <1>1, <1>3 DEF Status
<1> QED BY <1>4 DEF Deserved

(* What an update makes of an object keeps its status only for the content *)
(* that the status is of.                                                  *)
Contents == [replicas : Nat, version : Versions \cup {Other}, queue : Queues]

LEMMA ObjectIs ==
    ASSUME NEW o \in Object
    PROVE  /\ o.owner \in Nat \cup {Other} /\ o.content \in Contents
           /\ o.status \in DeploymentStatus
BY DEF Object, Contents

LEMMA MadeIs ==
    ASSUME NEW id \in Nat \cup {Other}, NEW content \in Contents,
           NEW st \in DeploymentStatus, NEW o,
           o = [owner |-> id, content |-> content, status |-> st]
    PROVE  o \in Object /\ o.owner = id /\ o.content = content /\ o.status = st
BY DEF Object, Contents

LEMMA WithContentIs ==
    ASSUME NEW o \in Object, NEW content \in Contents, NEW v, v = WithContent(o, content)
    PROVE  /\ v \in Object /\ v.owner = o.owner /\ v.content = content
           /\ \A n : Converged(v.status, n) => Converged(o.status, n) /\ content = o.content
<1>1. PICK b \in BOOLEAN : b <=> o.status.seen /\ content = o.content
  OBVIOUS
<1>2. PICK st : st = [o.status EXCEPT !.seen = b]
  OBVIOUS
<1>3. o.status \in DeploymentStatus /\ o.owner \in Nat \cup {Other}
  BY ObjectIs
<1>4. /\ st \in DeploymentStatus /\ (st.seen <=> b)
      /\ st.replicas = o.status.replicas /\ st.updated = o.status.updated
      /\ st.ready = o.status.ready
  BY <1>2, <1>3 DEF DeploymentStatus
<1>5. (o.status.seen /\ content = o.content) = b
  BY <1>1, <1>3 DEF DeploymentStatus
<1>6. v = [owner |-> o.owner, content |-> content, status |-> st]
  BY <1>2, <1>5 DEF WithContent, Object
<1>7. v \in Object /\ v.owner = o.owner /\ v.content = content /\ v.status = st
  BY <1>3, <1>4, <1>6, MadeIs
<1> QED BY <1>1, <1>4, <1>7 DEF Converged

LEMMA NewOwner ==
    ASSUME NEW o \in Object, NEW id \in Nat, NEW v, v = [o EXCEPT !.owner = id]
    PROVE  /\ v \in Object /\ v.owner = id /\ v.content = o.content
           /\ v.status = o.status
BY DEF Object

-----------------------------------------------------------------------------
(* The reconciler's steps.                                                 *)

(* The reconcile goes on with what the object it wrote or found shows.     *)
CarriesOn(k, next, o) ==
    /\ rec' = [rec EXCEPT !.at = next, !.queue = None,
                   !.status = IF k = "Deployment" THEN o.status ELSE rec.status]
    /\ UNCHANGED <<queued, retry>>

(* The step ends in an error, or with an object o of ours that has the     *)
(* content asked for, written or cached so.                                *)
LEMMA Applied ==
    ASSUME IInv, served' = served, NEW k \in Kinds, NEW content \in Contents,
           NEW next, rec.at # "idle",
           k = "Deployment" => SpecOf(content) = rec.copy.spec,
           CreateOrUpdate(k, content, next)
    PROVE  \/ UNCHANGED ObjVars /\ ReturnError
           \/ \E o \in Object :
                 /\ o.content = content /\ o.owner = rec.copy.uid
                 /\ k = "Deployment" => Fair(o)
                 /\ Write(k, o) \/ (UNCHANGED ObjVars /\ o = objC[k] /\ o # None)
                 /\ CarriesOn(k, next, o)
<1>1. rec.copy \in Infd /\ rec.copy.uid \in Nat /\ rec.copy.spec \in Specs
  BY UnderWay, InfdIs
<1> DEFINE c == objC[k]
           new == [owner |-> rec.copy.uid, content |-> content, status |-> NoStatus]
           updated == [WithContent(c, content) EXCEPT !.owner = rec.copy.uid]
           Go(o) == CarriesOn(k, next, o)
           Mine(o) == /\ o \in Object /\ o.content = content /\ o.owner = rec.copy.uid
                      /\ k = "Deployment" => Fair(o)
<1>2. \/ c = None /\ Write(k, new) /\ Go(new)
      \/ UNCHANGED ObjVars /\ ReturnError
      \/ c # None /\ updated = c /\ UNCHANGED ObjVars /\ Go(c)
      \/ c # None /\ updated = c /\ UNCHANGED ObjVars /\ Go(updated)
      \/ c # None /\ Write(k, updated) /\ Go(updated)
  BY DEF CreateOrUpdate, CarriesOn
<1>3. Mine(new)
  <2>1. PICK o : o = new
    OBVIOUS
  <2>2. o \in Object /\ o.owner = rec.copy.uid /\ o.content = content /\ o.status = NoStatus
    BY <1>1, <2>1, MadeIs, BlanksAre
  <2>3. k = "Deployment" => Fair(o)
    BY <1>1, <2>2, BlanksAre DEF Fair, Converged
  <2> QED BY <2>1, <2>2, <2>3
<1>4. ASSUME c # None PROVE Mine(updated)
  <2>1. c \in Object
    BY <1>4 DEF IInv, TypeOK
  <2>2. PICK w : w = WithContent(c, content)
    OBVIOUS
  <2>3. /\ w \in Object /\ w.owner = c.owner /\ w.content = content
        /\ \A n : Converged(w.status, n) => Converged(c.status, n) /\ content = c.content
    BY <2>1, <2>2, WithContentIs
  <2>4. PICK v : v = [w EXCEPT !.owner = rec.copy.uid]
    OBVIOUS
  <2>5. v \in Object /\ v.owner = rec.copy.uid /\ v.content = content /\ v.status = w.status
    BY <1>1, <2>3, <2>4, NewOwner
  <2>6. k = "Deployment" => Fair(c)
    BY <1>4 DEF IInv, DepOK, Honest
  <2>7. ASSUME k = "Deployment" PROVE Fair(v)
    <3>1. SpecOf(v.content) \in Specs
      BY <1>1, <2>5, <2>7
    <3>2. Converged(v.status, content.replicas) => SpecOf(content) \in served
      BY <1>4, <2>3, <2>5, <2>6, <2>7 DEF Fair
    <3> QED BY <2>5, <3>1, <3>2 DEF Fair
  <2>8. Mine(v)
    BY <2>5, <2>7
  <2> QED BY <2>2, <2>4, <2>8
<1>5. CASE c = None /\ Write(k, new) /\ Go(new)
  <2> HIDE DEF new
  <2> QED BY <1>3, <1>5
<1>6. CASE c # None /\ updated = c /\ UNCHANGED ObjVars /\ (Go(c) \/ Go(updated))
  <2>1. Mine(c)
    BY <1>4, <1>6
  <2>2. Go(c)
    BY <1>6
  <2> HIDE DEF updated
  <2> QED BY <1>6, <2>1, <2>2
<1>7. CASE c # None /\ Write(k, updated) /\ Go(updated)
  <2>1. Mine(updated)
    BY <1>4, <1>7
  <2> HIDE DEF updated, c
  <2> QED BY <1>7, <2>1
<1> QED BY <1>2, <1>5, <1>6, <1>7

LEMMA CreateOrUpdateKeeps ==
    ASSUME IInv, served' = served, left' = left, NEW k \in Kinds, NEW content \in Contents,
           NEW next \in Synced, rec.at # "idle",
           k = "Deployment" => SpecOf(content) = rec.copy.spec,
           k = "Service" => rec.at \in Synced,
           CreateOrUpdate(k, content, next)
    PROVE  ObjTypes' /\ DepOK' /\ RestTypes' /\ RecOK' /\ StepOK'
<1>1. left' \in [Disturbances -> Nat] /\ retry \in BOOLEAN /\ rec \in Reconciles
  BY TypeParts DEF IInv, RestTypes
<1>2. CASE UNCHANGED ObjVars /\ ReturnError
  BY <1>1, <1>2, ObjectsRest, ReturnIs DEF ReturnError
<1>3. ASSUME NEW o \in Object, o.content = content, k = "Deployment" => Fair(o),
             Write(k, o) \/ UNCHANGED ObjVars,
             CarriesOn(k, next, o)
      PROVE  ObjTypes' /\ DepOK' /\ RestTypes' /\ RecOK' /\ StepOK'
  <2>1. ObjTypes' /\ DepOK'
    BY <1>3, HonestWrite, ObjectsRest DEF Honest
  <2>2. PICK st \in DeploymentStatus : st = IF k = "Deployment" THEN o.status ELSE rec.status
    BY <1>1, ObjectIs DEF Reconciles
  <2>3. /\ rec' \in Reconciles /\ rec'.at = next /\ rec'.copy = rec.copy
        /\ rec'.status = st
    <3>1. PICK r : r = [rec EXCEPT !.at = next, !.queue = None, !.status = st]
      OBVIOUS
    <3>2. rec' = r
      BY <1>3, <2>2, <3>1 DEF CarriesOn
    <3>3. next \in Steps
      BY DEF Synced, Steps
    <3>4. r \in Reconciles /\ r.at = next /\ r.copy = rec.copy /\ r.status = st
      BY <1>1, <2>2, <3>1, <3>3 DEF Reconciles, Queues
    <3> QED BY <3>2, <3>4
  <2>4. ASSUME Converged(st, rec.copy.spec.replicas) PROVE rec.copy.spec \in served
    <3>1. CASE k = "Deployment"
      <4>1. SpecOf(o.content) = rec.copy.spec /\ st = o.status /\ Fair(o)
        BY <1>3, <2>2, <3>1
      <4>2. o.content.replicas = rec.copy.spec.replicas
        BY <4>1 DEF SpecOf
      <4> QED BY <2>4, <4>1, <4>2 DEF Fair
    <3>2. CASE k = "Service"
      BY <2>2, <2>4, <3>2, BlanksAre DEF IInv, StepOK
    <3> QED BY <3>1, <3>2 DEF Kinds
  <2>5. next # "idle"
    BY DEF Synced
  <2>6. RestTypes' /\ RecOK' /\ StepOK'
    BY <1>1, <1>3, <2>3, <2>4, <2>5, GoOnIs DEF CarriesOn
  <2> QED BY <2>1, <2>6
<1>4. CASE ~(UNCHANGED ObjVars /\ ReturnError)
  <2>1. PICK o \in Object :
          /\ o.content = content /\ o.owner = rec.copy.uid
          /\ k = "Deployment" => Fair(o)
          /\ Write(k, o) \/ UNCHANGED ObjVars
          /\ CarriesOn(k, next, o)
    BY <1>4, Applied
  <2> QED BY <1>3, <2>1
<1> QED BY <1>2, <1>4

LEMMA DegradeKeeps ==
    ASSUME IInv, served' = served, left' = left, NEW c \in Infd, NEW k \in Kinds,
           NEW ok \in BOOLEAN, NEW again \in BOOLEAN, markDegraded(c, k, ok, again)
    PROVE  InfdTypes' /\ InfdOK' /\ RestTypes' /\ RecOK' /\ StepOK'
<1>1. PICK s : s = Degraded(c, k)
  OBVIOUS
<1>2. s \in Status /\ Deserved(s)
  BY <1>1, DegradedIs
<1>3. PICK later \in BOOLEAN : later = TRUE
  OBVIOUS
<1>4. UpdateStatus(c, ok, s, Return(again, later))
  BY <1>1, <1>3 DEF markDegraded
<1> QED BY <1>2, <1>4, StatusUpdated

LEMMA BeginKeeps == ASSUME IInv, Begin PROVE IInv'
<1>1. UNCHANGED <<ObjVars, PolicyVars, served, left>>
  BY DEF Begin
<1>2. ObjTypes' /\ DepOK' /\ PolicyTypes'
  BY <1>1, ObjectsRest, PolicyRests
<1>3. /\ infdC \in Infd \cup {None} /\ infdF \in BOOLEAN /\ retry \in BOOLEAN
      /\ left' \in [Disturbances -> Nat]
  BY <1>1 DEF IInv, TypeOK
<1>4. CASE infdC = None /\ Return(FALSE, retry) /\ UNCHANGED InfdVars
  BY <1>1, <1>2, <1>3, <1>4, ReturnIs, InfdRests, Shown
<1>5. CASE infdC # None /\ markDegraded(infdC, "Deployment", infdF, FALSE)
  <2>1. PICK c \in Infd, k \in Kinds : c = infdC /\ k = "Deployment"
    BY <1>3, <1>5, BlanksAre
  <2>2. PICK ok \in BOOLEAN : ok = infdF
    BY <1>3
  <2>3. PICK again \in BOOLEAN : again = FALSE
    OBVIOUS
  <2>4. markDegraded(c, k, ok, again)
    BY <1>5, <2>1, <2>2, <2>3
  <2> QED BY <1>1, <1>2, <2>4, DegradeKeeps, Shown
<1>6. CASE /\ infdC # None
           /\ \E q \in servingQueue :
                 rec' = [at |-> "deployment", copy |-> infdC, ok |-> infdF,
                         queue |-> q, status |-> NoStatus]
           /\ queued' = FALSE /\ UNCHANGED <<InfdVars, retry>>
  <2>1. PICK q \in servingQueue :
          rec' = [at |-> "deployment", copy |-> infdC, ok |-> infdF,
                  queue |-> q, status |-> NoStatus]
    BY <1>6
  <2>2. q \in Queues
    BY TypeParts DEF servingQueue, IInv, PolicyTypes, Queues
  <2>3. PICK st : st = NoStatus
    OBVIOUS
  <2>4. st \in DeploymentStatus
    BY <2>3, BlanksAre
  <2>5. rec' = [at |-> "deployment", copy |-> infdC, ok |-> infdF, queue |-> q, status |-> st]
    BY <2>1, <2>3
  <2>6. rec' \in Reconciles /\ rec'.at = "deployment" /\ rec'.copy \in Infd
    BY <1>3, <1>6, <2>2, <2>4, <2>5 DEF Reconciles, Steps
  <2>7. RestTypes'
    BY <1>1, <1>3, <1>6, <2>6, TypeParts DEF IInv, RestTypes
  <2>8. RecOK' /\ StepOK'
    BY <2>6 DEF RecOK, StepOK, Synced
  <2> QED BY <1>1, <1>2, <1>6, <2>7, <2>8, InfdRests, Shown
<1> QED BY <1>4, <1>5, <1>6 DEF Begin

LEMMA SyncDeploymentKeeps == ASSUME IInv, SyncDeployment PROVE IInv'
<1>1. UNCHANGED <<InfdVars, PolicyVars, served, left>> /\ rec.at # "idle"
  BY DEF SyncDeployment
<1>2. rec.copy.spec \in Specs /\ rec \in Reconciles
  BY <1>1, UnderWay, TypeParts DEF IInv, RestTypes
<1>3. PICK content : content = [replicas |-> rec.copy.spec.replicas,
                                version |-> rec.copy.spec.version, queue |-> rec.queue]
  OBVIOUS
<1>4. content \in Contents /\ SpecOf(content) = rec.copy.spec
  BY <1>2, <1>3, SpecIs DEF Contents, SpecOf, Reconciles
<1>5. PICK k \in Kinds, next \in Synced : k = "Deployment" /\ next = "checkService"
  BY BlanksAre DEF Synced
<1>6. CreateOrUpdate(k, content, next)
  BY <1>3, <1>5 DEF SyncDeployment
<1>7. ObjTypes' /\ DepOK' /\ RestTypes' /\ RecOK' /\ StepOK'
  BY <1>1, <1>4, <1>5, <1>6, CreateOrUpdateKeeps, BlanksAre
<1> QED BY <1>1, <1>7, InfdRests, PolicyRests, Shown

LEMMA SyncServiceKeeps == ASSUME IInv, SyncService PROVE IInv'
<1>1. UNCHANGED <<InfdVars, PolicyVars, served, left>> /\ rec.at = "service"
  BY DEF SyncService
<1>2. rec.copy.spec \in Specs
  BY <1>1, UnderWay
<1>3. PICK z \in Nat : z = 0
  OBVIOUS
<1>4. PICK content : content = [replicas |-> z, version |-> rec.copy.spec.version, queue |-> None]
  OBVIOUS
<1>5. content \in Contents
  BY <1>2, <1>4, SpecIs DEF Contents, Queues
<1>6. PICK k \in Kinds, next \in Synced : k = "Service" /\ next = "status"
  BY BlanksAre DEF Synced
<1>7. CreateOrUpdate(k, content, next)
  BY <1>3, <1>4, <1>6 DEF SyncService
<1>8. rec.at # "idle" /\ rec.at \in Synced
  BY <1>1 DEF Synced
<1>9. ObjTypes' /\ DepOK' /\ RestTypes' /\ RecOK' /\ StepOK'
  BY <1>1, <1>5, <1>6, <1>7, <1>8, CreateOrUpdateKeeps, BlanksAre
<1> QED BY <1>1, <1>9, InfdRests, PolicyRests, Shown

LEMMA CheckServiceKeeps == ASSUME IInv, CheckService PROVE IInv'
<1>1. UNCHANGED <<ObjVars, PolicyVars, served, left>> /\ rec.at = "checkService"
  BY DEF CheckService
<1>2. ObjTypes' /\ DepOK' /\ PolicyTypes'
  BY <1>1, ObjectsRest, PolicyRests
<1>3. rec.at # "idle" /\ rec \in Reconciles /\ queued \in BOOLEAN
  BY <1>1, TypeParts DEF IInv, RestTypes
<1>4. CASE markDegraded(rec.copy, "Service", rec.ok, queued)
  <2>1. PICK c \in Infd, k \in Kinds : c = rec.copy /\ k = "Service"
    BY <1>3, UnderWay, BlanksAre
  <2>2. PICK ok \in BOOLEAN : ok = rec.ok
    BY <1>3 DEF Reconciles
  <2>3. PICK again \in BOOLEAN : again = queued
    BY <1>3
  <2>4. markDegraded(c, k, ok, again)
    BY <1>4, <2>1, <2>2, <2>3
  <2> QED BY <1>1, <1>2, <2>4, DegradeKeeps, Shown
<1>5. CASE GoTo("service") /\ UNCHANGED InfdVars
  <2>1. PICK r : r = [rec EXCEPT !.at = "service"]
    OBVIOUS
  <2>2. r \in Reconciles /\ r.at = "service" /\ r.copy = rec.copy /\ r.status = rec.status
    BY <1>3, <2>1 DEF Reconciles, Steps
  <2>3. rec' = r /\ UNCHANGED <<queued, retry>>
    BY <1>5, <2>1 DEF GoTo
  <2>4. rec.at \in Synced /\ r.at # "idle"
    BY <1>1, <2>2 DEF Synced
  <2>5. Converged(r.status, rec.copy.spec.replicas) => rec.copy.spec \in served
    BY <2>2, <2>4 DEF IInv, StepOK
  <2>6. RestTypes' /\ RecOK' /\ StepOK'
    BY <1>1, <1>3, <2>2, <2>3, <2>4, <2>5, GoOnIs DEF IInv, TypeOK
  <2> QED BY <1>1, <1>2, <1>5, <2>6, InfdRests, Shown
<1> QED BY <1>4, <1>5 DEF CheckService

(* A spec that asks for replicas is Ready only on a converged status.      *)
LEMMA PhaseIs ==
    ASSUME NEW want \in Nat, NEW d \in DeploymentStatus, NEW p, p = computeInfDPhase(want, d)
    PROVE  /\ p \in {"Pending", "Progressing", "Ready", "Degraded"}
           /\ p = "Ready" /\ want > 0 => Converged(d, want)
<1>1. p \in {"Pending", "Progressing", "Ready", "Degraded"}
  BY DEF computeInfDPhase
<1>2. ASSUME p = "Ready", want > 0 PROVE Converged(d, want)
  BY <1>2 DEF computeInfDPhase, Converged
<1> QED BY <1>1, <1>2

LEMMA WriteStatusKeeps == ASSUME IInv, WriteStatus PROVE IInv'
<1>1. UNCHANGED <<ObjVars, PolicyVars, served, left>> /\ rec.at = "status"
  BY DEF WriteStatus
<1>2. ObjTypes' /\ DepOK' /\ PolicyTypes'
  BY <1>1, ObjectsRest, PolicyRests
<1>3. /\ rec.at # "idle" /\ rec.at \in Synced /\ rec \in Reconciles
      /\ queued \in BOOLEAN /\ retry \in BOOLEAN
  BY <1>1, TypeParts DEF IInv, RestTypes, Synced
<1>4. PICK c \in Infd : c = rec.copy
  BY <1>3, UnderWay
<1>5. PICK d \in DeploymentStatus : d = rec.status
  BY <1>3 DEF Reconciles
<1>6. PICK ok \in BOOLEAN : ok = rec.ok
  BY <1>3 DEF Reconciles
<1>7. c.spec \in Specs /\ c.spec.replicas \in Nat
  BY InfdIs, SpecIs
<1>8. PICK s : s = StatusOf(c.spec, d)
  OBVIOUS
<1>9. PICK p : p = computeInfDPhase(c.spec.replicas, d)
  OBVIOUS
<1>10. s = [phase |-> p, conflict |-> None, ready |-> d.ready, observed |-> c.spec]
  BY <1>8, <1>9 DEF StatusOf
<1>11. /\ p \in {"Pending", "Progressing", "Ready", "Degraded"}
       /\ p = "Ready" /\ c.spec.replicas > 0 => Converged(d, c.spec.replicas)
  BY <1>7, <1>9, PhaseIs
<1>12. s \in Status
  BY <1>7, <1>10, <1>11 DEF Status, DeploymentStatus
<1>13. Converged(d, c.spec.replicas) => c.spec \in served
  BY <1>3, <1>4, <1>5 DEF IInv, StepOK
<1>14. Deserved(s)
  BY <1>7, <1>10, <1>11, <1>13 DEF Deserved
<1>15. PICK again \in BOOLEAN, later \in BOOLEAN : again = queued /\ later = retry
  BY <1>3
<1>16. UpdateStatus(c, ok, s, Return(again, later))
  BY <1>4, <1>5, <1>6, <1>8, <1>15 DEF WriteStatus, Done
<1>17. InfdTypes' /\ InfdOK' /\ RestTypes' /\ RecOK' /\ StepOK'
  BY <1>1, <1>12, <1>14, <1>16, StatusUpdated
<1> QED BY <1>2, <1>17, Shown

-----------------------------------------------------------------------------
(* Caches, timers, failures.                                               *)

LEMMA RecRests ==
    ASSUME IInv, rec' = rec, served' = served PROVE RecOK' /\ StepOK'
BY DEF IInv, RecOK, StepOK, Converged

LEMMA DeliveryKeeps == ASSUME IInv, Delivery PROVE IInv'
<1>1. UNCHANGED <<rec, served, left>>
  BY DEF Delivery, SyncInfdC, TimerFires, SyncObjectC, SyncPolicyC
<1>2. RecOK' /\ StepOK'
  BY <1>1, RecRests
<1>3. InfdTypes /\ ObjTypes /\ PolicyTypes /\ RestTypes
  BY TypeParts DEF IInv
<1>4. CASE SyncInfdC
  <2>1. InfdTypes' /\ InfdOK'
    BY <1>1, <1>3, <1>4 DEF SyncInfdC, IInv, InfdTypes, InfdOK, Deserved
  <2>2. ObjTypes' /\ DepOK' /\ PolicyTypes'
    BY <1>1, <1>4, ObjectsRest, PolicyRests DEF SyncInfdC
  <2>3. RestTypes'
    BY <1>1, <1>3, <1>4 DEF SyncInfdC, RestTypes
  <2> QED BY <1>2, <2>1, <2>2, <2>3, Shown
<1>5. CASE TimerFires
  <2>1. InfdTypes' /\ InfdOK' /\ ObjTypes' /\ DepOK' /\ PolicyTypes'
    BY <1>1, <1>5, InfdRests, ObjectsRest, PolicyRests DEF TimerFires
  <2>2. RestTypes'
    BY <1>1, <1>3, <1>5 DEF TimerFires, RestTypes
  <2> QED BY <1>2, <2>1, <2>2, Shown
<1>6. ASSUME NEW k \in Kinds, SyncObjectC(k) PROVE IInv'
  <2>1. InfdTypes' /\ InfdOK' /\ PolicyTypes'
    BY <1>1, <1>6, InfdRests, PolicyRests DEF SyncObjectC
  <2>2. ObjTypes'
    BY <1>3, <1>6 DEF SyncObjectC, ObjTypes
  <2>3. obj' = obj /\ objC'["Deployment"] \in {obj["Deployment"], objC["Deployment"]}
    BY <1>3, <1>6, BlanksAre DEF SyncObjectC, ObjTypes
  <2>4. DepOK'
    BY <1>1, <2>3 DEF IInv, DepOK, Honest, Fair, Converged, SpecOf
  <2>5. RestTypes'
    BY <1>1, <1>3, <1>6 DEF SyncObjectC, RestTypes
  <2> QED BY <1>2, <2>1, <2>2, <2>4, <2>5, Shown
<1>7. ASSUME NEW p \in Policies, SyncPolicyC(p) PROVE IInv'
  <2>1. InfdTypes' /\ InfdOK' /\ ObjTypes' /\ DepOK'
    BY <1>1, <1>7, InfdRests, ObjectsRest DEF SyncPolicyC
  <2>2. PolicyTypes'
    BY <1>3, <1>7 DEF SyncPolicyC, PolicyTypes
  <2>3. RestTypes'
    BY <1>1, <1>3, <1>7 DEF SyncPolicyC, RestTypes
  <2> QED BY <1>2, <2>1, <2>2, <2>3, Shown
<1> QED BY <1>4, <1>5, <1>6, <1>7 DEF Delivery

LEMMA CallFailsKeeps == ASSUME IInv, CallFails PROVE IInv'
<1>1. UNCHANGED <<InfdVars, ObjVars, PolicyVars, served>> /\ ReturnError /\ Spend("failures")
  BY DEF CallFails
<1>2. left' \in [Disturbances -> Nat] /\ retry \in BOOLEAN
  BY <1>1, SpendIs DEF IInv, TypeOK, Disturbances
<1>3. RestTypes' /\ RecOK' /\ StepOK'
  BY <1>1, <1>2, ReturnIs DEF ReturnError
<1> QED BY <1>1, <1>3, InfdRests, ObjectsRest, PolicyRests, Shown

LEMMA CrashKeeps == ASSUME IInv, Crash PROVE IInv'
<1>1. InfdTypes /\ ObjTypes /\ PolicyTypes /\ RestTypes
  BY TypeParts DEF IInv
<1>2. left' \in [Disturbances -> Nat]
  BY SpendIs DEF Crash, IInv, TypeOK, Disturbances
<1>3. RestTypes' /\ RecOK' /\ StepOK'
  BY <1>1, <1>2, BlanksAre DEF Crash, RestTypes, RecOK, StepOK, Synced
<1>4. InfdTypes' /\ InfdOK'
  BY <1>1 DEF Crash, IInv, InfdTypes, InfdOK, Deserved
<1>5. PICK e \in {"none"} : news' = [k \in Kinds |-> e]
  BY DEF Crash
<1>6. ObjTypes'
  BY <1>1, <1>5 DEF Crash, ObjTypes
<1>7. DepOK'
  BY DEF Crash, IInv, DepOK, Honest, Fair, Converged, SpecOf
<1>8. PolicyTypes'
  BY <1>1 DEF Crash, PolicyTypes
<1> QED BY <1>3, <1>4, <1>6, <1>7, <1>8, Shown

-----------------------------------------------------------------------------
(* The Deployment controller and the pods.                                 *)

LEMMA PodsMove ==
    ASSUME IInv, OnlyPods, pods' \in PodCounts, pods'.ready <= pods'.old + pods'.new,
           left' \in [Disturbances -> Nat]
    PROVE  IInv'
<1>1. UNCHANGED <<InfdVars, obj, objC, news, PolicyVars, queued, retry, rec, served>>
  BY DEF OnlyPods
<1>2. InfdTypes' /\ InfdOK' /\ PolicyTypes' /\ RecOK' /\ StepOK'
  BY <1>1, InfdRests, PolicyRests, RecRests
<1>3. ObjTypes' /\ RestTypes'
  BY <1>1, TypeParts DEF IInv, ObjTypes, RestTypes
<1>4. DepOK'
  BY <1>1 DEF IInv, DepOK, Honest, Fair, Converged, SpecOf
<1> QED BY <1>2, <1>3, <1>4, Shown

LEMMA ManagedIs ==
    ASSUME IInv, Managed
    PROVE  /\ Dep \in Object /\ Fair(Dep) /\ Dep.owner # Other
           /\ Dep.content \in Contents /\ Dep.content.replicas \in Nat
           /\ SpecOf(Dep.content) \in Specs
<1>1. Dep \in Object /\ Dep.owner # Other
  BY BlanksAre DEF Managed, Dep, IInv, TypeOK
<1>2. Dep.content \in Contents /\ Dep.content.replicas \in Nat
  BY <1>1, ObjectIs DEF Contents
<1>3. Fair(Dep)
  BY DEF IInv, DepOK, Honest, Dep, Managed
<1> QED BY <1>1, <1>2, <1>3 DEF Fair

LEMMA PodStepsKeep == ASSUME IInv, StartPod \/ StopPod \/ PodReady \/ PodLapses PROVE IInv'
<1>1. pods \in PodCounts /\ pods.ready <= pods.old + pods.new
  BY DEF IInv, TypeOK, PodCounts
<1>2. PICK o \in Nat, n \in Nat, r \in Nat :
        o = pods.old /\ n = pods.new /\ r = pods.ready
  BY <1>1 DEF PodCounts
<1>3. pods = [old |-> o, new |-> n, ready |-> r] /\ r <= o + n
  BY <1>1, <1>2 DEF PodCounts
<1>4. left \in [Disturbances -> Nat]
  BY DEF IInv, TypeOK
<1>5. CASE StartPod
  <2>1. pods' = [old |-> o, new |-> n + 1, ready |-> r] /\ OnlyPods /\ left' = left
    BY <1>3, <1>5 DEF StartPod
  <2>2. pods' \in PodCounts /\ pods'.ready <= pods'.old + pods'.new
    BY <1>3, <2>1 DEF PodCounts
  <2> QED BY <1>4, <2>1, <2>2, PodsMove
<1>6. CASE StopPod
  <2>1. PICK z \in Nat :
          \/ /\ pods.old > 0 /\ z <= pods.old + pods.new - 1
             /\ pods' = [pods EXCEPT !.old = @ - 1, !.ready = z]
          \/ /\ pods.new > Dep.content.replicas /\ z <= pods.old + pods.new - 1
             /\ pods' = [pods EXCEPT !.new = @ - 1, !.ready = z]
    BY <1>6 DEF StopPod
  <2>2. OnlyPods /\ left' = left
    BY <1>6 DEF StopPod
  <2>3. CASE /\ pods.old > 0 /\ z <= pods.old + pods.new - 1
             /\ pods' = [pods EXCEPT !.old = @ - 1, !.ready = z]
    <3>1. o > 0 /\ z <= o + n - 1 /\ pods' = [old |-> o - 1, new |-> n, ready |-> z]
      BY <1>2, <1>3, <2>3
    <3>2. pods' \in PodCounts /\ pods'.ready <= pods'.old + pods'.new
      BY <3>1 DEF PodCounts
    <3> QED BY <1>4, <2>2, <3>2, PodsMove
  <2>4. CASE /\ pods.new > Dep.content.replicas /\ z <= pods.old + pods.new - 1
             /\ pods' = [pods EXCEPT !.new = @ - 1, !.ready = z]
    <3>1. PICK w \in Nat : w = Dep.content.replicas
      BY <1>6, ManagedIs DEF StopPod
    <3>2. pods.new > w /\ z <= pods.old + pods.new - 1
      BY <2>4, <3>1
    <3>3. n > 0 /\ z <= o + n - 1
      BY <1>2, <3>2
    <3>4. pods' = [old |-> o, new |-> n - 1, ready |-> z]
      BY <1>2, <1>3, <2>4
    <3>5. pods' \in PodCounts /\ pods'.ready <= pods'.old + pods'.new
      BY <3>3, <3>4 DEF PodCounts
    <3> QED BY <1>4, <2>2, <3>5, PodsMove
  <2> QED BY <2>1, <2>3, <2>4
<1>7. CASE PodReady
  <2>1. r < o + n /\ pods' = [old |-> o, new |-> n, ready |-> r + 1]
    BY <1>2, <1>3, <1>7 DEF PodReady
  <2>2. pods' \in PodCounts /\ pods'.ready <= pods'.old + pods'.new
    BY <2>1 DEF PodCounts
  <2> QED BY <1>4, <1>7, <2>2, PodsMove DEF PodReady
<1>8. CASE PodLapses
  <2>1. r > 0 /\ pods' = [old |-> o, new |-> n, ready |-> r - 1]
    BY <1>2, <1>3, <1>8 DEF PodLapses
  <2>2. pods' \in PodCounts /\ pods'.ready <= pods'.old + pods'.new
    BY <1>3, <2>1 DEF PodCounts
  <2>3. left' \in [Disturbances -> Nat]
    BY <1>4, <1>8, SpendIs DEF PodLapses, Disturbances
  <2> QED BY <1>8, <2>2, <2>3, PodsMove DEF PodLapses
<1> QED BY <1>5, <1>6, <1>7, <1>8

(* A report of counts that have converged on a spec is what makes it       *)
(* served; any other leaves what was served.                               *)
LEMMA ReportKeeps ==
    ASSUME IInv, NEW s \in DeploymentStatus, Report(s), left' \in [Disturbances -> Nat]
    PROVE  IInv'
<1>1. PICK d : d = Dep
  OBVIOUS
<1>2. /\ d \in Object /\ Fair(d) /\ d.owner # Other /\ d.content \in Contents
      /\ SpecOf(d.content) \in Specs
  BY <1>1, ManagedIs DEF Report
<1>3. PICK v : v = [d EXCEPT !.status = s]
  OBVIOUS
<1>4. v \in Object /\ v.owner = d.owner /\ v.content = d.content /\ v.status = s
  BY <1>2, <1>3 DEF Object
<1>5. /\ Put("Deployment", v)
      /\ served' = IF {s.replicas, s.updated, s.ready} = {d.content.replicas}
                   THEN served \cup {SpecOf(d.content)} ELSE served
      /\ UNCHANGED <<pods, InfdVars, PolicyVars, queued, retry, rec>>
  BY <1>1, <1>3 DEF Report, SpecOf
<1>6. served \subseteq served' /\ served' \subseteq Specs
  BY <1>2, <1>5 DEF IInv, TypeOK
<1>7. /\ obj' \in [Kinds -> Object \cup {None}] /\ objC' = objC
      /\ news' \in [Kinds -> {"none", "quiet", "wake"}] /\ obj'["Deployment"] = v
  BY <1>4, <1>5, PutIs, TypeParts, BlanksAre DEF IInv
<1>8. ObjTypes'
  BY <1>5, <1>7, TypeParts DEF IInv, ObjTypes
<1>9. InfdTypes' /\ PolicyTypes' /\ RestTypes'
  BY <1>5, <1>6, TypeParts DEF IInv, InfdVars, PolicyVars, InfdTypes, PolicyTypes, RestTypes
<1>10. RecOK' /\ StepOK'
  BY <1>5, <1>6 DEF IInv, RecOK, StepOK, Converged
<1>11. InfdOK'
  BY <1>5, <1>6 DEF IInv, InfdVars, InfdOK, Deserved
<1>12. DepOK'
  <2>1. Converged(s, d.content.replicas) => SpecOf(d.content) \in served'
    BY <1>5 DEF Converged
  <2>2. Honest(v)'
    BY <1>2, <1>4, <2>1 DEF Honest, Fair, Converged, SpecOf
  <2>3. Honest(objC["Deployment"])'
    BY <1>6, <1>7 DEF IInv, DepOK, Honest, Fair, Converged, SpecOf
  <2> QED BY <1>7, <2>2, <2>3 DEF DepOK, Honest, Fair, Converged, SpecOf
<1> QED BY <1>8, <1>9, <1>10, <1>11, <1>12, Shown

LEMMA RolloutKeeps == ASSUME IInv, Rollout PROVE IInv'
<1>1. left \in [Disturbances -> Nat] /\ pods \in PodCounts
  BY DEF IInv, TypeOK, PodCounts
<1>2. PICK s : s = Counts
  OBVIOUS
<1>3. PICK b \in BOOLEAN : b = FALSE
  OBVIOUS
<1>4. PICK t \in BOOLEAN : t = TRUE
  OBVIOUS
<1>5. PICK m \in Nat : m = pods.old + pods.new
  BY <1>1 DEF PodCounts
<1>6. s = [seen |-> t, replicas |-> m, updated |-> pods.new, ready |-> pods.ready, failed |-> b]
  BY <1>2, <1>3, <1>4, <1>5 DEF Counts
<1>7. s \in DeploymentStatus
  BY <1>1, <1>6 DEF DeploymentStatus, PodCounts
<1>8. CASE ReportStatus
  BY <1>1, <1>2, <1>7, <1>8, ReportKeeps DEF ReportStatus
<1>9. CASE DeadlinePasses
  <2>1. PICK f : f = [s EXCEPT !.failed = t]
    OBVIOUS
  <2>2. f \in DeploymentStatus
    BY <1>7, <2>1 DEF DeploymentStatus
  <2>3. Report(f) /\ Spend("stalls")
    BY <1>2, <1>4, <1>9, <2>1 DEF DeadlinePasses
  <2>4. left' \in [Disturbances -> Nat]
    BY <1>1, <2>3, SpendIs DEF Disturbances
  <2> QED BY <2>2, <2>3, <2>4, ReportKeeps
<1> QED BY <1>8, <1>9, PodStepsKeep DEF Rollout

-----------------------------------------------------------------------------
(* Users and the garbage collector.                                        *)

LEMMA OutdateKeeps ==
    ASSUME IInv, Outdate, NEW v \in Infd \cup {None}, v # None => Deserved(v.status),
           WriteInfd(v), left' \in [Disturbances -> Nat]
    PROVE  IInv'
<1>1. UNCHANGED <<ObjVars, PolicyVars, queued, retry, served>>
  BY DEF Outdate
<1>2. ObjTypes' /\ DepOK' /\ PolicyTypes'
  BY <1>1, ObjectsRest, PolicyRests
<1>3. infd' = v /\ infdF' = FALSE /\ infdC' = infdC
  BY DEF WriteInfd
<1>4. InfdTypes' /\ InfdOK'
  BY <1>1, <1>3, TypeParts DEF IInv, InfdTypes, InfdOK, Deserved
<1>5. rec \in Reconciles
  BY TypeParts DEF IInv, RestTypes
<1>6. PICK b \in BOOLEAN : b = FALSE
  OBVIOUS
<1>7. PICK r : r = [rec EXCEPT !.ok = b]
  OBVIOUS
<1>8. /\ r \in Reconciles /\ r.at = rec.at /\ r.copy = rec.copy /\ r.status = rec.status
      /\ rec' = r
  BY <1>5, <1>6, <1>7 DEF Reconciles, Outdate
<1>9. ASSUME rec = Idle PROVE r = Idle
  <2>1. rec.ok = b
    BY <1>6, <1>9 DEF Idle
  <2>2. r = rec
    BY <1>5, <1>7, <2>1 DEF Reconciles
  <2> QED BY <1>9, <2>2
<1>10. RecOK'
  BY <1>8, <1>9 DEF IInv, RecOK
<1>11. StepOK'
  BY <1>1, <1>8 DEF IInv, StepOK, Converged
<1>12. RestTypes'
  BY <1>1, <1>8, TypeParts DEF IInv, RestTypes
<1> QED BY <1>2, <1>4, <1>10, <1>11, <1>12, Shown

LEMMA ObjectWritten ==
    ASSUME IInv, OnlyObjects, NEW k \in Kinds, NEW v \in Object \cup {None},
           k = "Deployment" => Honest(v), Write(k, v), left' \in [Disturbances -> Nat]
    PROVE  IInv'
<1>1. UNCHANGED <<InfdVars, PolicyVars, queued, retry, rec, served>>
  BY DEF OnlyObjects
<1>2. ObjTypes' /\ DepOK'
  BY <1>1, HonestWrite
<1>3. RestTypes'
  BY <1>1, TypeParts DEF IInv, RestTypes
<1> QED BY <1>1, <1>2, <1>3, InfdRests, PolicyRests, RecRests, Shown

LEMMA Budgeted ==
    ASSUME IInv
    PROVE  /\ left \in [Disturbances -> Nat]
           /\ \A b \in Disturbances : Spend(b) => left' \in [Disturbances -> Nat]
BY SpendIs DEF IInv, TypeOK

LEMMA NewInfdIs ==
    ASSUME NEW id \in Nat, NEW s \in Specs, NEW v, v = NewInfd(id, s)
    PROVE  v \in Infd /\ Deserved(v.status)
<1>1. PICK z \in Nat : z = 0
  OBVIOUS
<1>2. PICK p \in {Unset} : p = Unset
  OBVIOUS
<1>3. PICK st : st = [phase |-> p, conflict |-> None, ready |-> z, observed |-> None]
  OBVIOUS
<1>4. st \in Status /\ st.phase = Unset
  BY <1>3 DEF Status
<1>5. v = [uid |-> id, spec |-> s, status |-> st]
  BY <1>1, <1>2, <1>3 DEF NewInfd
<1>6. v \in Infd /\ v.status = st
  BY <1>4, <1>5 DEF Infd
<1>7. Unset # "Ready"
  BY DEF Unset
<1> QED BY <1>4, <1>6, <1>7 DEF Deserved

LEMMA EnvironmentKeeps == ASSUME IInv, Environment PROVE IInv'
<1>1. infd \in Infd \cup {None}
  BY DEF IInv, TypeOK
<1>2. /\ "edits" \in Disturbances /\ "deletes" \in Disturbances
      /\ "recreations" \in Disturbances /\ "policies" \in Disturbances
      /\ "foreign" \in Disturbances /\ "removals" \in Disturbances
      /\ "scalings" \in Disturbances
  BY DEF Disturbances
<1>3. ASSUME NEW s \in Specs, EditSpec(s) PROVE IInv'
  <2>1. PICK v : v = [infd EXCEPT !.spec = s]
    OBVIOUS
  <2>2. v \in Infd /\ v.status = infd.status
    BY <1>1, <1>3, <2>1, InfdIs DEF EditSpec
  <2>3. Deserved(v.status)
    BY <1>3, <2>2 DEF EditSpec, IInv, InfdOK
  <2> QED BY <1>2, <1>3, <2>1, <2>2, <2>3, Budgeted, OutdateKeeps DEF EditSpec
<1>4. CASE DeleteInfd
  BY <1>2, <1>4, Budgeted, OutdateKeeps DEF DeleteInfd
<1>5. ASSUME NEW s \in Specs, RecreateInfd(s) PROVE IInv'
  <2>1. left.recreations \in Nat
    BY <1>2, Budgeted
  <2>2. PICK v : v = NewInfd(left.recreations, s)
    OBVIOUS
  <2>3. v \in Infd /\ Deserved(v.status)
    BY <2>1, <2>2, NewInfdIs
  <2> QED BY <1>2, <1>5, <2>2, <2>3, Budgeted, OutdateKeeps DEF RecreateInfd
<1>6. ASSUME NEW p \in Policies, NEW q \in Queues, EditPolicy(p, q) PROVE IInv'
  <2>1. /\ UNCHANGED <<policyC, InfdVars, ObjVars, queued, retry, rec, served>>
        /\ policy' = [policy EXCEPT ![p] = q] /\ Spend("policies")
    BY <1>6 DEF EditPolicy
  <2>2. left' \in [Disturbances -> Nat]
    BY <1>2, <2>1, Budgeted
  <2>3. RestTypes' /\ PolicyTypes'
    BY <2>1, <2>2, TypeParts DEF IInv, RestTypes, PolicyTypes
  <2> QED BY <2>1, <2>3, InfdRests, ObjectsRest, RecRests, Shown
<1>7. ASSUME NEW k \in Kinds, CreateForeign(k) PROVE IInv'
  <2>1. PICK z \in Nat : z = 0
    OBVIOUS
  <2>2. PICK content : content = [replicas |-> z, version |-> Other, queue |-> None]
    OBVIOUS
  <2>3. content \in Contents
    BY <2>2 DEF Contents, Queues
  <2>4. PICK id \in Nat \cup {Other}, st \in DeploymentStatus : id = Other /\ st = NoStatus
    BY BlanksAre
  <2>5. PICK v : v = [owner |-> id, content |-> content, status |-> st]
    OBVIOUS
  <2>6. v \in Object /\ v.owner = id /\ v.status = st
    BY <2>3, <2>4, <2>5, MadeIs
  <2>7. Honest(v)
    BY <2>4, <2>6, BlanksAre DEF Honest, Fair, Converged
  <2>8. [owner |-> Other, status |-> NoStatus,
         content |-> [replicas |-> 0, version |-> Other, queue |-> None]] = v
    BY <2>1, <2>2, <2>4, <2>5
  <2>9. Write(k, v) /\ OnlyObjects /\ Spend("foreign")
    BY <1>7, <2>8 DEF CreateForeign
  <2> QED BY <1>2, <2>6, <2>7, <2>9, Budgeted, ObjectWritten
<1>8. ASSUME NEW k \in Kinds, RemoveObject(k) PROVE IInv'
  BY <1>2, <1>8, Budgeted, ObjectWritten DEF RemoveObject, Honest
<1>9. ASSUME NEW k \in Kinds, CollectGarbage(k) PROVE IInv'
  BY <1>9, Budgeted, ObjectWritten DEF CollectGarbage, Honest
<1>10. ASSUME NEW n \in Replicas, ScaleDeployment(n) PROVE IInv'
  <2>1. PICK d : d = Dep
    OBVIOUS
  <2>2. /\ d \in Object /\ Fair(d) /\ d.owner # Other /\ d.content \in Contents
        /\ SpecOf(d.content) \in Specs
    BY <1>10, <2>1, ManagedIs DEF ScaleDeployment
  <2>3. PICK content : content = [d.content EXCEPT !.replicas = n]
    OBVIOUS
  <2>4. n \in Nat /\ d.content.replicas # n
    BY <1>10, <2>1, ConstantsAssumption DEF ScaleDeployment
  <2>5. /\ content \in Contents /\ content.replicas = n
        /\ content.version = d.content.version
    BY <2>2, <2>3, <2>4 DEF Contents
  <2>6. SpecOf(content) \in Specs
    BY <2>2, <2>5 DEF SpecOf, Specs
  <2>7. PICK v : v = WithContent(d, content)
    OBVIOUS
  <2>8. /\ v \in Object /\ v.owner = d.owner /\ v.content = content
        /\ \A m : Converged(v.status, m) => Converged(d.status, m) /\ content = d.content
    BY <2>2, <2>5, <2>7, WithContentIs
  <2>9. Honest(v)
    BY <2>4, <2>5, <2>6, <2>8 DEF Honest, Fair
  <2>10. Write("Deployment", v) /\ OnlyObjects /\ Spend("scalings")
    BY <1>10, <2>1, <2>3, <2>7 DEF ScaleDeployment
  <2> QED BY <1>2, <2>8, <2>9, <2>10, Budgeted, ObjectWritten, BlanksAre
<1> QED BY <1>3, <1>4, <1>5, <1>6, <1>7, <1>8, <1>9, <1>10 DEF Environment

-----------------------------------------------------------------------------
(* The inductive invariant.                                                *)

LEMMA InitHolds == ASSUME Init PROVE IInv
<1>1. PICK s \in Specs : infd = NewInfd(0, s)
  BY DEF Init
<1>2. PICK z \in Nat : z = 0
  OBVIOUS
<1>3. infd = NewInfd(z, s) /\ infdC = infd /\ infdF = TRUE
  BY <1>1, <1>2 DEF Init
<1>4. infd \in Infd /\ Deserved(infd.status)
  BY <1>3, NewInfdIs
<1>5. InfdTypes /\ InfdOK
  BY <1>3, <1>4 DEF InfdTypes, InfdOK
<1>6. /\ obj = [k \in Kinds |-> None] /\ objC = obj
      /\ PolicyTypes /\ pods = NoPods
  BY DEF Init, PolicyTypes, Queues
<1>7. PICK e \in {"none"} : news = [k \in Kinds |-> e]
  BY DEF Init
<1>8. pods \in PodCounts /\ pods.ready <= pods.old + pods.new
  BY <1>6, BlanksAre DEF PodCounts
<1>9. ObjTypes
  BY <1>6, <1>7, <1>8 DEF ObjTypes
<1>10. DepOK
  BY <1>6, BlanksAre DEF DepOK, Honest
<1>11. RestTypes /\ RecOK /\ StepOK
  BY BlanksAre, ConstantsAssumption DEF Init, RestTypes, RecOK, StepOK, Synced
<1>12. TypeOK
  BY <1>5, <1>6, <1>9, <1>11, TypeParts
<1> QED BY <1>5, <1>10, <1>11, <1>12 DEF IInv

LEMMA StepKeeps == ASSUME IInv, [Next]_vars PROVE IInv'
<1>1. CASE UNCHANGED vars
  <2>1. UNCHANGED <<InfdVars, ObjVars, PolicyVars, queued, retry, rec, served, left>>
    BY <1>1 DEF vars, InfdVars, ObjVars, PolicyVars
  <2>2. RestTypes'
    BY <2>1, TypeParts DEF IInv, RestTypes
  <2> QED BY <2>1, <2>2, InfdRests, ObjectsRest, PolicyRests, RecRests, Shown
<1>2. CASE Reconcile
  BY <1>2, BeginKeeps, SyncDeploymentKeeps, CheckServiceKeeps, SyncServiceKeeps,
     WriteStatusKeeps DEF Reconcile
<1> QED BY <1>1, <1>2, DeliveryKeeps, CallFailsKeeps, CrashKeeps, RolloutKeeps,
           EnvironmentKeeps DEF Next

LEMMA Inductive == Spec => []IInv
BY InitHolds, StepKeeps, PTL DEF Spec

-----------------------------------------------------------------------------
(* Nothing is left unsettled: what a reconcile has still to do, or has to  *)
(* do again, is queued, pending or undelivered.                            *)

CopyOK == infdF => infdC = infd

(* An object the cache does not show has an event on its way, and one that *)
(* wakes us if the object was or is anybody's.                             *)
NewsOK == \A k \in Kinds :
    /\ news[k] = "none" => objC[k] = obj[k]
    /\ news[k] = "quiet" => ~Wakes(objC[k]) /\ ~Wakes(obj[k])

(* A reconcile has the object in hand, or another one is to come.          *)
HeldOK == rec # Idle =>
    /\ IF rec.ok THEN rec.copy = infd ELSE queued \/ ~infdF
    /\ queued \/ infdC # None

(* So with the queue it labels the Deployment with,                        *)
LabelOK == rec.at = "deployment" => queued \/ rec.queue \in servingQueue

(* with the Deployment and the Service it has seen to,                     *)
Own(k, c)  == obj[k] # None /\ obj[k].owner = c.uid
DepIs(c)   == /\ Own("Deployment", c) /\ Dep.content.replicas = c.spec.replicas
              /\ Dep.content.version = c.spec.version /\ Dep.content.queue \in servingQueue
SvcIs(c)   == Own("Service", c) /\ obj["Service"].content.version = c.spec.version
Coming(k)  == queued \/ news[k] = "wake"

DepStepOK == rec.at \in Synced =>
                 Coming("Deployment") \/ (DepIs(rec.copy) /\ rec.status = Dep.status)
SvcStepOK == rec.at = "status" => Coming("Service") \/ SvcIs(rec.copy)

(* and with all of it once it rests.                                       *)
Pending == retry \/ ~infdF \/ \E k \in Kinds : Coming(k)
Right   == DepIs(infd) /\ SvcIs(infd) /\ infd.status = StatusOf(infd.spec, Dep.status)
RestOK  == rec = Idle /\ infd # None => Pending \/ Right

SettlingInv == CopyOK /\ NewsOK /\ HeldOK /\ LabelOK /\ DepStepOK /\ SvcStepOK /\ RestOK

(* A reconcile that is to come sees to everything.                         *)
LEMMA WhenQueued ==
    ASSUME queued', CopyOK', NewsOK', rec' # Idle /\ rec'.ok => rec'.copy = infd'
    PROVE  SettlingInv'
<1>1. HeldOK' /\ LabelOK' /\ DepStepOK' /\ SvcStepOK' /\ RestOK'
  BY BlanksAre DEF HeldOK, LabelOK, DepStepOK, SvcStepOK, RestOK, Pending, Coming
<1> QED BY <1>1 DEF SettlingInv

LEMMA IdleIs == ASSUME IInv PROVE rec = Idle <=> rec.at = "idle"
BY BlanksAre DEF IInv, RecOK

(* The event of a write: it wakes us if the object was or is anybody's.    *)
LEMMA PutMoves ==
    ASSUME IInv, NewsOK, NEW k \in Kinds, NEW v, Put(k, v)
    PROVE  /\ obj'[k] = v /\ \A x \in Kinds : x # k => obj'[x] = obj[x] /\ news'[x] = news[x]
           /\ objC' = objC
           /\ \/ news'[k] = "wake"
              \/ news'[k] = "quiet" /\ news[k] # "wake" /\ ~Wakes(obj[k]) /\ ~Wakes(v)
           /\ NewsOK'
<1>1. PICK e : e = IF Wakes(obj[k]) \/ Wakes(v) \/ news[k] = "wake" THEN "wake" ELSE "quiet"
  OBVIOUS
<1>2. obj' = [obj EXCEPT ![k] = v] /\ news' = [news EXCEPT ![k] = e] /\ objC' = objC
  BY <1>1 DEF Put
<1>3. obj \in [Kinds -> Object \cup {None}] /\ news \in [Kinds -> {"none", "quiet", "wake"}]
  BY DEF IInv, TypeOK
<1>4. /\ obj'[k] = v /\ news'[k] = e
      /\ \A x \in Kinds : x # k => obj'[x] = obj[x] /\ news'[x] = news[x]
  BY <1>2, <1>3
<1>5. e = "wake" \/ (e = "quiet" /\ news[k] # "wake" /\ ~Wakes(obj[k]) /\ ~Wakes(v))
  BY <1>1
<1>6. news[k] # "wake" /\ ~Wakes(obj[k]) => ~Wakes(objC[k])
  BY <1>3 DEF NewsOK
<1>7. NewsOK'
  <2> SUFFICES ASSUME NEW x \in Kinds
               PROVE  /\ news'[x] = "none" => objC'[x] = obj'[x]
                      /\ news'[x] = "quiet" => ~Wakes(objC'[x]) /\ ~Wakes(obj'[x])
    BY DEF NewsOK, Wakes
  <2>1. CASE x = k
    BY <1>2, <1>4, <1>5, <1>6, <2>1
  <2>2. CASE x # k
    BY <1>2, <1>4, <2>2 DEF NewsOK
  <2> QED BY <2>1, <2>2
<1> QED BY <1>2, <1>4, <1>5, <1>7

(* An object of ours wakes us.                                             *)
LEMMA OwnWakes ==
    ASSUME NEW c \in Infd, NEW k \in Kinds, Own(k, c) PROVE Wakes(obj[k])
BY AbsentAssumption, InfdIs DEF Own, Wakes

(* Nothing we look at moves.                                               *)
Seen == <<infd, infdC, infdF, obj, objC, news, policyC, queued, retry, rec>>

LEMMA NothingMoves == ASSUME SettlingInv, UNCHANGED Seen PROVE SettlingInv'
<1>1. /\ infd' = infd /\ infdC' = infdC /\ infdF' = infdF /\ obj' = obj /\ objC' = objC
      /\ news' = news /\ policyC' = policyC /\ queued' = queued /\ retry' = retry /\ rec' = rec
  BY DEF Seen
<1>2. CopyOK' /\ NewsOK' /\ HeldOK' /\ LabelOK'
  BY <1>1 DEF SettlingInv, CopyOK, NewsOK, Wakes, HeldOK, LabelOK, servingQueue
<1>3. DepStepOK'
  BY <1>1 DEF SettlingInv, DepStepOK, Coming, DepIs, Own, Dep, servingQueue
<1>4. SvcStepOK'
  BY <1>1 DEF SettlingInv, SvcStepOK, Coming, SvcIs, Own
<1>5. RestOK'
  <2>1. Pending' <=> Pending
    BY <1>1 DEF Pending, Coming
  <2>2. Right' <=> Right
    BY <1>1 DEF Right, DepIs, SvcIs, Own, Dep, servingQueue
  <2> QED BY <1>1, <2>1, <2>2 DEF SettlingInv, RestOK
<1> QED BY <1>2, <1>3, <1>4, <1>5 DEF SettlingInv

(* An object moves, by another hand.                                       *)
LEMMA ObjectMoves ==
    ASSUME IInv, SettlingInv, NEW k \in Kinds, NEW v, Put(k, v),
           UNCHANGED <<InfdVars, PolicyVars, queued, retry, rec>>
    PROVE  SettlingInv'
<1>1. /\ \A x \in Kinds : x # k => obj'[x] = obj[x] /\ news'[x] = news[x]
      /\ news'[k] = "wake" \/ (news[k] # "wake" /\ ~Wakes(obj[k]))
      /\ NewsOK'
  BY PutMoves DEF SettlingInv
<1>2. \A x \in Kinds : \/ news'[x] = "wake"
                       \/ news[x] # "wake" /\ (obj'[x] = obj[x] \/ ~Wakes(obj[x]))
  <2>1. news \in [Kinds -> {"none", "quiet", "wake"}]
    BY DEF IInv, TypeOK
  <2> QED BY <1>1
<1>3. CopyOK' /\ HeldOK' /\ LabelOK'
  BY DEF SettlingInv, InfdVars, PolicyVars, CopyOK, HeldOK, LabelOK, servingQueue
<1>4. ASSUME NEW c \in Infd, DepIs(c), news["Deployment"] # "wake", ~Coming("Deployment")'
      PROVE  DepIs(c)' /\ Dep' = Dep
  <2>1. Wakes(obj["Deployment"])
    BY <1>4, OwnWakes, BlanksAre DEF DepIs
  <2>2. obj'["Deployment"] = obj["Deployment"]
    BY <1>2, <1>4, <2>1, BlanksAre DEF Coming
  <2> QED BY <1>4, <2>2 DEF DepIs, Own, Dep, servingQueue, PolicyVars
<1>5. ASSUME NEW c \in Infd, SvcIs(c), news["Service"] # "wake", ~Coming("Service")'
      PROVE  SvcIs(c)'
  <2>1. Wakes(obj["Service"])
    BY <1>5, OwnWakes, BlanksAre DEF SvcIs
  <2>2. obj'["Service"] = obj["Service"]
    BY <1>2, <1>5, <2>1, BlanksAre DEF Coming
  <2> QED BY <1>5, <2>2 DEF SvcIs, Own
<1>6. \A x \in Kinds : Coming(x) => Coming(x)'
  BY <1>2 DEF Coming
<1>7. DepStepOK'
  <2> SUFFICES ASSUME rec.at \in Synced, ~Coming("Deployment")'
               PROVE  (DepIs(rec.copy) /\ rec.status = Dep.status)'
    BY DEF DepStepOK
  <2>1. rec.at # "idle"
    BY DEF Synced
  <2>2. ~Coming("Deployment") /\ DepIs(rec.copy) /\ rec.status = Dep.status
    BY <1>6, BlanksAre DEF SettlingInv, DepStepOK
  <2>3. PICK c \in Infd : c = rec.copy
    BY <2>1, UnderWay
  <2>4. DepIs(c)' /\ Dep' = Dep
    BY <1>4, <2>2, <2>3 DEF Coming
  <2> QED BY <2>2, <2>3, <2>4 DEF DepIs, Own
<1>8. SvcStepOK'
  <2> SUFFICES ASSUME rec.at = "status", ~Coming("Service")' PROVE SvcIs(rec.copy)'
    BY DEF SvcStepOK
  <2>1. ~Coming("Service") /\ SvcIs(rec.copy)
    BY <1>6, BlanksAre DEF SettlingInv, SvcStepOK
  <2>2. PICK c \in Infd : c = rec.copy
    BY UnderWay
  <2>3. SvcIs(c)'
    BY <1>5, <2>1, <2>2 DEF Coming
  <2> QED BY <2>2, <2>3 DEF SvcIs, Own
<1>9. RestOK'
  <2> SUFFICES ASSUME rec = Idle, infd # None, ~Pending' PROVE Right'
    BY DEF RestOK, InfdVars
  <2>1. ~Pending /\ \A x \in Kinds : ~Coming(x)' /\ ~Coming(x)
    BY <1>6 DEF Pending, InfdVars
  <2>2. Right
    BY <2>1 DEF SettlingInv, RestOK
  <2>3. PICK c \in Infd : c = infd
    BY DEF IInv, TypeOK
  <2>4. DepIs(c)' /\ SvcIs(c)' /\ Dep' = Dep
    BY <1>4, <1>5, <2>1, <2>2, <2>3, BlanksAre DEF Right, Coming
  <2>5. infd' = c
    BY <2>3 DEF InfdVars
  <2>6. c.status = StatusOf(c.spec, Dep'.status)
    BY <2>2, <2>3, <2>4 DEF Right
  <2> QED BY <2>4, <2>5, <2>6 DEF Right, DepIs, SvcIs, Own
<1> QED BY <1>1, <1>3, <1>7, <1>8, <1>9 DEF SettlingInv

(* Status().Update, and the end: unless the status is as it was, there is  *)
(* an event or a retry to come.                                            *)
LEMMA UpdateSettles ==
    ASSUME IInv, SettlingInv, UNCHANGED <<ObjVars, PolicyVars>>, NEW c \in Infd, NEW ok, NEW s,
           NEW again, NEW later, UpdateStatus(c, ok, s, Return(again, later)),
           \/ later = TRUE
           \/ ~again /\ s = c.status /\ infdF /\ infd # None /\ ~later => Pending' \/ Right'
    PROVE  SettlingInv'
<1>1. \/ s = c.status /\ UNCHANGED InfdVars /\ Return(again, later)
      \/ WriteInfd([c EXCEPT !.status = s]) /\ Return(again, later)
      \/ UNCHANGED InfdVars /\ ReturnError
  BY DEF UpdateStatus
<1>2. rec' = Idle /\ rec'.at = "idle"
  BY <1>1, BlanksAre DEF Return, ReturnError
<1>3. CopyOK' /\ NewsOK'
  BY <1>1 DEF SettlingInv, InfdVars, ObjVars, WriteInfd, CopyOK, NewsOK, Wakes
<1>4. HeldOK' /\ LabelOK' /\ DepStepOK' /\ SvcStepOK'
  BY <1>2 DEF HeldOK, LabelOK, DepStepOK, SvcStepOK, Synced
<1>5. RestOK'
  <2>1. CASE s = c.status /\ UNCHANGED InfdVars /\ Return(again, later)
    <3>1. queued' = again /\ retry' = later
      BY <2>1 DEF Return
    <3> QED BY <2>1, <3>1, BlanksAre DEF RestOK, Pending, Coming, InfdVars
  <2>2. CASE WriteInfd([c EXCEPT !.status = s]) /\ Return(again, later)
    BY <2>2 DEF WriteInfd, RestOK, Pending
  <2>3. CASE UNCHANGED InfdVars /\ ReturnError
    BY <2>3, BlanksAre DEF ReturnError, Return, RestOK, Pending, Coming
  <2> QED BY <1>1, <2>1, <2>2, <2>3
<1> QED BY <1>3, <1>4, <1>5 DEF SettlingInv

LEMMA DegradeSettles ==
    ASSUME IInv, SettlingInv, UNCHANGED <<ObjVars, PolicyVars>>, NEW c \in Infd, NEW k, NEW ok, NEW again,
           markDegraded(c, k, ok, again)
    PROVE  SettlingInv'
<1>1. PICK later : later = TRUE
  OBVIOUS
<1>2. UpdateStatus(c, ok, Degraded(c, k), Return(again, later))
  BY <1>1 DEF markDegraded
<1> QED BY <1>1, <1>2, UpdateSettles

LEMMA BeginSettles == ASSUME IInv, SettlingInv, Begin PROVE SettlingInv'
<1>1. UNCHANGED <<ObjVars, PolicyVars>>
  BY DEF Begin
<1>2. infdC \in Infd \cup {None}
  BY DEF IInv, TypeOK
<1>3. NewsOK' /\ CopyOK
  BY <1>1 DEF SettlingInv, ObjVars, NewsOK, Wakes
<1>4. CASE infdC = None /\ Return(FALSE, retry) /\ UNCHANGED InfdVars
  <2>1. rec' = Idle /\ rec'.at = "idle"
    BY <1>4, BlanksAre DEF Return
  <2>2. CopyOK' /\ HeldOK' /\ LabelOK' /\ DepStepOK' /\ SvcStepOK'
    BY <1>3, <1>4, <2>1 DEF InfdVars, CopyOK, HeldOK, LabelOK, DepStepOK, SvcStepOK, Synced
  <2>3. infd # None => ~infdF
    BY <1>3, <1>4 DEF CopyOK
  <2>4. RestOK'
    BY <1>4, <2>3 DEF RestOK, Pending, InfdVars
  <2> QED BY <1>3, <2>2, <2>4 DEF SettlingInv
<1>5. CASE infdC # None /\ markDegraded(infdC, "Deployment", infdF, FALSE)
  BY <1>1, <1>2, <1>5, DegradeSettles
<1>6. CASE /\ infdC # None
           /\ \E q \in servingQueue :
                 rec' = [at |-> "deployment", copy |-> infdC, ok |-> infdF,
                         queue |-> q, status |-> NoStatus]
           /\ queued' = FALSE /\ UNCHANGED <<InfdVars, retry>>
  <2>1. PICK q \in servingQueue :
          rec' = [at |-> "deployment", copy |-> infdC, ok |-> infdF,
                  queue |-> q, status |-> NoStatus]
    BY <1>6
  <2>2. rec'.at = "deployment" /\ rec'.copy = infdC /\ rec'.ok = infdF /\ rec'.queue = q
    BY <2>1
  <2>3. rec' # Idle
    BY <2>2, BlanksAre
  <2>4. CopyOK' /\ HeldOK'
    BY <1>3, <1>6, <2>2 DEF InfdVars, CopyOK, HeldOK
  <2>5. LabelOK' /\ DepStepOK' /\ SvcStepOK' /\ RestOK'
    BY <1>1, <2>2, <2>3 DEF LabelOK, DepStepOK, SvcStepOK, RestOK, Synced, servingQueue, PolicyVars
  <2> QED BY <1>3, <2>4, <2>5 DEF SettlingInv
<1> QED BY <1>4, <1>5, <1>6 DEF Begin

(* What CreateOrUpdate wrote or found is there, or an event is to come.    *)
LEMMA AppliedSettles ==
    ASSUME IInv, SettlingInv, UNCHANGED <<InfdVars, PolicyVars, served>>, NEW k \in Kinds,
           NEW content \in Contents, NEW next, rec.at # "idle",
           k = "Deployment" => SpecOf(content) = rec.copy.spec,
           CreateOrUpdate(k, content, next)
    PROVE  \/ SettlingInv'
           \/ /\ NewsOK'
              /\ \A x \in Kinds : x # k => obj'[x] = obj[x] /\ news'[x] = news[x]
              /\ \E o \in Object :
                    /\ o.content = content /\ o.owner = rec.copy.uid
                    /\ (obj'[k] = o \/ news'[k] = "wake")
                    /\ CarriesOn(k, next, o)
<1>1. rec.copy \in Infd /\ rec.copy.uid \in Nat
  BY UnderWay, InfdIs
<1>2. CASE UNCHANGED ObjVars /\ ReturnError
  <2>1. queued' /\ rec' = Idle
    BY <1>2 DEF ReturnError, Return
  <2>2. CopyOK' /\ NewsOK'
    BY <1>2 DEF SettlingInv, InfdVars, ObjVars, CopyOK, NewsOK, Wakes
  <2> QED BY <2>1, <2>2, WhenQueued
<1>3. ASSUME NEW o \in Object, o.content = content, o.owner = rec.copy.uid, Write(k, o),
             CarriesOn(k, next, o)
      PROVE  /\ NewsOK' /\ news'[k] = "wake"
             /\ \A x \in Kinds : x # k => obj'[x] = obj[x] /\ news'[x] = news[x]
  <2>1. Wakes(o)
    BY <1>1, <1>3, AbsentAssumption DEF Wakes
  <2>2. Put(k, o)
    BY <1>3 DEF Write
  <2> QED BY <1>3, <2>1, <2>2, PutMoves DEF SettlingInv, CarriesOn
<1>4. ASSUME NEW o \in Object, o.content = content, o.owner = rec.copy.uid, o = objC[k], UNCHANGED ObjVars,
             CarriesOn(k, next, o)
      PROVE  /\ NewsOK' /\ (obj'[k] = o \/ news'[k] = "wake")
             /\ \A x \in Kinds : x # k => obj'[x] = obj[x] /\ news'[x] = news[x]
  <2>1. Wakes(o)
    BY <1>1, <1>4, AbsentAssumption DEF Wakes
  <2>2. obj[k] = o \/ news[k] = "wake"
    <3>1. news[k] \in {"none", "quiet", "wake"}
      BY DEF IInv, TypeOK
    <3> QED BY <1>4, <2>1, <3>1 DEF SettlingInv, NewsOK
  <2>3. NewsOK'
    BY <1>4 DEF SettlingInv, ObjVars, NewsOK, Wakes
  <2> QED BY <1>4, <2>2, <2>3 DEF ObjVars, CarriesOn
<1> QED
  <2>1. CASE ~(UNCHANGED ObjVars /\ ReturnError)
    <3>1. PICK o \in Object :
            /\ o.content = content /\ o.owner = rec.copy.uid
            /\ Write(k, o) \/ (UNCHANGED ObjVars /\ o = objC[k])
            /\ CarriesOn(k, next, o)
      BY <2>1, Applied
    <3>2. CASE Write(k, o)
      BY <1>3, <3>1, <3>2
    <3>3. CASE UNCHANGED ObjVars /\ o = objC[k]
      BY <1>4, <3>1, <3>3
    <3> QED BY <3>1, <3>2, <3>3
  <2> QED BY <1>2, <2>1

(* A reconcile that goes on holds the same copy.                           *)
LEMMA CarriedOn ==
    ASSUME IInv, SettlingInv, UNCHANGED <<InfdVars, PolicyVars>>, NEW k, NEW next \in Synced, NEW o,
           rec.at # "idle", CarriesOn(k, next, o)
    PROVE  /\ rec'.at = next /\ rec'.copy = rec.copy /\ queued' = queued /\ rec' # Idle
           /\ rec'.status = IF k = "Deployment" THEN o.status ELSE rec.status
           /\ CopyOK' /\ HeldOK' /\ LabelOK' /\ RestOK'
<1>1. rec \in Reconciles
  BY TypeParts DEF IInv, RestTypes
<1>2. PICK st : st = IF k = "Deployment" THEN o.status ELSE rec.status
  OBVIOUS
<1>3. rec' = [rec EXCEPT !.at = next, !.queue = None, !.status = st] /\ queued' = queued
  BY <1>2 DEF CarriesOn
<1>4. /\ rec'.at = next /\ rec'.copy = rec.copy /\ rec'.ok = rec.ok /\ rec'.status = st
  BY <1>1, <1>3 DEF Reconciles
<1>5. rec' # Idle /\ next \notin {"idle", "deployment"} /\ rec # Idle
  BY <1>4, BlanksAre DEF Synced
<1>6. CopyOK' /\ HeldOK'
  BY <1>3, <1>4, <1>5 DEF SettlingInv, InfdVars, CopyOK, HeldOK
<1>7. LabelOK' /\ RestOK'
  BY <1>4, <1>5 DEF LabelOK, RestOK
<1> QED BY <1>2, <1>3, <1>4, <1>5, <1>6, <1>7

LEMMA SyncDeploymentSettles == ASSUME IInv, SettlingInv, SyncDeployment PROVE SettlingInv'
<1>1. UNCHANGED <<InfdVars, PolicyVars, served, left>> /\ rec.at = "deployment"
  BY DEF SyncDeployment
<1>2. rec.copy.spec \in Specs /\ rec.copy \in Infd /\ rec \in Reconciles
  BY <1>1, UnderWay, TypeParts DEF IInv, RestTypes
<1>3. PICK content : content = [replicas |-> rec.copy.spec.replicas,
                                version |-> rec.copy.spec.version, queue |-> rec.queue]
  OBVIOUS
<1>4. /\ content \in Contents /\ SpecOf(content) = rec.copy.spec /\ content.queue = rec.queue
      /\ content.replicas = rec.copy.spec.replicas /\ content.version = rec.copy.spec.version
  BY <1>2, <1>3, SpecIs DEF Contents, SpecOf, Reconciles
<1>5. PICK k \in Kinds, next \in Synced : k = "Deployment" /\ next = "checkService"
  BY BlanksAre DEF Synced
<1>6. CreateOrUpdate(k, content, next)
  BY <1>3, <1>5 DEF SyncDeployment
<1>7. ASSUME NEW o \in Object, NewsOK', o.content = content, o.owner = rec.copy.uid,
             obj'[k] = o \/ news'[k] = "wake", CarriesOn(k, next, o)
      PROVE  SettlingInv'
  <2>1. /\ rec'.at = next /\ rec'.copy = rec.copy /\ queued' = queued /\ rec'.status = o.status
        /\ CopyOK' /\ HeldOK' /\ LabelOK' /\ RestOK'
    BY <1>1, <1>5, <1>7, CarriedOn
  <2>2. SvcStepOK'
    BY <1>5, <2>1 DEF SvcStepOK
  <2>3. DepStepOK'
    <3> SUFFICES ASSUME ~Coming("Deployment")'
                 PROVE  (DepIs(rec.copy) /\ rec.status = Dep.status)'
      BY DEF DepStepOK
    <3>1. ~queued /\ news'["Deployment"] # "wake"
      BY <2>1 DEF Coming
    <3>2. rec.queue \in servingQueue
      BY <1>1, <3>1 DEF SettlingInv, LabelOK
    <3>3. obj'["Deployment"] = o /\ o # None
      BY <1>5, <1>7, <3>1, AbsentAssumption
    <3>4. servingQueue' = servingQueue
      BY <1>1 DEF servingQueue, PolicyVars
    <3> QED BY <1>4, <1>7, <2>1, <3>2, <3>3, <3>4 DEF DepIs, Own, Dep
  <2> QED BY <1>7, <2>1, <2>2, <2>3 DEF SettlingInv
<1> QED BY <1>1, <1>4, <1>5, <1>6, <1>7, AppliedSettles

LEMMA CheckServiceSettles == ASSUME IInv, SettlingInv, CheckService PROVE SettlingInv'
<1>1. UNCHANGED <<ObjVars, PolicyVars>> /\ rec.at = "checkService"
  BY DEF CheckService
<1>2. rec.copy \in Infd /\ rec \in Reconciles
  BY <1>1, UnderWay, TypeParts DEF IInv, RestTypes
<1>3. CASE markDegraded(rec.copy, "Service", rec.ok, queued)
  BY <1>1, <1>2, <1>3, DegradeSettles
<1>4. CASE GoTo("service") /\ UNCHANGED InfdVars
  <2>1. rec' = [rec EXCEPT !.at = "service"] /\ queued' = queued
    BY <1>4 DEF GoTo
  <2>2. /\ rec'.at = "service" /\ rec'.copy = rec.copy /\ rec'.ok = rec.ok /\ rec'.status = rec.status
    BY <1>2, <2>1 DEF Reconciles
  <2>3. rec' # Idle /\ rec # Idle
    BY <1>1, <2>2, BlanksAre
  <2>4. CopyOK' /\ NewsOK' /\ HeldOK' /\ LabelOK' /\ SvcStepOK' /\ RestOK'
    BY <1>1, <1>4, <2>1, <2>2, <2>3
       DEF SettlingInv, InfdVars, ObjVars, CopyOK, NewsOK, Wakes, HeldOK, LabelOK, SvcStepOK, RestOK
  <2>5. Coming("Deployment") \/ (DepIs(rec.copy) /\ rec.status = Dep.status)
    BY <1>1 DEF SettlingInv, DepStepOK, Synced
  <2>6. DepStepOK'
    BY <1>1, <2>1, <2>2, <2>5
       DEF DepStepOK, Coming, DepIs, Own, Dep, servingQueue, ObjVars, PolicyVars
  <2> QED BY <2>4, <2>6 DEF SettlingInv
<1> QED BY <1>3, <1>4 DEF CheckService

LEMMA SyncServiceSettles == ASSUME IInv, SettlingInv, SyncService PROVE SettlingInv'
<1>1. UNCHANGED <<InfdVars, PolicyVars, served, left>> /\ rec.at = "service"
  BY DEF SyncService
<1>2. rec.copy.spec \in Specs
  BY <1>1, UnderWay
<1>3. PICK z \in Nat : z = 0
  OBVIOUS
<1>4. PICK content : content = [replicas |-> z, version |-> rec.copy.spec.version, queue |-> None]
  OBVIOUS
<1>5. content \in Contents /\ content.version = rec.copy.spec.version
  BY <1>2, <1>4, SpecIs DEF Contents, Queues
<1>6. PICK k \in Kinds, next \in Synced : k = "Service" /\ next = "status"
  BY BlanksAre DEF Synced
<1>7. CreateOrUpdate(k, content, next)
  BY <1>3, <1>4, <1>6 DEF SyncService
<1>8. ASSUME NEW o \in Object, NewsOK', o.content = content, o.owner = rec.copy.uid,
             \A x \in Kinds : x # k => obj'[x] = obj[x] /\ news'[x] = news[x],
             obj'[k] = o \/ news'[k] = "wake", CarriesOn(k, next, o)
      PROVE  SettlingInv'
  <2>1. /\ rec'.at = next /\ rec'.copy = rec.copy /\ queued' = queued /\ rec'.status = rec.status
        /\ CopyOK' /\ HeldOK' /\ LabelOK' /\ RestOK'
    BY <1>1, <1>6, <1>8, CarriedOn, BlanksAre
  <2>2. SvcStepOK'
    <3> SUFFICES ASSUME ~Coming("Service")' PROVE SvcIs(rec.copy)'
      BY DEF SvcStepOK
    <3>1. obj'["Service"] = o /\ o # None
      BY <1>6, <1>8, AbsentAssumption DEF Coming
    <3> QED BY <1>5, <1>8, <2>1, <3>1 DEF SvcIs, Own
  <2>3. DepStepOK'
    <3>1. obj'["Deployment"] = obj["Deployment"] /\ news'["Deployment"] = news["Deployment"]
      BY <1>6, <1>8, BlanksAre
    <3>2. Coming("Deployment") \/ (DepIs(rec.copy) /\ rec.status = Dep.status)
      BY <1>1 DEF SettlingInv, DepStepOK, Synced
    <3> QED BY <1>1, <2>1, <3>1, <3>2
            DEF DepStepOK, Coming, DepIs, Own, Dep, servingQueue, PolicyVars
  <2> QED BY <1>8, <2>1, <2>2, <2>3 DEF SettlingInv
<1> QED BY <1>1, <1>5, <1>6, <1>7, <1>8, AppliedSettles, BlanksAre

LEMMA WriteStatusSettles == ASSUME IInv, SettlingInv, WriteStatus PROVE SettlingInv'
<1>1. UNCHANGED <<ObjVars, PolicyVars>> /\ rec.at = "status"
  BY DEF WriteStatus
<1>2. PICK c \in Infd : c = rec.copy
  BY <1>1, UnderWay
<1>3. rec # Idle
  BY <1>1, BlanksAre
<1>4. PICK s : s = StatusOf(c.spec, rec.status)
  OBVIOUS
<1>5. UpdateStatus(c, rec.ok, s, Return(queued, retry))
  BY <1>2, <1>4 DEF WriteStatus, Done
<1>6. ASSUME ~queued, s = c.status, infdF, infd # None, ~Pending' PROVE Right'
  <2>1. CASE UNCHANGED InfdVars /\ queued' = queued
    <3>1. c = infd
      BY <1>2, <1>3, <1>6 DEF SettlingInv, HeldOK
    <3>2. news["Deployment"] # "wake" /\ news["Service"] # "wake"
      BY <1>1, <1>6, BlanksAre DEF Pending, Coming, ObjVars
    <3>3. DepIs(c) /\ rec.status = Dep.status /\ SvcIs(c)
      BY <1>1, <1>2, <1>6, <3>2 DEF SettlingInv, DepStepOK, SvcStepOK, Coming, Synced
    <3>4. infd.status = StatusOf(infd.spec, Dep.status)
      BY <1>4, <1>6, <3>1, <3>3
    <3>5. Right
      BY <3>1, <3>3, <3>4 DEF Right
    <3> QED BY <1>1, <2>1, <3>5
            DEF Right, DepIs, SvcIs, Own, Dep, servingQueue, InfdVars, ObjVars, PolicyVars
  <2>2. CASE infdF' = FALSE \/ queued'
    BY <1>6, <2>2, BlanksAre DEF Pending, Coming
  <2> QED BY <1>5, <2>1, <2>2 DEF UpdateStatus, WriteInfd, Return, ReturnError
<1> QED BY <1>1, <1>5, <1>6, UpdateSettles

-----------------------------------------------------------------------------
(* Caches, timers, failures, users.                                        *)

LEMMA DeliverySettles == ASSUME IInv, SettlingInv, Delivery PROVE SettlingInv'
<1>1. rec' = rec
  BY DEF Delivery, SyncInfdC, TimerFires, SyncObjectC, SyncPolicyC
<1>2. rec # Idle /\ rec.ok => rec.copy = infd
  BY DEF SettlingInv, HeldOK
<1>3. CASE SyncInfdC
  <2>1. CopyOK' /\ NewsOK' /\ queued' /\ infd' = infd
    BY <1>3 DEF SyncInfdC, SettlingInv, ObjVars, CopyOK, NewsOK, Wakes
  <2> QED BY <1>1, <1>2, <2>1, WhenQueued
<1>4. CASE TimerFires
  <2>1. CopyOK' /\ NewsOK' /\ queued' /\ infd' = infd
    BY <1>4 DEF TimerFires, SettlingInv, InfdVars, ObjVars, CopyOK, NewsOK, Wakes
  <2> QED BY <1>1, <1>2, <2>1, WhenQueued
<1>5. ASSUME NEW k \in Kinds, SyncObjectC(k) PROVE SettlingInv'
  <2>1. /\ objC' = [objC EXCEPT ![k] = obj[k]] /\ news' = [news EXCEPT ![k] = "none"]
        /\ queued' = (queued \/ news[k] = "wake")
        /\ UNCHANGED <<obj, pods, InfdVars, PolicyVars, retry, rec, served, left>>
    BY <1>5 DEF SyncObjectC
  <2>2. /\ objC \in [Kinds -> Object \cup {None}] /\ news \in [Kinds -> {"none", "quiet", "wake"}]
    BY DEF IInv, TypeOK
  <2>3. NewsOK'
    <3> SUFFICES ASSUME NEW x \in Kinds
                 PROVE  /\ news'[x] = "none" => objC'[x] = obj'[x]
                        /\ news'[x] = "quiet" => ~Wakes(objC'[x]) /\ ~Wakes(obj'[x])
      BY DEF NewsOK, Wakes
    <3>1. CASE x = k
      BY <2>1, <2>2, <3>1
    <3>2. CASE x # k
      <4>1. objC'[x] = objC[x] /\ news'[x] = news[x]
        BY <2>1, <2>2, <3>2
      <4> QED BY <2>1, <4>1 DEF SettlingInv, NewsOK
    <3> QED BY <3>1, <3>2
  <2>4. CopyOK'
    BY <2>1 DEF SettlingInv, InfdVars, CopyOK
  <2>5. CASE queued \/ news[k] = "wake"
    BY <1>1, <1>2, <2>1, <2>3, <2>4, <2>5, WhenQueued DEF InfdVars
  <2>6. CASE ~queued /\ news[k] # "wake"
    <3>1. queued' = FALSE
      BY <2>1, <2>6
    <3>2. \A x \in Kinds : Coming(x)' <=> Coming(x)
      BY <2>1, <2>2, <2>6, <3>1 DEF Coming
    <3>3. HeldOK' /\ LabelOK'
      BY <2>1, <2>6, <3>1 DEF SettlingInv, InfdVars, PolicyVars, HeldOK, LabelOK, servingQueue
    <3>4. DepStepOK' /\ SvcStepOK'
      BY <2>1, <3>2, BlanksAre
         DEF SettlingInv, PolicyVars, DepStepOK, SvcStepOK, DepIs, SvcIs, Own, Dep, servingQueue
    <3>5. RestOK'
      BY <2>1, <3>2 DEF SettlingInv, InfdVars, PolicyVars, RestOK, Pending, Right, DepIs, SvcIs, Own, Dep,
         servingQueue
    <3> QED BY <2>3, <2>4, <3>3, <3>4, <3>5 DEF SettlingInv
  <2> QED BY <2>5, <2>6
<1>6. ASSUME NEW p \in Policies, SyncPolicyC(p) PROVE SettlingInv'
  <2>1. /\ queued' = (queued \/ infdC # None)
        /\ UNCHANGED <<InfdVars, ObjVars, retry, rec>>
    BY <1>6 DEF SyncPolicyC
  <2>2. CopyOK' /\ NewsOK' /\ infd' = infd
    BY <2>1 DEF SettlingInv, InfdVars, ObjVars, CopyOK, NewsOK, Wakes
  <2>3. CASE queued \/ infdC # None
    BY <1>1, <1>2, <2>1, <2>2, <2>3, WhenQueued
  <2>4. CASE ~queued /\ infdC = None
    <3>1. rec = Idle /\ rec' = Idle /\ rec'.at = "idle"
      BY <2>1, <2>4, BlanksAre DEF SettlingInv, HeldOK
    <3>2. HeldOK' /\ LabelOK' /\ DepStepOK' /\ SvcStepOK'
      BY <3>1 DEF HeldOK, LabelOK, DepStepOK, SvcStepOK, Synced
    <3>3. infd # None => ~infdF
      BY <2>4 DEF SettlingInv, CopyOK
    <3>4. RestOK'
      BY <2>1, <3>3 DEF RestOK, Pending, InfdVars
    <3> QED BY <2>2, <3>2, <3>4 DEF SettlingInv
  <2> QED BY <2>3, <2>4
<1> QED BY <1>3, <1>4, <1>5, <1>6 DEF Delivery

LEMMA FailuresSettle == ASSUME IInv, SettlingInv, CallFails \/ Crash PROVE SettlingInv'
<1>1. CASE CallFails
  <2>1. CopyOK' /\ NewsOK' /\ queued' /\ rec' = Idle
    BY <1>1 DEF CallFails, ReturnError, Return, SettlingInv, InfdVars, ObjVars, CopyOK, NewsOK, Wakes
  <2> QED BY <2>1, WhenQueued
<1>2. CASE Crash
  <2>1. queued' /\ rec' = Idle /\ infdC' = infd' /\ objC' = obj' /\ news' = [k \in Kinds |-> "none"]
    BY <1>2 DEF Crash
  <2>2. CopyOK' /\ NewsOK'
    BY <2>1 DEF CopyOK, NewsOK
  <2> QED BY <2>1, <2>2, WhenQueued
<1> QED BY <1>1, <1>2

LEMMA OutdateSettles ==
    ASSUME IInv, SettlingInv, Outdate, NEW v, WriteInfd(v) PROVE SettlingInv'
<1>1. UNCHANGED <<ObjVars, PolicyVars, queued, retry>> /\ infdF' = FALSE /\ infdC' = infdC
  BY DEF Outdate, WriteInfd
<1>2. rec \in Reconciles /\ rec' = [rec EXCEPT !.ok = FALSE]
  BY TypeParts DEF IInv, RestTypes, Outdate
<1>3. /\ rec'.at = rec.at /\ rec'.copy = rec.copy /\ rec'.queue = rec.queue
      /\ rec'.status = rec.status /\ ~rec'.ok
  BY <1>2 DEF Reconciles
<1>4. rec = Idle => rec' = Idle
  <2>1. ASSUME rec = Idle PROVE rec.ok = FALSE
    BY <2>1 DEF Idle
  <2> QED BY <1>2, <2>1 DEF Reconciles
<1>5. CopyOK' /\ NewsOK' /\ RestOK'
  BY <1>1 DEF SettlingInv, ObjVars, CopyOK, NewsOK, Wakes, RestOK, Pending
<1>6. HeldOK' /\ LabelOK'
  BY <1>1, <1>3, <1>4 DEF SettlingInv, HeldOK, LabelOK, servingQueue, PolicyVars
<1>7. DepStepOK' /\ SvcStepOK'
  BY <1>1, <1>3 DEF SettlingInv, DepStepOK, SvcStepOK, Coming, DepIs, SvcIs, Own, Dep, servingQueue,
     ObjVars, PolicyVars
<1> QED BY <1>5, <1>6, <1>7 DEF SettlingInv

LEMMA RolloutSettles == ASSUME IInv, SettlingInv, Rollout PROVE SettlingInv'
<1>1. CASE StartPod \/ StopPod \/ PodReady \/ PodLapses
  <2>1. UNCHANGED Seen
    BY <1>1 DEF StartPod, StopPod, PodReady, PodLapses, OnlyPods, InfdVars, PolicyVars, Seen
  <2> QED BY <2>1, NothingMoves
<1>2. ASSUME NEW s, Report(s) PROVE SettlingInv'
  BY <1>2, ObjectMoves, BlanksAre DEF Report
<1> QED BY <1>1, <1>2 DEF Rollout, ReportStatus, DeadlinePasses

LEMMA EnvironmentSettles == ASSUME IInv, SettlingInv, Environment PROVE SettlingInv'
<1>1. ASSUME NEW v, WriteInfd(v), Outdate PROVE SettlingInv'
  BY <1>1, OutdateSettles
<1>2. ASSUME NEW k \in Kinds, NEW v, Write(k, v), OnlyObjects PROVE SettlingInv'
  BY <1>2, ObjectMoves DEF Write, OnlyObjects
<1>3. CASE DeleteInfd \/ \E s \in Specs : EditSpec(s) \/ RecreateInfd(s)
  BY <1>1, <1>3 DEF DeleteInfd, EditSpec, RecreateInfd
<1>4. ASSUME NEW p \in Policies, NEW q \in Queues, EditPolicy(p, q) PROVE SettlingInv'
  <2>1. UNCHANGED Seen
    BY <1>4 DEF EditPolicy, InfdVars, ObjVars, Seen
  <2> QED BY <2>1, NothingMoves
<1>5. ASSUME NEW k \in Kinds, CreateForeign(k) \/ RemoveObject(k) \/ CollectGarbage(k) PROVE SettlingInv'
  BY <1>2, <1>5 DEF CreateForeign, RemoveObject, CollectGarbage
<1>6. ASSUME NEW n \in Replicas, ScaleDeployment(n) PROVE SettlingInv'
  BY <1>2, <1>6, BlanksAre DEF ScaleDeployment
<1> QED BY <1>3, <1>4, <1>5, <1>6 DEF Environment

LEMMA SettlingHolds == Spec => []SettlingInv
<1>1. Init => SettlingInv
  <2> SUFFICES ASSUME Init PROVE SettlingInv
    OBVIOUS
  <2>1. rec = Idle /\ rec.at = "idle" /\ queued /\ infdC = infd /\ objC = obj
    BY BlanksAre DEF Init
  <2>2. news = [k \in Kinds |-> "none"]
    BY DEF Init
  <2>3. CopyOK /\ NewsOK
    BY <2>1, <2>2 DEF CopyOK, NewsOK
  <2>4. HeldOK /\ LabelOK /\ DepStepOK /\ SvcStepOK /\ RestOK
    BY <2>1, BlanksAre DEF HeldOK, LabelOK, DepStepOK, SvcStepOK, RestOK, Pending, Coming, Synced
  <2> QED BY <2>3, <2>4 DEF SettlingInv
<1>2. IInv /\ SettlingInv /\ [Next]_vars => SettlingInv'
  <2> SUFFICES ASSUME IInv, SettlingInv, [Next]_vars PROVE SettlingInv'
    OBVIOUS
  <2>1. CASE UNCHANGED vars
    BY <2>1, NothingMoves DEF vars, Seen
  <2>2. CASE Reconcile
    BY <2>2, BeginSettles, SyncDeploymentSettles, CheckServiceSettles, SyncServiceSettles,
       WriteStatusSettles DEF Reconcile
  <2> QED BY <2>1, <2>2, DeliverySettles, FailuresSettle, RolloutSettles, EnvironmentSettles DEF Next
<1> QED BY <1>1, <1>2, Inductive, PTL DEF Spec

-----------------------------------------------------------------------------
(* Every variable keeps its type: of the InferenceDeployment and its       *)
(* copies, the objects made of it, the pods' counts and the reconcile.     *)
THEOREM TypeCorrect == Spec => []TypeOK
<1>1. IInv => TypeOK
  BY DEF IInv
<1> QED BY <1>1, Inductive, PTL

(* The stale gate of computeInfDPhase suffices, whatever the cached copies *)
(* lag: Ready for a spec that asks for replicas means that the Deployment  *)
(* reported pods that had converged on that very spec.                     *)
THEOREM ReadyIsServed == Spec => []ReadyWasServed
<1>1. IInv => ReadyWasServed
  BY DEF IInv, InfdOK, Deserved, ReadyWasServed
<1> QED BY <1>1, Inductive, PTL

(* The watches of SetupWithManager and markDegraded's requeue suffice,     *)
(* however often anything is edited, removed, taken, failed or restarted:  *)
(* when nothing is queued, pending or undelivered, Deployment and Service  *)
(* are the object's own and follow its spec, the queue label is one that a *)
(* policy grants, and the status is what the Deployment calls for.         *)
THEOREM SettledStatusIsRight == Spec => []SettledIsRight
<1>1. SettlingInv => SettledIsRight
  <2> SUFFICES ASSUME SettlingInv, Quiet, infd # None
               PROVE  /\ \A k \in Kinds : obj[k] # None /\ obj[k].owner = infd.uid
                      /\ Dep.content.replicas = infd.spec.replicas
                      /\ \A k \in Kinds : obj[k].content.version = infd.spec.version
                      /\ Dep.content.queue \in Granted
                      /\ infd.status = StatusOf(infd.spec, Dep.status)
    BY DEF SettledIsRight
  <2>1. ~Pending
    BY DEF Quiet, Pending, Coming
  <2>2. Right
    BY <2>1 DEF SettlingInv, RestOK, Quiet
  <2>3. servingQueue = Granted
    BY DEF Quiet, servingQueue, Granted
  <2> QED BY <2>2, <2>3 DEF Right, DepIs, SvcIs, Own, Dep, Kinds
<1> QED BY <1>1, SettlingHolds, PTL
=============================================================================
