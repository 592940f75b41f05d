------------------------- MODULE MLTrainingJobProofs -------------------------
(***************************************************************************)
(* Proofs about MLTrainingJob for any budget of admissions, failures,      *)
(* edits, foreign Jobs, incarnations and restarts: no wake-up is lost, and *)
(* the series agrees with the record.                                      *)
(***************************************************************************)
EXTENDS MLTrainingJob, TLAPS

CopyOf(T) == [o : T, fresh : BOOLEAN]

ObjTypes == obj \in Object /\ objC \in CopyOf(Object)
JobTypes == job \in Job /\ jobC \in CopyOf(Job)
WlTypes == wl \in Workload /\ wlC \in Workload
RunTypes == /\ queued \in BOOLEAN /\ pc \in {"idle", "sync", "status"}
            /\ held \in CopyOf(Object) /\ heldJob \in Job
CountTypes == metrics \in Metrics /\ world \in WorldType /\ budget \in Budget

(* A copy called fresh is the server's object.                             *)
CopiesOK == (objC.fresh => objC.o = obj) /\ (jobC.fresh => jobC.o = job)

(* Only a finalizer keeps a deleted object.                                *)
FinalizerOK == obj.deleting => obj.finalizer

(* A Job whose events wake us, and the Job that is ours.                   *)
Ours(j) == j.exists /\ j.owner \in {"self", "old"}
Controlled == job.exists /\ job.owner = "self"

(* An undelivered event of the Job that is going to wake us.               *)
News == ~jobC.fresh /\ (Ours(jobC.o) \/ Controlled)

(* The copy in hand is the object, or another reconcile is to come.        *)
HeldOK == pc # "idle" =>
    /\ held.o.exists /\ ~held.o.deleting
    /\ IF held.fresh THEN held.o = obj ELSE queued \/ ~objC.fresh

(* The Job in hand shows what the Job shows, or an event is to come.       *)
SyncedOK == pc = "status" /\ ~queued =>
    \/ News
    \/ jobC.fresh /\ Controlled /\ heldJob.done = job.done /\ heldJob.active = job.active

(* At rest the status shows the Job, or an event is to come.               *)
Shows == \/ News
         \/ jobC.fresh /\ Controlled /\ obj.status.phase = computeMLTJPhase(job, wlC)
RestOK == pc = "idle" /\ ~queued /\ objC.fresh /\ obj.exists => ~obj.deleting /\ Shows

IInv == /\ TypeOK /\ CopiesOK /\ FinalizerOK /\ HeldOK /\ SyncedOK /\ RestOK
        /\ SeriesHasRecord

LEMMA Parts ==
    ASSUME IInv
    PROVE  /\ ObjTypes /\ JobTypes /\ WlTypes /\ RunTypes /\ CountTypes
           /\ CopiesOK /\ FinalizerOK /\ HeldOK /\ SyncedOK /\ RestOK /\ SeriesHasRecord
BY DEF IInv, TypeOK, ObjTypes, JobTypes, WlTypes, RunTypes, CountTypes, CopyOf

LEMMA Shown ==
    ASSUME ObjTypes', JobTypes', WlTypes', RunTypes', CountTypes',
           CopiesOK', FinalizerOK', HeldOK', SyncedOK', RestOK', SeriesHasRecord'
    PROVE  IInv'
<1>1. TypeOK'
  BY DEF TypeOK, ObjTypes, JobTypes, WlTypes, RunTypes, CountTypes, CopyOf
<1> QED BY <1>1 DEF IInv

-----------------------------------------------------------------------------
(* Copies and blank objects.                                               *)

LEMMA CachedIs ==
    ASSUME NEW T, NEW x \in T, NEW c, c = Cached(x)
    PROVE  c \in CopyOf(T) /\ c.o = x /\ c.fresh
<1>1. PICK t \in BOOLEAN : t = TRUE
  OBVIOUS
<1>2. c = [o |-> x, fresh |-> t]
  BY <1>1 DEF Cached
<1> QED BY <1>1, <1>2 DEF CopyOf

LEMMA StaleIs ==
    ASSUME NEW T, NEW d \in CopyOf(T), NEW c, c = Stale(d)
    PROVE  c \in CopyOf(T) /\ c.o = d.o /\ ~c.fresh
<1>1. PICK t \in BOOLEAN : t = FALSE
  OBVIOUS
<1>2. c = [d EXCEPT !.fresh = t]
  BY <1>1 DEF Stale
<1> QED BY <1>1, <1>2 DEF CopyOf

LEMMA BlankObjects ==
    /\ NoObject \in Object /\ ~NoObject.exists /\ ~NoObject.deleting
    /\ NewObject \in Object /\ NewObject.exists /\ ~NewObject.deleting
<1>1. PICK z \in Nat : z = 0
  OBVIOUS
<1>2. PICK one \in Nat \ {0} : one = 1
  OBVIOUS
<1>3. PICK t \in BOOLEAN : t = TRUE
  OBVIOUS
<1>4. PICK b \in BOOLEAN : b = FALSE
  OBVIOUS
<1>5. Unset \in Phases /\ Unset \in WindowConditions
  BY DEF Phases, WindowConditions
<1>6. PICK s : s = EmptyStatus
  OBVIOUS
<1>7. s = [phase |-> Unset, admittedCond |-> Unset, synced |-> t, observedGeneration |-> z,
           admittedAt |-> z, running |-> b, window |-> Unset]
  BY <1>1, <1>3, <1>4, <1>6 DEF EmptyStatus
<1>8. s \in Status
  BY <1>5, <1>7 DEF Status
<1>9. PICK n : n = [exists |-> b, deleting |-> b, finalizer |-> b, generation |-> one, status |-> s]
  OBVIOUS
<1>10. n \in Object /\ ~n.exists /\ ~n.deleting
  BY <1>4, <1>8, <1>9 DEF Object
<1>11. NoObject = n
  BY <1>2, <1>4, <1>6, <1>9 DEF NoObject
<1>12. PICK m : m = [n EXCEPT !.exists = t]
  OBVIOUS
<1>13. m \in Object /\ m.exists /\ ~m.deleting
  BY <1>3, <1>10, <1>12 DEF Object
<1>14. NewObject = m
  BY <1>3, <1>11, <1>12 DEF NewObject
<1> QED BY <1>10, <1>11, <1>13, <1>14

LEMMA JobIs ==
    ASSUME NEW e \in BOOLEAN, NEW w \in Owners, NEW s \in BOOLEAN, NEW a \in BOOLEAN,
           NEW g \in Nat, NEW j,
           j = [exists |-> e, owner |-> w, suspend |-> s, active |-> a, done |-> Unset,
                generation |-> g]
    PROVE  /\ j \in Job /\ (j.exists <=> e) /\ j.owner = w /\ (j.suspend <=> s)
           /\ (j.active <=> a) /\ j.done = Unset
BY DEF Job

LEMMA BlankJobs ==
    /\ NoJob \in Job /\ ~NoJob.exists /\ NoJob.done = Unset /\ ~NoJob.active
    /\ NoWorkload \in Workload
    /\ NoMetrics \in Metrics /\ NoMetrics.observed = 0
<1>1. PICK b \in BOOLEAN : b = FALSE
  OBVIOUS
<1>2. PICK z \in Nat : z = 0
  OBVIOUS
<1>3. PICK w \in Owners : w = "none"
  BY DEF Owners
<1>4. PICK j : j = [exists |-> b, owner |-> w, suspend |-> b, active |-> b, done |-> Unset,
                    generation |-> z]
  OBVIOUS
<1>5. j \in Job /\ ~j.exists /\ j.done = Unset /\ ~j.active
  BY <1>1, <1>4, JobIs
<1>6. NoJob = j
  BY <1>1, <1>2, <1>3, <1>4 DEF NoJob
<1>7. NoWorkload \in Workload
  <2>1. NoWorkload = [exists |-> b, admitted |-> b, stamp |-> z]
    BY <1>1, <1>2 DEF NoWorkload
  <2> QED BY <2>1 DEF Workload
<1>8. NoMetrics \in Metrics /\ NoMetrics.observed = 0
  <2>1. NoMetrics = [observed |-> z, unobserved |-> z, failed |-> z]
    BY <1>2 DEF NoMetrics
  <2> QED BY <1>2, <2>1 DEF Metrics
<1> QED BY <1>5, <1>6, <1>7, <1>8

-----------------------------------------------------------------------------
(* The decisions of the reconciler.                                        *)

LEMMA PhaseIs ==
    ASSUME NEW j \in Job, NEW w \in Workload
    PROVE  /\ computeMLTJPhase(j, w) \in Phases
           /\ \A k : k.done = j.done /\ k.active = j.active
                => computeMLTJPhase(k, w) = computeMLTJPhase(j, w)
<1>1. computeMLTJPhase(j, w) \in Phases
  BY DEF computeMLTJPhase, Phases, Job
<1>2. ASSUME NEW k, k.done = j.done, k.active = j.active
      PROVE  computeMLTJPhase(k, w) = computeMLTJPhase(j, w)
  BY <1>2 DEF computeMLTJPhase
<1> QED BY <1>1, <1>2

LEMMA NewJobIs ==
    ASSUME NEW o \in Object, NEW j, j = NewJob(o)
    PROVE  j \in Job /\ j.exists /\ j.owner = "self"
<1>1. PICK t \in BOOLEAN : t = TRUE
  OBVIOUS
<1>2. PICK b \in BOOLEAN : b = FALSE
  OBVIOUS
<1>3. PICK w \in Owners : w = "self"
  BY DEF Owners
<1>4. o.generation \in Nat
  BY DEF Object
<1>5. j = [exists |-> t, owner |-> w, suspend |-> t, active |-> b, done |-> Unset,
           generation |-> o.generation]
  BY <1>1, <1>2, <1>3 DEF NewJob
<1> QED BY <1>1, <1>3, <1>4, <1>5 DEF Job

LEMMA SyncedJobIs ==
    ASSUME NEW o \in Object, NEW j \in Job, NEW s, s = SyncedJob(j, o)
    PROVE  /\ s \in Job /\ s.owner = "self" /\ (s.exists <=> j.exists)
           /\ s.suspend = j.suspend /\ s.done = j.done /\ s.active = j.active
<1>1. PICK w \in Owners : w = "self"
  BY DEF Owners
<1>2. o.generation \in Nat
  BY DEF Object
<1>3. s = [j EXCEPT !.owner = w, !.generation = o.generation]
  BY <1>1 DEF SyncedJob
<1> QED BY <1>1, <1>2, <1>3 DEF Job

LEMMA OutcomeIs ==
    ASSUME NEW s, NEW o, NEW r, r = Outcome(s, o) PROVE r.status = s /\ r.outcome = o
BY DEF Outcome

(* What the two ends of the window make of a status.                       *)
Recorded(s, r) ==
    /\ r.status \in Status /\ r.outcome \in WindowConditions
    /\ r.status.phase = s.phase
    /\ s.running => r.status.running
    /\ s.admittedAt # 0 => r.status.admittedAt = s.admittedAt
    /\ r.outcome = "Observed" => ~s.running /\ r.status.running

LEMMA UnsetIs == Unset \in Phases /\ Unset \in WindowConditions /\ Unset # "Observed"
<1>1. Unset # "Observed"
  BY DEF Unset
<1> QED BY <1>1 DEF Phases, WindowConditions

LEMMA UnobservedIs ==
    ASSUME NEW s \in Status, NEW x \in Refusals, NEW r, r = setUnobserved(s, x)
    PROVE  Recorded(s, r)
<1>1. PICK v : v = [s EXCEPT !.window = x]
  OBVIOUS
<1>2. x \in WindowConditions /\ x # "Observed"
  BY DEF WindowConditions, Refusals
<1>3. /\ v \in Status /\ v.phase = s.phase /\ v.running = s.running
      /\ v.admittedAt = s.admittedAt
  BY <1>1, <1>2 DEF Status
<1>4. r.status = v /\ r.outcome = x
  BY <1>1, OutcomeIs DEF setUnobserved
<1> QED BY <1>2, <1>3, <1>4 DEF Recorded

LEMMA NothingRecorded ==
    ASSUME NEW s \in Status, NEW r, r = Outcome(s, Unset) PROVE Recorded(s, r)
<1>1. r.status = s /\ r.outcome = Unset
  BY OutcomeIs
<1> QED BY <1>1, UnsetIs DEF Recorded

LEMMA RecordIs ==
    ASSUME NEW s \in Status, NEW prev, NEW next, NEW stamp \in Nat, NEW negative \in BOOLEAN,
           NEW r, r = recordAdmitToRunning(s, prev, next, stamp, negative)
    PROVE  Recorded(s, r)
<1>1. "KueueStampMissing" \in Refusals /\ "AdmissionNotObserved" \in Refusals
      /\ "NegativeInterval" \in Refusals
  BY DEF Refusals
<1>2. CASE r = RecordAdmitted(s, stamp)
  <2>1. PICK v : v = [s EXCEPT !.admittedAt = stamp]
    OBVIOUS
  <2>2. /\ v \in Status /\ v.phase = s.phase /\ v.running = s.running
    BY <2>1 DEF Status
  <2>3. CASE s.admittedAt = 0 /\ r = Outcome(v, Unset)
    <3>1. r.status = v /\ r.outcome = Unset
      BY <2>3, OutcomeIs
    <3> QED BY <2>2, <2>3, <3>1, UnsetIs DEF Recorded
  <2>4. \/ r = Outcome(s, Unset) \/ r = setUnobserved(s, "KueueStampMissing")
        \/ s.admittedAt = 0 /\ r = Outcome(v, Unset)
    BY <1>2, <2>1 DEF RecordAdmitted
  <2> QED BY <1>1, <2>3, <2>4, UnobservedIs, NothingRecorded
<1>3. CASE r = RecordRunning(s, negative)
  <2>1. PICK t \in BOOLEAN : t = TRUE
    OBVIOUS
  <2>2. PICK w \in WindowConditions : w = "Observed"
    BY DEF WindowConditions
  <2>3. PICK v : v = [s EXCEPT !.running = t, !.window = w]
    OBVIOUS
  <2>4. /\ v \in Status /\ v.phase = s.phase /\ v.running /\ v.admittedAt = s.admittedAt
    BY <2>1, <2>3 DEF Status
  <2>5. CASE ~s.running /\ r = Outcome(v, "Observed")
    <3>1. r.status = v /\ r.outcome = "Observed"
      BY <2>5, OutcomeIs
    <3> QED BY <2>2, <2>4, <2>5, <3>1 DEF Recorded
  <2>6. \/ r = Outcome(s, Unset) \/ r = setUnobserved(s, "AdmissionNotObserved")
        \/ r = setUnobserved(s, "NegativeInterval")
        \/ ~s.running /\ r = Outcome(v, "Observed")
    BY <1>3, <2>1, <2>2, <2>3 DEF RecordRunning
  <2> QED BY <1>1, <2>5, <2>6, UnobservedIs, NothingRecorded
<1> QED BY <1>2, <1>3, NothingRecorded DEF recordAdmitToRunning

-----------------------------------------------------------------------------
(* Steps of the environment.                                               *)

(* A write of the Job by somebody else: ours stays ours.                   *)
LEMMA JobWritten ==
    ASSUME IInv, NEW j \in Job, JobWith(j), Controlled => j.exists /\ j.owner = "self",
           WlTypes', world' \in WorldType, budget' \in Budget
    PROVE  IInv'
<1>1. /\ ObjTypes /\ JobTypes /\ RunTypes /\ CountTypes
      /\ CopiesOK /\ FinalizerOK /\ HeldOK /\ SyncedOK /\ RestOK /\ SeriesHasRecord
  BY Parts
<1>2. /\ job' = j /\ jobC' = Stale(jobC) /\ UNCHANGED <<obj, objC>>
      /\ UNCHANGED <<queued, pc, held, heldJob, metrics>>
  BY DEF JobWith, WriteJob, RunVars
<1>3. jobC' \in CopyOf(Job) /\ jobC'.o = jobC.o /\ ~jobC'.fresh
  BY <1>1, <1>2, StaleIs DEF JobTypes
<1>4. ObjTypes' /\ JobTypes' /\ RunTypes' /\ CountTypes'
  BY <1>1, <1>2, <1>3 DEF ObjTypes, JobTypes, RunTypes, CountTypes
<1>5. CopiesOK' /\ FinalizerOK' /\ HeldOK' /\ SeriesHasRecord'
  BY <1>1, <1>2, <1>3 DEF CopiesOK, FinalizerOK, HeldOK, SeriesHasRecord
<1>6. Ours(jobC.o) \/ Controlled => News'
  BY <1>2, <1>3 DEF News, Controlled, Ours
<1>7. SyncedOK' /\ RestOK'
  BY <1>1, <1>2, <1>6 DEF SyncedOK, RestOK, Shows, News
<1> QED BY <1>4, <1>5, <1>7, Shown

LEMMA WorkloadWritten ==
    ASSUME IInv, NEW w \in Workload, WlWith(w), world' \in WorldType, budget' = budget
    PROVE  IInv'
<1>1. /\ ObjTypes /\ JobTypes /\ WlTypes /\ RunTypes /\ CountTypes
      /\ CopiesOK /\ FinalizerOK /\ HeldOK /\ SyncedOK /\ RestOK /\ SeriesHasRecord
  BY Parts
<1>2. /\ wl' = w /\ UNCHANGED <<obj, objC, job, jobC, wlC>>
      /\ UNCHANGED <<queued, pc, held, heldJob, metrics>>
  BY DEF WlWith, RunVars
<1>3. ObjTypes' /\ JobTypes' /\ WlTypes' /\ RunTypes' /\ CountTypes'
  BY <1>1, <1>2 DEF ObjTypes, JobTypes, WlTypes, RunTypes, CountTypes
<1>4. CopiesOK' /\ FinalizerOK' /\ HeldOK' /\ SeriesHasRecord'
  BY <1>1, <1>2 DEF CopiesOK, FinalizerOK, HeldOK, SeriesHasRecord
<1>5. SyncedOK' /\ RestOK'
  BY <1>1, <1>2 DEF SyncedOK, RestOK, Shows, News, Ours, Controlled
<1> QED BY <1>3, <1>4, <1>5, Shown

LEMMA BudgetIs ==
    ASSUME NEW b \in Budget
    PROVE  /\ b.admissions \in Nat /\ b.restarts \in Nat /\ b.edits \in Nat
           /\ b.foreign \in Nat /\ b.incarnations \in Nat /\ b.crashes \in Nat
           /\ b.skewed \in BOOLEAN /\ b.missing \in BOOLEAN
           /\ \A n \in Nat : /\ [b EXCEPT !.restarts = n] \in Budget
                            /\ [b EXCEPT !.edits = n] \in Budget
                            /\ [b EXCEPT !.foreign = n] \in Budget
                            /\ [b EXCEPT !.incarnations = n] \in Budget
                            /\ [b EXCEPT !.crashes = n] \in Budget
BY DEF Budget

LEMMA WorldIs ==
    ASSUME NEW w \in WorldType
    PROVE  /\ w.admissions \in Nat /\ w.refused \in SUBSET Nat
           /\ w.faults \in SUBSET {"requeued", "refused"} /\ w.enteredFailed \in Nat
           /\ \A n \in Nat : /\ [w EXCEPT !.admissions = n] \in WorldType
                            /\ [w EXCEPT !.enteredFailed = n] \in WorldType
           /\ \A b \in BOOLEAN : [w EXCEPT !.adopted = b] \in WorldType
           /\ \A r \in SUBSET Nat, f \in SUBSET {"requeued", "refused"} :
                 [w EXCEPT !.refused = r, !.faults = f] \in WorldType
BY DEF WorldType

LEMMA KueueKeeps == ASSUME IInv, Kueue PROVE IInv'
<1>1. /\ job \in Job /\ wl \in Workload /\ wlC \in Workload /\ world \in WorldType /\ budget \in Budget
  BY Parts DEF JobTypes, WlTypes, CountTypes
<1>2. PICK t \in BOOLEAN : t = TRUE
  OBVIOUS
<1>3. PICK b \in BOOLEAN : b = FALSE
  OBVIOUS
<1>4. PICK z \in Nat : z = 0
  OBVIOUS
<1>5. CASE KueueCreate
  <2>1. PICK w : w = [NoWorkload EXCEPT !.exists = t]
    OBVIOUS
  <2>2. w \in Workload
    BY <2>1, BlankJobs DEF Workload
  <2>3. WlWith(w) /\ UNCHANGED <<world, budget>>
    BY <1>2, <1>5, <2>1 DEF KueueCreate
  <2> QED BY <1>1, <2>2, <2>3, WorkloadWritten
<1>6. CASE KueueAdmit
  <2>1. PICK stamp \in Nat :
          WlWith([exists |-> TRUE, admitted |-> TRUE, stamp |-> stamp])
    <3>1. PICK missing : WlWith([exists |-> TRUE, admitted |-> TRUE,
                                 stamp |-> IF missing THEN 0 ELSE world.admissions + 1])
      BY <1>6 DEF KueueAdmit
    <3>2. PICK stamp : stamp = IF missing THEN 0 ELSE world.admissions + 1
      OBVIOUS
    <3>3. stamp \in Nat
      BY <1>1, <3>2 DEF WorldType
    <3> QED BY <3>1, <3>2, <3>3
  <2>2. PICK w : w = [exists |-> t, admitted |-> t, stamp |-> stamp]
    OBVIOUS
  <2>3. w \in Workload
    BY <2>2 DEF Workload
  <2>4. WlWith(w)
    BY <1>2, <2>1, <2>2
  <2>5. PICK n \in Nat : n = world.admissions + 1
    BY <1>1 DEF WorldType
  <2>6. world' = [world EXCEPT !.admissions = n] /\ budget' = budget
    BY <1>6, <2>5 DEF KueueAdmit
  <2>7. world' \in WorldType
    BY <1>1, <2>6, WorldIs
  <2> QED BY <2>3, <2>4, <2>6, <2>7, WorkloadWritten
<1>7. CASE KueueEvict
  <2>1. PICK w : w = [wl EXCEPT !.admitted = b, !.stamp = z]
    OBVIOUS
  <2>2. w \in Workload
    BY <1>1, <2>1 DEF Workload
  <2>3. WlWith(w) /\ UNCHANGED <<world, budget>>
    BY <1>3, <1>4, <1>7, <2>1 DEF KueueEvict
  <2> QED BY <1>1, <2>2, <2>3, WorkloadWritten
<1>8. CASE KueueUnsuspend
  <2>1. PICK j : j = [job EXCEPT !.suspend = b]
    OBVIOUS
  <2>2. j \in Job /\ j.exists = job.exists /\ j.owner = job.owner
    BY <1>1, <2>1 DEF Job
  <2>3. JobWith(j) /\ UNCHANGED <<wl, wlC, world, budget>>
    BY <1>3, <1>8, <2>1 DEF KueueUnsuspend
  <2> QED BY <1>1, <2>2, <2>3, JobWritten DEF Controlled, WlTypes
<1>9. CASE KueueSuspend
  <2>1. PICK j : j = [job EXCEPT !.suspend = t, !.active = b]
    OBVIOUS
  <2>2. j \in Job /\ j.exists = job.exists /\ j.owner = job.owner
    BY <1>1, <2>1 DEF Job
  <2>3. JobWith(j) /\ UNCHANGED <<wl, wlC, world, budget>>
    BY <1>2, <1>3, <1>9, <2>1 DEF KueueSuspend
  <2> QED BY <1>1, <2>2, <2>3, JobWritten DEF Controlled, WlTypes
<1>10. CASE PodsStart
  <2>1. PICK j : j = [job EXCEPT !.active = t]
    OBVIOUS
  <2>2. j \in Job /\ j.exists = job.exists /\ j.owner = job.owner
    BY <1>1, <2>1 DEF Job
  <2>3. JobWith(j) /\ UNCHANGED <<wl, wlC, world, budget>>
    BY <1>2, <1>10, <2>1 DEF PodsStart
  <2> QED BY <1>1, <2>2, <2>3, JobWritten DEF Controlled, WlTypes
<1>11. CASE PodsFail
  <2>1. PICK j : j = [job EXCEPT !.active = b]
    OBVIOUS
  <2>2. j \in Job /\ j.exists = job.exists /\ j.owner = job.owner
    BY <1>1, <2>1 DEF Job
  <2>3. PICK n \in Nat : n = budget.restarts - 1
    BY <1>1, <1>11, BudgetIs DEF PodsFail
  <2>4. JobWith(j) /\ UNCHANGED <<wl, wlC, world>> /\ budget' = [budget EXCEPT !.restarts = n]
    BY <1>3, <1>11, <2>1, <2>3 DEF PodsFail
  <2>5. budget' \in Budget
    BY <1>1, <2>4, BudgetIs
  <2> QED BY <1>1, <2>2, <2>4, <2>5, JobWritten DEF Controlled, WlTypes
<1>12. CASE JobEnds
  <2>1. PICK d \in {"Failed", "Complete"} : JobWith([job EXCEPT !.active = FALSE, !.done = d])
    BY <1>12 DEF JobEnds
  <2>2. PICK j : j = [job EXCEPT !.active = b, !.done = d]
    OBVIOUS
  <2>3. j \in Job /\ j.exists = job.exists /\ j.owner = job.owner
    BY <1>1, <2>2 DEF Job
  <2>4. JobWith(j) /\ UNCHANGED <<wl, wlC, world, budget>>
    BY <1>3, <1>12, <2>1, <2>2 DEF JobEnds
  <2> QED BY <1>1, <2>3, <2>4, JobWritten DEF Controlled, WlTypes
<1> QED BY <1>5, <1>6, <1>7, <1>8, <1>9, <1>10, <1>11, <1>12 DEF Kueue

(* A write of the object by a user: the cache and the copy in hand are     *)
(* behind.                                                                 *)
LEMMA ObjectWritten ==
    ASSUME IInv, NEW o \in Object, o.deleting => o.finalizer, WriteObject(o),
           UNCHANGED <<job, jobC, wl, wlC, queued, pc, heldJob>>,
           held' = Stale(held) \/ (held' = held /\ ~obj.exists),
           CountTypes', SeriesHasRecord'
    PROVE  IInv'
<1>1. /\ ObjTypes /\ JobTypes /\ WlTypes /\ RunTypes
      /\ CopiesOK /\ HeldOK /\ SyncedOK
  BY Parts
<1>2. obj' = o /\ objC' = Stale(objC)
  BY DEF WriteObject
<1>3. objC' \in CopyOf(Object) /\ ~objC'.fresh
  BY <1>1, <1>2, StaleIs DEF ObjTypes
<1>4. held' \in CopyOf(Object) /\ held'.o = held.o /\ (held'.fresh => ~obj.exists /\ held' = held)
  BY <1>1, StaleIs DEF RunTypes
<1>5. ObjTypes' /\ JobTypes' /\ WlTypes' /\ RunTypes'
  BY <1>1, <1>2, <1>3, <1>4 DEF ObjTypes, JobTypes, WlTypes, RunTypes
<1>6. CopiesOK' /\ FinalizerOK'
  BY <1>1, <1>2, <1>3 DEF CopiesOK, FinalizerOK
<1>7. HeldOK'
  BY <1>1, <1>3, <1>4 DEF HeldOK
<1>8. SyncedOK' /\ RestOK'
  BY <1>1, <1>3 DEF SyncedOK, RestOK, News, Ours, Controlled
<1> QED BY <1>5, <1>6, <1>7, <1>8, Shown

LEMMA UsersKeep == ASSUME IInv, Users PROVE IInv'
<1>1. /\ obj \in Object /\ job \in Job /\ CountTypes /\ WlTypes /\ FinalizerOK /\ SeriesHasRecord
  BY Parts DEF ObjTypes, JobTypes
<1>2. world \in WorldType /\ budget \in Budget /\ metrics \in Metrics
  BY <1>1 DEF CountTypes
<1>3. CASE EditSpec
  <2>1. PICK g \in Nat \ {0} : g = obj.generation + 1
    BY <1>1 DEF Object
  <2>2. PICK o : o = [obj EXCEPT !.generation = g]
    OBVIOUS
  <2>3. /\ o \in Object /\ o.deleting = obj.deleting /\ o.finalizer = obj.finalizer
        /\ o.exists = obj.exists /\ o.status = obj.status
    BY <1>1, <2>1, <2>2 DEF Object
  <2>4. PICK n \in Nat : n = budget.edits - 1
    BY <1>2, <1>3, BudgetIs DEF EditSpec
  <2>5. /\ WriteObject(o) /\ held' = Stale(held) /\ budget' = [budget EXCEPT !.edits = n]
        /\ UNCHANGED <<job, jobC, wl, wlC, queued, pc, heldJob, metrics, world>>
    BY <1>3, <2>1, <2>2, <2>4 DEF EditSpec
  <2>6. CountTypes'
    BY <1>2, <2>5, BudgetIs DEF CountTypes
  <2>7. SeriesHasRecord'
    BY <1>1, <2>3, <2>5 DEF SeriesHasRecord, WriteObject
  <2> QED BY <1>1, <2>3, <2>5, <2>6, <2>7, ObjectWritten DEF FinalizerOK
<1>4. CASE DeleteObject
  <2>1. PICK t \in BOOLEAN : t = TRUE
    OBVIOUS
  <2>2. PICK d : d = [obj EXCEPT !.deleting = t]
    OBVIOUS
  <2>3. PICK o : o = IF obj.finalizer THEN d ELSE NoObject
    OBVIOUS
  <2>4. /\ o \in Object /\ (o.deleting => o.finalizer)
        /\ (o.exists => obj.exists /\ o.status = obj.status)
    BY <1>1, <2>2, <2>3, BlankObjects DEF Object
  <2>5. /\ WriteObject(o) /\ held' = Stale(held)
        /\ UNCHANGED <<job, jobC, wl, wlC, queued, pc, heldJob, metrics, world, budget>>
    BY <1>4, <2>1, <2>2, <2>3 DEF DeleteObject
  <2>6. CountTypes' /\ SeriesHasRecord'
    BY <1>1, <2>4, <2>5 DEF CountTypes, SeriesHasRecord, WriteObject
  <2> QED BY <2>4, <2>5, <2>6, ObjectWritten
<1>5. CASE RecreateObject
  <2>1. PICK n \in Nat : n = budget.incarnations - 1
    BY <1>2, <1>5, BudgetIs DEF RecreateObject
  <2>2. /\ WriteObject(NewObject) /\ metrics' = NoMetrics /\ ~obj.exists
        /\ budget' = [budget EXCEPT !.incarnations = n]
        /\ UNCHANGED <<job, jobC, wl, wlC, queued, pc, held, heldJob, world>>
    BY <1>5, <2>1 DEF RecreateObject
  <2>3. CountTypes'
    BY <1>2, <2>2, BudgetIs, BlankJobs DEF CountTypes
  <2>4. SeriesHasRecord'
    <3>1. metrics'.observed = 0
      BY <2>2, BlankJobs
    <3> QED BY <3>1 DEF SeriesHasRecord
  <2> QED BY <2>2, <2>3, <2>4, BlankObjects, ObjectWritten
<1>6. CASE DeleteForeignJob \/ CollectOldJob
  <2>1. RemoveJob /\ ~Controlled
    BY <1>6 DEF DeleteForeignJob, CollectOldJob, Controlled
  <2>2. /\ JobWith(NoJob) /\ wl' = NoWorkload /\ wlC' = NoWorkload
        /\ UNCHANGED <<world, budget>>
    BY <2>1 DEF RemoveJob
  <2>3. WlTypes'
    BY <2>2, BlankJobs DEF WlTypes
  <2> QED BY <1>2, <2>1, <2>2, <2>3, BlankJobs, JobWritten
<1>7. CASE CreateForeignJob
  <2>1. PICK w \in {"none", "other"} : JobWith([NoJob EXCEPT !.exists = TRUE, !.owner = w])
    BY <1>7 DEF CreateForeignJob
  <2>2. PICK t \in BOOLEAN : t = TRUE
    OBVIOUS
  <2>3. PICK j : j = [NoJob EXCEPT !.exists = t, !.owner = w]
    OBVIOUS
  <2>4. j \in Job
    BY <2>3, BlankJobs DEF Job, Owners
  <2>5. PICK n \in Nat : n = budget.foreign - 1
    BY <1>2, <1>7, BudgetIs DEF CreateForeignJob
  <2>6. /\ JobWith(j) /\ budget' = [budget EXCEPT !.foreign = n] /\ ~Controlled
        /\ UNCHANGED <<wl, wlC, world>>
    BY <1>7, <2>1, <2>2, <2>3, <2>5 DEF CreateForeignJob, Controlled
  <2>7. WlTypes' /\ budget' \in Budget
    BY <1>1, <1>2, <2>6, BudgetIs DEF WlTypes
  <2> QED BY <1>2, <2>4, <2>6, <2>7, JobWritten
<1> QED BY <1>3, <1>4, <1>5, <1>6, <1>7 DEF Users

-----------------------------------------------------------------------------
(* Steps of the reconciler.                                                *)

LEMMA Returned ==
    ASSUME IInv, NEW again \in BOOLEAN, Return(again), ObjTypes', JobTypes', WlTypes',
           CountTypes', CopiesOK', FinalizerOK', SeriesHasRecord',
           again \/ RestOK'
    PROVE  IInv'
<1>1. pc' = "idle" /\ queued' = again /\ held' = Cached(NoObject) /\ heldJob' = NoJob
  BY DEF Return
<1>2. RunTypes'
  BY <1>1, BlankObjects, BlankJobs, CachedIs DEF RunTypes
<1>3. HeldOK' /\ SyncedOK' /\ RestOK'
  BY <1>1 DEF HeldOK, SyncedOK, RestOK
<1> QED BY <1>2, <1>3, Shown

LEMMA NothingWritten ==
    ASSUME IInv, UNCHANGED <<obj, objC, job, jobC, wl, wlC, metrics, world, budget>>
    PROVE  /\ ObjTypes' /\ JobTypes' /\ WlTypes' /\ CountTypes'
           /\ CopiesOK' /\ FinalizerOK' /\ SeriesHasRecord'
<1>1. /\ ObjTypes /\ JobTypes /\ WlTypes /\ CountTypes
      /\ CopiesOK /\ FinalizerOK /\ SeriesHasRecord
  BY Parts
<1> QED BY <1>1 DEF ObjTypes, JobTypes, WlTypes, CountTypes, CopiesOK, FinalizerOK, SeriesHasRecord

LEMMA ComesAgain ==
    ASSUME IInv, Requeue, UNCHANGED <<obj, objC, job, jobC, wl, wlC, metrics, world, budget>>
    PROVE  IInv'
<1>1. PICK t \in BOOLEAN : t = TRUE
  OBVIOUS
<1>2. Return(t)
  BY <1>1 DEF Requeue
<1> QED BY <1>1, <1>2, NothingWritten, Returned

(* The finalizer goes, and with it the object: its Job is an orphan.       *)
LEMMA OrphanedIs ==
    ASSUME NEW j \in Job, NEW k, k = Orphaned(j)
    PROVE  k \in Job
<1>1. PICK w \in Owners : w = IF j.owner = "self" THEN "old" ELSE j.owner
  BY DEF Job, Owners
<1>2. k = [j EXCEPT !.owner = w]
  BY <1>1 DEF Orphaned
<1> QED BY <1>2 DEF Job

LEMMA FinalizerGone ==
    ASSUME IInv, pc = "idle", objC.o.exists, objC.o.deleting, RemoveFinalizer(objC.o),
           UNCHANGED <<metrics, world, wl, wlC, budget>>
    PROVE  IInv'
<1>1. /\ ObjTypes /\ JobTypes /\ WlTypes /\ CountTypes /\ CopiesOK /\ FinalizerOK
  BY Parts
<1>2. PICK b \in BOOLEAN : b = FALSE
  OBVIOUS
<1>3. CASE Return(FALSE) /\ ~objC.o.finalizer /\ UNCHANGED <<obj, objC, job, jobC>>
  <2>1. RestOK'
    BY <1>1, <1>3 DEF RestOK, CopiesOK, FinalizerOK
  <2> QED BY <1>2, <1>3, <2>1, NothingWritten, Returned
<1>4. CASE Return(TRUE) /\ UNCHANGED <<obj, objC, job, jobC>>
  BY <1>4, ComesAgain DEF Requeue
<1>5. CASE /\ objC.fresh /\ WriteObject(NoObject) /\ job' = Orphaned(job)
           /\ jobC' = [jobC EXCEPT !.o = Orphaned(@)] /\ Return(FALSE)
  <2>1. obj' = NoObject /\ objC' = Stale(objC)
    BY <1>5 DEF WriteObject
  <2>2. objC' \in CopyOf(Object) /\ ~objC'.fresh
    BY <1>1, <2>1, StaleIs DEF ObjTypes
  <2>3. PICK k : k = Orphaned(jobC.o)
    OBVIOUS
  <2>4. jobC.o \in Job /\ jobC \in CopyOf(Job)
    BY <1>1 DEF JobTypes, CopyOf
  <2>5. k \in Job /\ job' \in Job
    BY <1>1, <1>5, <2>3, <2>4, OrphanedIs DEF JobTypes
  <2>6. jobC' = [jobC EXCEPT !.o = k]
    BY <1>5, <2>3
  <2>7. jobC' \in CopyOf(Job) /\ jobC'.o = k /\ jobC'.fresh = jobC.fresh
    BY <2>4, <2>5, <2>6 DEF CopyOf
  <2>8. ObjTypes' /\ JobTypes' /\ WlTypes' /\ CountTypes'
    BY <1>1, <2>1, <2>2, <2>5, <2>7, BlankObjects DEF ObjTypes, JobTypes, WlTypes, CountTypes
  <2>9. CopiesOK'
    BY <1>1, <1>5, <2>2, <2>3, <2>7 DEF CopiesOK
  <2>10. FinalizerOK' /\ SeriesHasRecord'
    BY <2>1, BlankObjects DEF FinalizerOK, SeriesHasRecord
  <2>11. RestOK'
    BY <2>2 DEF RestOK
  <2> QED BY <1>2, <1>5, <2>8, <2>9, <2>10, <2>11, Returned
<1> QED BY <1>3, <1>4, <1>5 DEF RemoveFinalizer

LEMMA FinalizerAdded ==
    ASSUME IInv, objC.o.exists, ~objC.o.deleting, AddFinalizer(objC.o),
           UNCHANGED <<metrics, world, wl, wlC, budget>>
    PROVE  IInv'
<1>1. /\ ObjTypes /\ JobTypes /\ WlTypes /\ CountTypes /\ CopiesOK /\ SeriesHasRecord
  BY Parts
<1>2. PICK b \in BOOLEAN : b = FALSE
  OBVIOUS
<1>3. PICK t \in BOOLEAN : t = TRUE
  OBVIOUS
<1>4. CASE ~objC.fresh
  <2>1. Return(TRUE) /\ UNCHANGED <<obj, objC, job, jobC>>
    BY <1>4 DEF AddFinalizer
  <2> QED BY <2>1, ComesAgain DEF Requeue
<1>5. CASE objC.fresh
  <2>1. PICK o : o = [objC.o EXCEPT !.finalizer = t]
    OBVIOUS
  <2>2. objC.o \in Object /\ obj = objC.o
    BY <1>1, <1>5 DEF ObjTypes, CopiesOK, CopyOf
  <2>3. /\ o \in Object /\ ~o.deleting /\ o.status = obj.status
    BY <2>1, <2>2 DEF Object
  <2>4. obj' = o /\ objC' = Stale(objC) /\ UNCHANGED <<job, jobC>> /\ Return(b)
    BY <1>2, <1>3, <1>5, <2>1 DEF AddFinalizer, WriteObject
  <2>5. objC' \in CopyOf(Object) /\ ~objC'.fresh
    BY <1>1, <2>4, StaleIs DEF ObjTypes
  <2>6. ObjTypes' /\ JobTypes' /\ WlTypes' /\ CountTypes'
    BY <1>1, <2>3, <2>4, <2>5 DEF ObjTypes, JobTypes, WlTypes, CountTypes
  <2>7. CopiesOK' /\ FinalizerOK' /\ RestOK'
    BY <1>1, <2>3, <2>4, <2>5 DEF CopiesOK, FinalizerOK, RestOK
  <2>8. SeriesHasRecord'
    BY <1>1, <2>2, <2>3, <2>4 DEF SeriesHasRecord
  <2> QED BY <2>4, <2>6, <2>7, <2>8, Returned
<1> QED BY <1>4, <1>5

LEMMA MarkedFailed ==
    ASSUME IInv, objC.o.exists, ~objC.o.deleting, markFailed(objC.o),
           UNCHANGED <<wl, wlC, budget>>
    PROVE  IInv'
<1>1. /\ ObjTypes /\ JobTypes /\ WlTypes /\ CountTypes /\ CopiesOK /\ SeriesHasRecord
  BY Parts
<1>2. Requeue /\ UNCHANGED <<job, jobC>>
  BY DEF markFailed
<1>3. CASE UNCHANGED <<obj, objC, metrics, world>>
  BY <1>2, <1>3, ComesAgain
<1>4. CASE objC.fresh /\ ~UNCHANGED <<obj, objC, metrics, world>>
  <2>1. PICK t \in BOOLEAN : t = TRUE
    OBVIOUS
  <2>2. PICK b \in BOOLEAN : b = FALSE
    OBVIOUS
  <2>3. PICK p \in Phases : p = "Failed"
    BY DEF Phases
  <2>4. PICK v : v = [objC.o.status EXCEPT !.phase = p,
                          !.observedGeneration = objC.o.generation, !.synced = b]
    OBVIOUS
  <2>5. objC.o \in Object /\ obj = objC.o /\ objC.o.status \in Status /\ objC.o.generation \in Nat
    BY <1>1, <1>4 DEF ObjTypes, CopiesOK, CopyOf, Object
  <2>6. v \in Status /\ v.running = obj.status.running
    BY <2>4, <2>5 DEF Status
  <2>7. FailedStatus(objC.o) = v
    BY <2>2, <2>3, <2>4 DEF FailedStatus
  <2>8. PICK o : o = [objC.o EXCEPT !.status = v]
    OBVIOUS
  <2>9. o \in Object /\ ~o.deleting /\ o.exists = obj.exists /\ o.status = v
    BY <2>5, <2>6, <2>8 DEF Object
  <2>10. /\ WriteObject(o)
         /\ metrics' = [metrics EXCEPT !.failed = @ + 1]
         /\ world' = [world EXCEPT !.enteredFailed =
                          @ + (IF objC.o.status.phase = "Failed" THEN 0 ELSE 1)]
    BY <1>4, <2>7, <2>8 DEF markFailed
  <2>11. obj' = o /\ objC' = Stale(objC)
    BY <2>10 DEF WriteObject
  <2>12. objC' \in CopyOf(Object) /\ ~objC'.fresh
    BY <1>1, <2>11, StaleIs DEF ObjTypes
  <2>13. metrics' \in Metrics /\ metrics'.observed = metrics.observed
    BY <1>1, <2>10 DEF CountTypes, Metrics
  <2>14. PICK n : n = world.enteredFailed + (IF objC.o.status.phase = "Failed" THEN 0 ELSE 1)
    OBVIOUS
  <2>15. n \in Nat
    BY <1>1, <2>14 DEF CountTypes, WorldType
  <2>16. world' = [world EXCEPT !.enteredFailed = n]
    BY <2>10, <2>14
  <2>17. world' \in WorldType
    BY <1>1, <2>15, <2>16, WorldIs DEF CountTypes
  <2>18. ObjTypes' /\ JobTypes' /\ WlTypes' /\ CountTypes'
    BY <1>1, <1>2, <2>9, <2>11, <2>12, <2>13, <2>17 DEF ObjTypes, JobTypes, WlTypes, CountTypes
  <2>19. CopiesOK' /\ FinalizerOK'
    BY <1>1, <1>2, <2>9, <2>11, <2>12 DEF CopiesOK, FinalizerOK
  <2>20. SeriesHasRecord'
    BY <1>1, <2>6, <2>9, <2>11, <2>13 DEF SeriesHasRecord
  <2>21. Return(t)
    BY <1>2, <2>1 DEF Requeue
  <2> QED BY <2>1, <2>18, <2>19, <2>20, <2>21, Returned
<1> QED BY <1>3, <1>4 DEF markFailed

LEMMA BeginKeeps == ASSUME IInv, Begin PROVE IInv'
<1>1. /\ ObjTypes /\ JobTypes /\ WlTypes /\ RunTypes /\ CountTypes /\ CopiesOK
  BY Parts
<1>2. pc = "idle" /\ UNCHANGED <<wl, wlC, budget>>
  BY DEF Begin
<1>3. CASE ~objC.o.exists /\ Return(FALSE) /\ UNCHANGED <<obj, objC, job, jobC, metrics, world>>
  <2>1. PICK b \in BOOLEAN : b = FALSE
    OBVIOUS
  <2>2. RestOK'
    BY <1>1, <1>3 DEF RestOK, CopiesOK
  <2> QED BY <1>2, <1>3, <2>1, <2>2, NothingWritten, Returned
<1>4. CASE objC.o.exists /\ objC.o.deleting /\ RemoveFinalizer(objC.o) /\ UNCHANGED <<metrics, world>>
  BY <1>2, <1>4, FinalizerGone
<1>5. CASE objC.o.exists /\ ~objC.o.deleting /\ AddFinalizer(objC.o) /\ UNCHANGED <<metrics, world>>
  BY <1>2, <1>5, FinalizerAdded
<1>6. CASE objC.o.exists /\ ~objC.o.deleting /\ markFailed(objC.o)
  BY <1>2, <1>6, MarkedFailed
<1>7. CASE /\ objC.o.exists /\ ~objC.o.deleting /\ pc' = "sync" /\ queued' = FALSE
           /\ held' = objC /\ heldJob' = NoJob
           /\ UNCHANGED <<obj, objC, job, jobC, metrics, world>>
  <2>1. RunTypes'
    BY <1>1, <1>7, BlankJobs DEF RunTypes, ObjTypes
  <2>2. HeldOK' /\ SyncedOK' /\ RestOK'
    BY <1>1, <1>7 DEF HeldOK, SyncedOK, RestOK, CopiesOK
  <2> QED BY <1>2, <1>7, <2>1, <2>2, NothingWritten, Shown
<1> QED BY <1>3, <1>4, <1>5, <1>6, <1>7 DEF Begin

(* A reconcile that has a Job in hand goes on.                             *)
LEMMA HasJob ==
    ASSUME IInv, pc = "sync", pc' = "status", UNCHANGED <<obj, objC, wl, wlC, metrics, budget>>,
           UNCHANGED <<queued, held>>, world' \in WorldType, JobTypes', heldJob' \in Job,
           jobC'.fresh => jobC'.o = job', SyncedOK'
    PROVE  IInv'
<1>1. /\ ObjTypes /\ WlTypes /\ RunTypes /\ CountTypes
      /\ CopiesOK /\ FinalizerOK /\ HeldOK /\ SeriesHasRecord
  BY Parts
<1>2. ObjTypes' /\ WlTypes' /\ RunTypes' /\ CountTypes'
  BY <1>1 DEF ObjTypes, WlTypes, RunTypes, CountTypes
<1>3. CopiesOK' /\ FinalizerOK' /\ HeldOK' /\ SeriesHasRecord' /\ RestOK'
  BY <1>1 DEF CopiesOK, FinalizerOK, HeldOK, SeriesHasRecord, RestOK
<1> QED BY <1>2, <1>3, Shown

LEMMA SyncJobKeeps == ASSUME IInv, SyncJob PROVE IInv'
<1>1. /\ ObjTypes /\ JobTypes /\ RunTypes /\ CountTypes /\ CopiesOK
  BY Parts
<1>2. job \in Job /\ jobC.o \in Job /\ held.o \in Object /\ world \in WorldType
  BY <1>1 DEF JobTypes, RunTypes, CountTypes, CopyOf
<1>3. pc = "sync" /\ UNCHANGED <<obj, objC, wl, wlC, metrics, budget>>
  BY DEF SyncJob
<1>4. CASE Requeue /\ UNCHANGED <<job, jobC, world>>
  BY <1>3, <1>4, ComesAgain
<1>5. ASSUME NEW k \in Job, k.exists, k.owner = "self", WriteJob(k), heldJob' = k,
             pc' = "status", UNCHANGED <<queued, held>>, world' \in WorldType
      PROVE  IInv'
  <2>1. job' = k /\ jobC' = Stale(jobC)
    BY <1>5 DEF WriteJob
  <2>2. jobC' \in CopyOf(Job) /\ ~jobC'.fresh
    BY <1>1, <2>1, StaleIs DEF JobTypes
  <2>3. JobTypes' /\ SyncedOK'
    BY <1>5, <2>1, <2>2 DEF JobTypes, SyncedOK, News, Controlled
  <2> QED BY <1>3, <1>5, <2>2, <2>3, HasJob
<1>6. CASE /\ WriteJob(NewJob(held.o)) /\ heldJob' = NewJob(held.o) /\ pc' = "status"
           /\ UNCHANGED <<queued, held, world>>
  BY <1>2, <1>5, <1>6, NewJobIs
<1>7. CASE /\ jobC.o.exists /\ SyncedJob(jobC.o, held.o) = jobC.o
           /\ heldJob' = jobC.o /\ pc' = "status"
           /\ UNCHANGED <<job, jobC, queued, held, world>>
  <2>1. jobC.o.owner = "self"
    BY <1>2, <1>7, SyncedJobIs
  <2>2. SyncedOK'
    BY <1>1, <1>7, <2>1 DEF SyncedOK, News, Ours, Controlled, CopiesOK
  <2>3. JobTypes' /\ (jobC'.fresh => jobC'.o = job')
    BY <1>1, <1>7 DEF JobTypes, CopiesOK
  <2> QED BY <1>2, <1>3, <1>7, <2>2, <2>3, HasJob
<1>8. CASE /\ jobC.o.exists /\ WriteJob(SyncedJob(jobC.o, held.o))
           /\ heldJob' = SyncedJob(jobC.o, held.o) /\ pc' = "status"
           /\ world' = [world EXCEPT !.adopted = @ \/ jobC.o.owner # "self"]
           /\ UNCHANGED <<queued, held>>
  <2>1. PICK a \in BOOLEAN : a = (world.adopted \/ jobC.o.owner # "self")
    OBVIOUS
  <2>2. world' = [world EXCEPT !.adopted = a]
    BY <1>8, <2>1
  <2>3. world' \in WorldType
    BY <1>2, <2>2, WorldIs
  <2> QED BY <1>2, <1>5, <1>8, <2>3, SyncedJobIs
<1> QED BY <1>4, <1>6, <1>7, <1>8 DEF SyncJob

(* The status the write would carry.                                       *)
LEMMA PhaseStatusIs ==
    ASSUME NEW o \in Object, NEW p \in Phases, NEW v, v = PhaseStatus(o, p)
    PROVE  /\ v \in Status /\ v.phase = p /\ v.running = o.status.running
           /\ v.admittedAt = o.status.admittedAt
<1>1. o.status \in Status /\ o.generation \in Nat
  BY DEF Object
<1>2. v = [o.status EXCEPT !.phase = p, !.observedGeneration = o.generation, !.admittedCond = p]
  BY DEF PhaseStatus
<1> QED BY <1>1, <1>2 DEF Status

LEMMA FaultsAre ==
    ASSUME NEW s, NEW stamp PROVE Faults(s, stamp) \in SUBSET {"requeued", "refused"}
BY DEF Faults

LEMMA Counted ==
    ASSUME CountTypes, NEW outcome, NEW s, NEW stamp \in Nat, Count(outcome, s, stamp)
    PROVE  /\ metrics' \in Metrics /\ world' \in WorldType
           /\ metrics'.observed = metrics.observed + (IF outcome = "Observed" THEN 1 ELSE 0)
<1>1. /\ metrics \in Metrics /\ world \in WorldType
  BY DEF CountTypes
<1>2. PICK a : a = metrics.observed + (IF outcome = "Observed" THEN 1 ELSE 0)
  OBVIOUS
<1>3. PICK u : u = metrics.unobserved + (IF outcome \in Refusals THEN 1 ELSE 0)
  OBVIOUS
<1>4. a \in Nat /\ u \in Nat
  BY <1>1, <1>2, <1>3 DEF Metrics
<1>5. metrics' = [metrics EXCEPT !.observed = a, !.unobserved = u]
  BY <1>2, <1>3 DEF Count
<1>6. metrics' \in Metrics /\ metrics'.observed = a
  BY <1>1, <1>4, <1>5 DEF Metrics
<1>7. PICK r : r = IF outcome = "AdmissionNotObserved" /\ stamp # 0
                   THEN world.refused \cup {stamp} ELSE world.refused
  OBVIOUS
<1>8. PICK f : f = IF outcome = "Observed"
                   THEN world.faults \cup Faults(s, stamp) ELSE world.faults
  OBVIOUS
<1>9. r \in SUBSET Nat /\ f \in SUBSET {"requeued", "refused"}
  BY <1>1, <1>7, <1>8, FaultsAre, WorldIs
<1>10. world' = [world EXCEPT !.refused = r, !.faults = f]
  BY <1>7, <1>8 DEF Count
<1>11. world' \in WorldType
  BY <1>1, <1>9, <1>10, WorldIs
<1> QED BY <1>2, <1>6, <1>11

(* What a status write can be.                                             *)
StatusStep(v, stamp) ==
    \/ v.status = held.o.status /\ Done /\ UNCHANGED <<obj, objC, metrics, world>>
    \/ Requeue /\ UNCHANGED <<obj, objC, metrics, world>>
    \/ /\ held.fresh /\ WriteObject([held.o EXCEPT !.status = v.status])
       /\ Count(v.outcome, v.status, stamp) /\ Done

LEMMA StatusWritten ==
    ASSUME IInv, SyncStatus
    PROVE  /\ pc = "status" /\ UNCHANGED <<job, jobC, wl, wlC, budget>>
           /\ \E v : /\ Recorded(PhaseStatus(held.o, computeMLTJPhase(heldJob, wlC)), v)
                     /\ \E stamp \in Nat : StatusStep(v, stamp)
<1>1. /\ held.o \in Object /\ heldJob \in Job /\ wlC \in Workload /\ budget \in Budget
  BY Parts DEF RunTypes, WlTypes, CountTypes, CopyOf
<1>2. PICK p \in Phases : p = computeMLTJPhase(heldJob, wlC)
  BY <1>1, PhaseIs
<1>3. PICK stamp \in Nat : stamp = kueueAdmittedStamp(wlC)
  BY <1>1 DEF kueueAdmittedStamp, Workload
<1>4. PICK negative \in BOOLEAN : setMLTJPhase(p, stamp, negative)
  BY <1>2, <1>3 DEF SyncStatus
<1>5. PICK w : w = PhaseStatus(held.o, p)
  OBVIOUS
<1>6. PICK v : v = recordAdmitToRunning(w, held.o.status.phase, p, stamp, negative)
  OBVIOUS
<1>7. w \in Status
  BY <1>1, <1>5, PhaseStatusIs
<1>8. Recorded(w, v)
  BY <1>6, <1>7, RecordIs
<1>9. StatusStep(v, stamp)
  BY <1>4, <1>5, <1>6 DEF setMLTJPhase, StatusStep
<1>10. Recorded(PhaseStatus(held.o, computeMLTJPhase(heldJob, wlC)), v)
  BY <1>2, <1>5, <1>8
<1>11. pc = "status" /\ UNCHANGED <<job, jobC, wl, wlC, budget>>
  BY DEF SyncStatus
<1> QED BY <1>9, <1>10, <1>11

LEMMA SyncStatusKeeps == ASSUME IInv, SyncStatus PROVE IInv'
<1>1. /\ ObjTypes /\ JobTypes /\ WlTypes /\ RunTypes /\ CountTypes
      /\ CopiesOK /\ FinalizerOK /\ HeldOK /\ SyncedOK /\ SeriesHasRecord
  BY Parts
<1>2. pc = "status" /\ UNCHANGED <<job, jobC, wl, wlC, budget>>
  BY StatusWritten
<1>3. PICK p : p = computeMLTJPhase(heldJob, wlC)
  OBVIOUS
<1>4. PICK v : /\ Recorded(PhaseStatus(held.o, p), v)
               /\ \E stamp \in Nat : StatusStep(v, stamp)
  BY <1>3, StatusWritten
<1>step. PICK stamp \in Nat : StatusStep(v, stamp)
  BY <1>4
<1>5. /\ held.o \in Object /\ heldJob \in Job /\ job \in Job /\ wlC \in Workload
      /\ queued \in BOOLEAN
  BY <1>1 DEF RunTypes, JobTypes, WlTypes, CopyOf
<1>6. p \in Phases
  BY <1>3, <1>5, PhaseIs
<1>7. PICK w : w = PhaseStatus(held.o, p)
  OBVIOUS
<1>8. /\ w \in Status /\ w.phase = p /\ w.running = held.o.status.running
  BY <1>5, <1>6, <1>7, PhaseStatusIs
<1>9. Recorded(w, v)
  BY <1>4, <1>7
<1>10. CASE Requeue /\ UNCHANGED <<obj, objC, metrics, world>>
  BY <1>2, <1>10, ComesAgain
<1>11. CASE v.status = held.o.status /\ Done /\ UNCHANGED <<obj, objC, metrics, world>>
  <2>1. held.o.status.phase = p
    BY <1>8, <1>9, <1>11 DEF Recorded
  <2>2. Return(queued)
    BY <1>11 DEF Done
  <2>3. ASSUME ~queued, objC.fresh, obj.exists PROVE ~obj.deleting /\ Shows
    <3>1. held.o = obj /\ ~obj.deleting
      BY <1>1, <1>2, <2>3 DEF HeldOK
    <3>2. CASE News
      BY <3>1, <3>2 DEF Shows
    <3>3. CASE /\ jobC.fresh /\ Controlled
               /\ heldJob.done = job.done /\ heldJob.active = job.active
      <4>1. computeMLTJPhase(job, wlC) = p
        BY <1>3, <1>5, <3>3, PhaseIs
      <4> QED BY <2>1, <3>1, <3>3, <4>1 DEF Shows
    <3> QED BY <1>1, <1>2, <2>3, <3>2, <3>3 DEF SyncedOK
  <2>4. Shows' <=> Shows
    BY <1>2, <1>11 DEF Shows, News, Ours, Controlled
  <2>5. queued' = queued
    BY <2>2 DEF Return
  <2>6. queued \/ RestOK'
    BY <1>11, <2>3, <2>4, <2>5 DEF RestOK
  <2> QED BY <1>2, <1>5, <1>11, <2>2, <2>6, NothingWritten, Returned
<1>12. CASE /\ held.fresh /\ WriteObject([held.o EXCEPT !.status = v.status])
            /\ Count(v.outcome, v.status, stamp) /\ Done
  <2>1. held.o = obj
    BY <1>1, <1>2, <1>12 DEF HeldOK
  <2>2. PICK o : o = [held.o EXCEPT !.status = v.status]
    OBVIOUS
  <2>3. v.status \in Status /\ (held.o.status.running => v.status.running)
        /\ (v.outcome = "Observed" => ~held.o.status.running /\ v.status.running)
    BY <1>8, <1>9 DEF Recorded
  <2>4. /\ o \in Object /\ o.exists = obj.exists /\ o.deleting = obj.deleting
        /\ o.finalizer = obj.finalizer /\ o.status = v.status
    BY <1>5, <2>1, <2>2, <2>3 DEF Object
  <2>5. obj' = o /\ objC' = Stale(objC)
    BY <1>12, <2>2 DEF WriteObject
  <2>6. objC' \in CopyOf(Object) /\ ~objC'.fresh
    BY <1>1, <2>5, StaleIs DEF ObjTypes
  <2>7. /\ metrics' \in Metrics /\ world' \in WorldType
        /\ metrics'.observed = metrics.observed + (IF v.outcome = "Observed" THEN 1 ELSE 0)
    BY <1>1, <1>12, Counted
  <2>8. ObjTypes' /\ JobTypes' /\ WlTypes' /\ CountTypes'
    BY <1>1, <1>2, <2>4, <2>5, <2>6, <2>7 DEF ObjTypes, JobTypes, WlTypes, CountTypes
  <2>9. CopiesOK' /\ FinalizerOK' /\ RestOK'
    BY <1>1, <1>2, <2>4, <2>5, <2>6 DEF CopiesOK, FinalizerOK, RestOK
  <2>10. SeriesHasRecord'
    <3>1. metrics.observed \in Nat
      BY <1>1 DEF CountTypes, Metrics
    <3>2. CASE v.outcome = "Observed"
      <4>1. SUFFICES ASSUME obj'.exists
                     PROVE  metrics'.observed <= 1 /\ obj'.status.running
        BY DEF SeriesHasRecord
      <4>2. metrics.observed <= 1 /\ metrics.observed # 1
        BY <1>1, <2>1, <2>3, <2>4, <2>5, <3>2, <4>1 DEF SeriesHasRecord
      <4> QED BY <2>3, <2>4, <2>5, <2>7, <3>1, <3>2, <4>2
    <3>3. CASE v.outcome # "Observed"
      <4>1. metrics'.observed = metrics.observed
        BY <2>7, <3>1, <3>3
      <4> QED BY <1>1, <2>1, <2>3, <2>4, <2>5, <4>1 DEF SeriesHasRecord
    <3> QED BY <3>2, <3>3
  <2>11. Return(queued)
    BY <1>12 DEF Done
  <2> QED BY <1>2, <1>5, <2>8, <2>9, <2>10, <2>11, Returned
<1> QED BY <1>step, <1>10, <1>11, <1>12 DEF StatusStep

-----------------------------------------------------------------------------
(* Restarts, watches and the start.                                        *)

LEMMA CrashKeeps == ASSUME IInv, Crash PROVE IInv'
<1>1. /\ obj \in Object /\ job \in Job /\ wl \in Workload /\ world \in WorldType
      /\ budget \in Budget /\ FinalizerOK
  BY Parts DEF ObjTypes, JobTypes, WlTypes, CountTypes
<1>2. PICK n \in Nat : n = budget.crashes - 1
  BY <1>1, BudgetIs DEF Crash
<1>3. budget' = [budget EXCEPT !.crashes = n]
  BY <1>2 DEF Crash
<1>4. budget' \in Budget
  BY <1>1, <1>3, BudgetIs
<1>5. /\ objC' = Cached(obj) /\ jobC' = Cached(job) /\ wlC' = wl
      /\ pc' = "idle" /\ queued' = TRUE /\ held' = Cached(NoObject) /\ heldJob' = NoJob
      /\ metrics' = NoMetrics /\ UNCHANGED <<obj, job, wl, world>>
  BY DEF Crash
<1>6. ObjTypes' /\ CopiesOK'
  BY <1>1, <1>5, CachedIs DEF ObjTypes, CopiesOK
<1>7. JobTypes' /\ WlTypes' /\ RunTypes'
  BY <1>1, <1>5, CachedIs, BlankObjects, BlankJobs DEF JobTypes, WlTypes, RunTypes
<1>8. CountTypes'
  BY <1>1, <1>4, <1>5, BlankJobs DEF CountTypes
<1>9. FinalizerOK' /\ HeldOK' /\ SyncedOK' /\ RestOK'
  BY <1>1, <1>5 DEF FinalizerOK, HeldOK, SyncedOK, RestOK
<1>10. SeriesHasRecord'
  <2>1. metrics'.observed = 0
    BY <1>5, BlankJobs
  <2> QED BY <2>1 DEF SeriesHasRecord
<1> QED BY <1>6, <1>7, <1>8, <1>9, <1>10, Shown

LEMMA CachesKeep == ASSUME IInv, Caches PROVE IInv'
<1>1. /\ ObjTypes /\ JobTypes /\ WlTypes /\ RunTypes /\ CountTypes
      /\ CopiesOK /\ FinalizerOK /\ HeldOK /\ SyncedOK /\ RestOK /\ SeriesHasRecord
  BY Parts
<1>2. CASE SyncObjC
  <2>1. /\ objC' = Cached(obj) /\ queued' = TRUE
        /\ UNCHANGED <<obj, job, jobC, wl, wlC, pc, held, heldJob, metrics, world, budget>>
    BY <1>2 DEF SyncObjC
  <2>2. objC' \in CopyOf(Object) /\ objC'.o = obj
    BY <1>1, <2>1, CachedIs DEF ObjTypes
  <2>3. ObjTypes' /\ JobTypes' /\ WlTypes' /\ RunTypes' /\ CountTypes'
    BY <1>1, <2>1, <2>2 DEF ObjTypes, JobTypes, WlTypes, RunTypes, CountTypes
  <2>4. CopiesOK' /\ FinalizerOK' /\ HeldOK' /\ SyncedOK' /\ RestOK' /\ SeriesHasRecord'
    BY <1>1, <2>1, <2>2 DEF CopiesOK, FinalizerOK, HeldOK, SyncedOK, RestOK, SeriesHasRecord
  <2> QED BY <2>3, <2>4, Shown
<1>3. CASE SyncJobC
  <2>1. /\ ~jobC.fresh /\ jobC' = Cached(job)
        /\ UNCHANGED <<obj, objC, job, wl, wlC, pc, held, heldJob, metrics, world, budget>>
    BY <1>3 DEF SyncJobC
  <2>2. PICK q \in BOOLEAN : q = (queued \/ \E j \in {job, jobC.o} :
                                               j.exists /\ j.owner \in {"self", "old"})
    OBVIOUS
  <2>3. queued' = q
    BY <1>3, <2>2 DEF SyncJobC
  <2>4. queued \/ News => queued'
    BY <2>2, <2>3 DEF News, Ours, Controlled
  <2>5. jobC' \in CopyOf(Job) /\ jobC'.o = job
    BY <1>1, <2>1, CachedIs DEF JobTypes
  <2>6. ObjTypes' /\ JobTypes' /\ WlTypes' /\ RunTypes' /\ CountTypes'
    BY <1>1, <2>1, <2>3, <2>5 DEF ObjTypes, JobTypes, WlTypes, RunTypes, CountTypes
  <2>7. CopiesOK' /\ FinalizerOK' /\ SeriesHasRecord'
    BY <1>1, <2>1, <2>5 DEF CopiesOK, FinalizerOK, SeriesHasRecord
  <2>8. HeldOK'
    BY <1>1, <2>1, <2>4 DEF HeldOK
  <2>9. SyncedOK'
    BY <1>1, <2>1, <2>4 DEF SyncedOK
  <2>10. RestOK'
    BY <1>1, <2>1, <2>4 DEF RestOK, Shows
  <2> QED BY <2>6, <2>7, <2>8, <2>9, <2>10, Shown
<1>4. CASE SyncWlC
  <2>1. /\ wlC' = wl /\ queued' = TRUE
        /\ UNCHANGED <<obj, objC, job, jobC, wl, pc, held, heldJob, metrics, world, budget>>
    BY <1>4 DEF SyncWlC
  <2>2. ObjTypes' /\ JobTypes' /\ WlTypes' /\ RunTypes' /\ CountTypes'
    BY <1>1, <2>1 DEF ObjTypes, JobTypes, WlTypes, RunTypes, CountTypes
  <2>3. CopiesOK' /\ FinalizerOK' /\ HeldOK' /\ SyncedOK' /\ RestOK' /\ SeriesHasRecord'
    BY <1>1, <2>1 DEF CopiesOK, FinalizerOK, HeldOK, SyncedOK, RestOK, SeriesHasRecord
  <2> QED BY <2>2, <2>3, Shown
<1> QED BY <1>2, <1>3, <1>4 DEF Caches

LEMMA StutterKeeps == ASSUME IInv, UNCHANGED vars PROVE IInv'
<1>1. /\ ObjTypes /\ JobTypes /\ WlTypes /\ RunTypes /\ CountTypes
      /\ CopiesOK /\ FinalizerOK /\ HeldOK /\ SyncedOK /\ RestOK /\ SeriesHasRecord
  BY Parts
<1>2. UNCHANGED <<obj, objC, job, jobC, wl, wlC, queued, pc, held, heldJob, metrics, world,
                  budget>>
  BY DEF vars
<1>3. RunTypes' /\ HeldOK' /\ SyncedOK' /\ RestOK'
  BY <1>1, <1>2 DEF RunTypes, HeldOK, SyncedOK, RestOK, Shows, News, Ours, Controlled
<1> QED BY <1>2, <1>3, NothingWritten, Shown

LEMMA Starts == ASSUME Init PROVE IInv
<1>1. /\ obj = NewObject /\ objC = Cached(NewObject) /\ job = NoJob /\ jobC = Cached(NoJob)
      /\ wl = NoWorkload /\ wlC = NoWorkload /\ queued = TRUE /\ pc = "idle"
      /\ held = Cached(NoObject) /\ heldJob = NoJob /\ metrics = NoMetrics
      /\ budget \in Budgets
  BY DEF Init
<1>2. budget \in Budget
  BY <1>1, BudgetsAssumption
<1>3. world \in WorldType
  <2>1. PICK z \in Nat : z = 0
    OBVIOUS
  <2>2. PICK b \in BOOLEAN : b = FALSE
    OBVIOUS
  <2>3. world = [admissions |-> z, refused |-> {}, faults |-> {}, adopted |-> b,
                 enteredFailed |-> z]
    BY <2>1, <2>2 DEF Init
  <2> QED BY <2>3 DEF WorldType
<1>4. objC \in CopyOf(Object) /\ objC.o = obj /\ jobC \in CopyOf(Job) /\ jobC.o = job
      /\ held \in CopyOf(Object)
  BY <1>1, CachedIs, BlankObjects, BlankJobs
<1>5. TypeOK
  BY <1>1, <1>2, <1>3, <1>4, BlankObjects, BlankJobs DEF TypeOK, CopyOf
<1>6. CopiesOK /\ FinalizerOK
  BY <1>1, <1>4, BlankObjects DEF CopiesOK, FinalizerOK
<1>7. HeldOK /\ SyncedOK /\ RestOK
  BY <1>1 DEF HeldOK, SyncedOK, RestOK
<1>8. SeriesHasRecord
  <2>1. metrics.observed = 0
    BY <1>1, BlankJobs
  <2> QED BY <2>1 DEF SeriesHasRecord
<1> QED BY <1>5, <1>6, <1>7, <1>8 DEF IInv

LEMMA Inductive == Spec => []IInv
<1>1. Init => IInv
  BY Starts
<1>2. IInv /\ [Next]_vars => IInv'
  BY KueueKeeps, UsersKeep, BeginKeeps, SyncJobKeeps, SyncStatusKeeps, CachesKeep, CrashKeeps,
     StutterKeeps DEF Next, Operator
<1> QED BY <1>1, <1>2, PTL DEF Spec

-----------------------------------------------------------------------------
(* Every variable keeps its type: the caches and the copy in hand are      *)
(* objects of the API, whoever wrote last.                                 *)
THEOREM TypeCorrect == Spec => []TypeOK
<1>1. IInv => TypeOK
  BY DEF IInv
<1> QED BY <1>1, Inductive, PTL

(* A wait is reported at most once for a training job and only if its      *)
(* status carries it: the write comes first and a write refused for its    *)
(* version counts nothing, whatever the cache shows and whenever the       *)
(* operator restarts.                                                      *)
THEOREM SeriesAgreesWithRecord == Spec => []SeriesHasRecord
<1>1. IInv => SeriesHasRecord
  BY DEF IInv
<1> QED BY <1>1, Inductive, PTL

(* The watches and requeues suffice, for any number of edits, evictions,   *)
(* restarts, conflicts and incarnations: when nothing is queued, in hand   *)
(* or undelivered, no deletion waits and the status shows the Job.         *)
THEOREM SettledStatusIsRight == Spec => []SettledIsRight
<1>1. IInv => SettledIsRight
  <2>1. SUFFICES ASSUME IInv, Settled, obj.exists
                 PROVE  /\ ~obj.deleting
                        /\ obj.status.phase = IF ownedConflict(job) THEN "Failed"
                                              ELSE computeMLTJPhase(job, wl)
    BY DEF SettledIsRight
  <2>2. ~obj.deleting /\ Shows
    BY <2>1, Parts DEF Settled, RestOK
  <2>3. ~News /\ wlC = wl
    BY <2>1 DEF Settled, News
  <2>4. Controlled /\ obj.status.phase = computeMLTJPhase(job, wl)
    BY <2>2, <2>3 DEF Shows
  <2>5. ~ownedConflict(job)
    BY <2>4 DEF Controlled, ownedConflict
  <2> QED BY <2>2, <2>4, <2>5
<1> QED BY <1>1, Inductive, PTL

-----------------------------------------------------------------------------
(* What a step leaves alone.                                               *)

WindowKept ==
    obj.exists /\ obj'.exists
        => /\ obj.status.admittedAt # 0 => obj'.status.admittedAt = obj.status.admittedAt
           /\ obj.status.running => obj'.status.running

LEMMA BeginKeepsStatus ==
    ASSUME IInv, Begin
    PROVE  obj'.exists => obj'.status.admittedAt = obj.status.admittedAt
                          /\ obj'.status.running = obj.status.running
<1>1. objC \in CopyOf(Object) /\ (objC.fresh => objC.o = obj)
  BY Parts DEF ObjTypes, CopiesOK
<1>2. objC.o \in Object
  BY <1>1 DEF CopyOf
<1>3. CASE RemoveFinalizer(objC.o)
  BY <1>3, BlankObjects DEF RemoveFinalizer, WriteObject
<1>4. CASE AddFinalizer(objC.o)
  <2>1. PICK o : o = [objC.o EXCEPT !.finalizer = TRUE]
    OBVIOUS
  <2>2. o.status = objC.o.status
    BY <1>2, <2>1 DEF Object
  <2>3. obj' = obj \/ (objC.fresh /\ obj' = o)
    BY <1>4, <2>1 DEF AddFinalizer, WriteObject
  <2> QED BY <1>1, <2>2, <2>3
<1>5. CASE markFailed(objC.o)
  <2>1. PICK v : v = FailedStatus(objC.o)
    OBVIOUS
  <2>2. v.admittedAt = objC.o.status.admittedAt /\ v.running = objC.o.status.running
    BY <1>2, <2>1 DEF FailedStatus, Object, Status
  <2>3. PICK o : o = [objC.o EXCEPT !.status = v]
    OBVIOUS
  <2>4. o.status = v
    BY <1>2, <2>3 DEF Object
  <2>5. obj' = obj \/ (objC.fresh /\ obj' = o)
    BY <1>5, <2>1, <2>3 DEF markFailed, WriteObject
  <2> QED BY <1>1, <2>2, <2>4, <2>5
<1>6. CASE obj' = obj
  BY <1>6
<1> QED BY <1>3, <1>4, <1>5, <1>6 DEF Begin

LEMMA SyncStatusKeepsWindow == ASSUME IInv, SyncStatus PROVE WindowKept
<1>1. /\ held.o \in Object /\ heldJob \in Job /\ wlC \in Workload /\ HeldOK
  BY Parts DEF RunTypes, WlTypes, CopyOf
<1>2. PICK p \in Phases : p = computeMLTJPhase(heldJob, wlC)
  BY <1>1, PhaseIs
<1>3. PICK v : /\ Recorded(PhaseStatus(held.o, p), v)
               /\ \E stamp \in Nat : StatusStep(v, stamp)
  BY <1>2, StatusWritten
<1>4. PICK w : w = PhaseStatus(held.o, p)
  OBVIOUS
<1>5. /\ w.running = held.o.status.running /\ w.admittedAt = held.o.status.admittedAt
  BY <1>1, <1>4, PhaseStatusIs
<1>6. /\ held.o.status.running => v.status.running
      /\ held.o.status.admittedAt # 0 => v.status.admittedAt = held.o.status.admittedAt
  BY <1>3, <1>4, <1>5 DEF Recorded
<1>7. PICK o : o = [held.o EXCEPT !.status = v.status]
  OBVIOUS
<1>8. o.status = v.status
  BY <1>1, <1>7 DEF Object
<1>9. obj' = obj \/ (held.fresh /\ obj' = o)
  BY <1>3, <1>7 DEF StatusStep, WriteObject
<1>10. pc = "status"
  BY DEF SyncStatus
<1>11. held.fresh => held.o = obj
  BY <1>1, <1>10 DEF HeldOK
<1> QED BY <1>6, <1>8, <1>9, <1>11 DEF WindowKept

LEMMA UsersKeepStatus ==
    ASSUME IInv, Users
    PROVE  obj.exists /\ obj'.exists => obj'.status = obj.status
<1>1. obj \in Object
  BY Parts DEF ObjTypes
<1>2. CASE EditSpec
  <2>1. PICK o : o = [obj EXCEPT !.generation = @ + 1]
    OBVIOUS
  <2>2. o.status = obj.status /\ obj' = o
    BY <1>1, <1>2, <2>1 DEF EditSpec, WriteObject, Object
  <2> QED BY <2>2
<1>3. CASE DeleteObject
  <2>1. PICK o : o = [obj EXCEPT !.deleting = TRUE]
    OBVIOUS
  <2>2. o.status = obj.status
    BY <1>1, <2>1 DEF Object
  <2>3. obj' = o \/ obj' = NoObject
    BY <1>3, <2>1 DEF DeleteObject, WriteObject
  <2> QED BY <2>2, <2>3, BlankObjects
<1>4. CASE RecreateObject
  BY <1>4 DEF RecreateObject
<1>5. CASE CreateForeignJob \/ DeleteForeignJob \/ CollectOldJob
  <2>1. obj' = obj
    BY <1>5 DEF CreateForeignJob, DeleteForeignJob, CollectOldJob, RemoveJob, JobWith
  <2> QED BY <2>1
<1> QED BY <1>2, <1>3, <1>4, <1>5 DEF Users

(* The two ends of the window are each written once: pod restarts,         *)
(* evictions, restarts of the operator and late reconciles leave them      *)
(* alone.                                                                  *)
THEOREM WindowWrittenOnce == Spec => WindowIsWrittenOnce
<1>1. IInv /\ [Next]_vars => [WindowKept]_vars
  <2>1. SUFFICES ASSUME IInv, Next PROVE WindowKept
    OBVIOUS
  <2>2. CASE Begin
    BY <2>1, <2>2, BeginKeepsStatus DEF WindowKept
  <2>3. CASE SyncStatus
    BY <2>1, <2>3, SyncStatusKeepsWindow
  <2>4. CASE Users
    BY <2>1, <2>4, UsersKeepStatus DEF WindowKept
  <2>5. CASE SyncJob \/ Caches \/ Crash
    <3>1. obj' = obj
      BY <2>5 DEF SyncJob, Caches, SyncObjC, SyncJobC, SyncWlC, Crash
    <3> QED BY <3>1 DEF WindowKept
  <2>6. CASE Kueue
    <3>1. obj' = obj
      BY <2>6 DEF Kueue, KueueCreate, KueueAdmit, KueueUnsuspend, KueueEvict, KueueSuspend,
                  PodsStart, PodsFail, JobEnds, JobWith, WlWith
    <3> QED BY <3>1 DEF WindowKept
  <2> QED BY <2>1, <2>2, <2>3, <2>4, <2>5, <2>6 DEF Next, Operator
<1> QED BY <1>1, Inductive, PTL DEF Spec, WindowIsWrittenOnce, WindowKept

SuspendKept == Operator /\ job.exists /\ job'.exists => job'.suspend = job.suspend

(* Kueue owns the suspend flag of a Job that exists: an update made from   *)
(* a stale copy is refused, and one from a fresh copy carries the flag as  *)
(* it is.                                                                  *)
THEOREM SuspendStaysKueues == Spec => SuspendIsKueues
<1>1. IInv /\ [Next]_vars => [SuspendKept]_vars
  <2>1. SUFFICES ASSUME IInv, Operator, job.exists, job'.exists
                 PROVE  job'.suspend = job.suspend
    BY DEF SuspendKept
  <2>2. /\ job \in Job /\ jobC.o \in Job /\ held.o \in Object /\ CopiesOK
    BY <2>1, Parts DEF JobTypes, RunTypes, CopyOf
  <2>3. PICK k : k = Orphaned(job)
    OBVIOUS
  <2>4. k.suspend = job.suspend
    BY <2>2, <2>3 DEF Orphaned, Job
  <2>5. CASE Begin
    <3>1. job' = job \/ job' = k
      BY <2>3, <2>5 DEF Begin, RemoveFinalizer, AddFinalizer, markFailed
    <3> QED BY <2>4, <3>1
  <2>6. CASE SyncJob
    <3>1. PICK s : s = SyncedJob(jobC.o, held.o)
      OBVIOUS
    <3>2. s.suspend = jobC.o.suspend
      BY <2>2, <3>1, SyncedJobIs
    <3>3. \/ job' = job \/ ~job.exists \/ (jobC.fresh /\ job' = s)
      BY <2>6, <3>1 DEF SyncJob, WriteJob
    <3> QED BY <2>1, <2>2, <3>2, <3>3 DEF CopiesOK
  <2>7. CASE SyncStatus
    BY <2>7 DEF SyncStatus
  <2> QED BY <2>1, <2>5, <2>6, <2>7 DEF Operator
<1> QED BY <1>1, Inductive, PTL DEF Spec, SuspendIsKueues, SuspendKept
=============================================================================
