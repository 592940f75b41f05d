---------------------------- MODULE HealthProofs ----------------------------
(***************************************************************************)
(* Proofs about the components that watch the health of something at       *)
(* intervals: WorkloadRun, for every set of specs and of target phases and *)
(* every bound; NodeHealth, for every set of NodeHealths, of other actors' *)
(* taints and of disturbances; and the gateway's registry of scrapers      *)
(* (ScraperManager), for any set of backends, any number of scraper        *)
(* objects and any timeout.                                                *)
(***************************************************************************)
EXTENDS WorkloadRun, NodeHealth, ScraperManager, FiniteSetTheorems, TLAPS


(* A write that succeeds is a function of the server's run: the copy it    *)
(* was computed from is of the same version.                               *)
CacheInv ==
    /\ fresh => runC = run
    /\ current => held = run /\ fresh /\ Busy

(* What TypeOK does not say: a run has not begun in the future, nor has    *)
(* the one that a reconcile holds begun after it.                          *)
BegunInv ==
    /\ run.startedAt <= now /\ runC.startedAt <= now /\ began <= now
    /\ Busy => held.startedAt <= began
    /\ run.phase # "Pending" /\ run.phase # "Refused"
           => run.startedAt # Never
    /\ runC.phase # "Pending" /\ runC.phase # "Refused"
           => runC.startedAt # Never

TypeInv == TypeOK /\ CacheInv /\ BegunInv

-----------------------------------------------------------------------------
(* Whole seconds: rounding down stays a natural number, never exceeds the  *)
(* time it is taken of, and keeps the order.                               *)
LEMMA SecondsFacts ==
    ASSUME NEW t \in Nat
    PROVE  /\ Seconds(t) \in Nat
           /\ Stored(t) \in Nat /\ Stored(t) <= t
           /\ \A u \in Nat : t <= u => Seconds(t) <= Seconds(u)
  <1>1. Seconds(t) \in Nat
    BY DEF Seconds
  <1>2. Stored(t) \in Nat /\ Stored(t) <= t
    BY DEF Seconds, Stored
  <1>3. \A u \in Nat : t <= u => Seconds(t) <= Seconds(u)
    BY DEF Seconds
  <1> QED BY <1>1, <1>2, <1>3

(* A stamp is a time or Never. *)
LEMMA StampType ==
    ASSUME NEW r \in RunType
    PROVE  r.startedAt \in Int /\ r.lastObservedAt \in Int
  <1>1. r.startedAt \in Nat \cup {Never} /\ r.lastObservedAt \in Nat \cup {Never}
    BY DEF RunType
  <1>2. Never \in Int
    BY DEF Never
  <1> QED BY <1>1, <1>2

(* The time elapsed at t, of which Elapsed is the case of the reconcile's  *)
(* own time.                                                               *)
Since(r, t) == IF r.startedAt = Never THEN 0 ELSE Seconds(t - r.startedAt)

(* An elapsed time never shrinks. *)
LEMMA SinceGrows ==
    ASSUME NEW r \in RunType, NEW t \in Nat, NEW u \in Nat,
           r.startedAt <= t, t <= u
    PROVE  /\ Since(r, t) \in Nat /\ Since(r, u) \in Nat
           /\ Since(r, t) <= Since(r, u)
  <1>1. CASE r.startedAt = Never
    BY <1>1 DEF Since
  <1>2. CASE r.startedAt # Never
    <2>1. r.startedAt \in Nat
      BY <1>2 DEF RunType
    <2>2. /\ t - r.startedAt \in Nat /\ u - r.startedAt \in Nat
          /\ t - r.startedAt <= u - r.startedAt
      BY <2>1
    <2> QED BY <1>2, <2>2, SecondsFacts DEF Since
  <1> QED BY <1>1, <1>2

(* What an elapsed time is. *)
LEMMA ElapsedType ==
    ASSUME NEW r \in RunType, began \in Nat, r.startedAt <= began
    PROVE  Elapsed(r) \in Nat /\ Elapsed(r) = Since(r, began)
  <1>1. Elapsed(r) = Since(r, began)
    BY DEF Elapsed, Since
  <1>2. began <= began
    OBVIOUS
  <1> QED BY <1>1, <1>2, SinceGrows

(* The trail of a recorded look. *)
LEMMA AppendedType ==
    ASSUME NEW r \in RunType, NEW state \in States, NEW at \in Nat
    PROVE  Appended(r, state, at) \in Seq(Observation)
  <1>1. r.observations \in Seq(Observation)
    BY DEF RunType
  <1>2. [state |-> state, at |-> at] \in Observation
    BY DEF Observation
  <1>3. Append(r.observations, [state |-> state, at |-> at])
            \in Seq(Observation)
    BY <1>1, <1>2
  <1> QED BY <1>1, <1>3 DEF Appended

(* Recording a look keeps the types, and changes the fields of the trail   *)
(* only.                                                                   *)
LEMMA RecordType ==
    ASSUME NEW r \in RunType, NEW state \in States, NEW at \in Nat,
           began \in Nat
    PROVE  LET q == Record(r, state, at) IN
           /\ q \in RunType
           /\ q.phase = r.phase /\ q.startedAt = r.startedAt
           /\ q.spec = r.spec /\ q.generation = r.generation
           /\ q.observedGeneration = r.observedGeneration
           /\ q.verdict = r.verdict
           /\ q.observations = Appended(r, state, at)
           /\ q.lastObservedAt = Stored(began)
           /\ q.observedUnhealthy = (r.observedUnhealthy \/ state # Ready)
           /\ q.recoveredAt = IF state = Ready /\ r.observedUnhealthy
                                 /\ r.recoveredAt = Never
                              THEN at ELSE r.recoveredAt
  <1> USE AppendedType, SecondsFacts
  <1> QED BY DEF Record, RunType

(* A generation can be recorded as observed. *)
LEMMA GenerationObserved ==
    ASSUME NEW r \in RunType
    PROVE  r.generation \in 0..MaxGeneration
  <1>1. r.generation \in 1..MaxGeneration
    BY DEF RunType
  <1>2. MaxGeneration \in Nat
    BY BoundsAssumption
  <1> QED BY <1>1, <1>2

(* The runs that are written: refused, judged and started ones. *)
LEMMA RefusedType ==
    ASSUME NEW r \in RunType
    PROVE  /\ Refused(r) \in RunType
           /\ Refused(r).phase = "Refused"
           /\ Refused(r).startedAt = r.startedAt
           /\ Refused(r).observations = r.observations
           /\ Refused(r).observedUnhealthy = r.observedUnhealthy
           /\ Refused(r).recoveredAt = r.recoveredAt
           /\ Refused(r).generation = r.generation
           /\ Refused(r).observedGeneration = r.generation
  BY GenerationObserved DEF Refused, RunType

(* A judged run keeps its trail; the verdict is what recoveredAt says. *)
LEMMA JudgedType ==
    ASSUME NEW r \in RunType
    PROVE  /\ Judged(r) \in RunType
           /\ Judged(r).phase = "Complete"
           /\ Judged(r).startedAt = r.startedAt
           /\ Judged(r).observations = r.observations
           /\ Judged(r).observedUnhealthy = r.observedUnhealthy
           /\ Judged(r).recoveredAt = r.recoveredAt
           /\ Judged(r).generation = r.generation
           /\ Judged(r).observedGeneration = r.observedGeneration
           /\ Judged(r).verdict = IF r.recoveredAt # Never
                                     /\ r.recoveredAt <= r.spec.within
                                  THEN "Recovered" ELSE "NotRecovered"
  BY DEF Judged, RunType

(* A started run is stamped with the time and the generation it is of. *)
LEMMA StartedType ==
    ASSUME NEW r \in RunType, NEW state \in States, began \in Nat
    PROVE  LET q == Started(r, state) IN
           /\ q \in RunType
           /\ q.phase = "Observing" /\ q.startedAt = Stored(began)
           /\ q.spec = r.spec /\ q.generation = r.generation
           /\ q.observedGeneration = r.generation
           /\ q.lastObservedAt = Stored(began)
           /\ q.observations = Record(r, state, 0).observations
           /\ q.observedUnhealthy = Record(r, state, 0).observedUnhealthy
           /\ q.recoveredAt = Record(r, state, 0).recoveredAt
  <1>1. Record(r, state, 0) \in RunType
        /\ Record(r, state, 0).lastObservedAt = Stored(began)
        /\ Record(r, state, 0).spec = r.spec
        /\ Record(r, state, 0).generation = r.generation
    BY RecordType
  <1>2. Stored(began) \in Nat
    BY SecondsFacts
  <1>3. r.generation \in 0..MaxGeneration
    BY GenerationObserved
  <1> HIDE DEF Record, Stored
  <1> QED BY <1>1, <1>2, <1>3 DEF Started, RunType

-----------------------------------------------------------------------------
(* What a reconcile can do to the server's run and to the history: nothing *)
(* (the copy was old, or terminal), refuse the run, begin it, record a     *)
(* look, or close it.                                                      *)
WroteNothing == UNCHANGED <<run, History>>

WroteRefusal ==
    /\ current /\ ~Terminal(run)
    /\ run' = Refused(run) /\ UNCHANGED History

WroteStart(seen) ==
    /\ current /\ run.phase = "Pending"
    /\ run' = Started(run, seen)
    /\ declared' = run.spec /\ judged' = judged
    /\ lookedAt' \in began..now /\ hole' = hole

InTime ==
    current /\ run.phase = "Observing" /\ ~SpecMoved(run) /\ ~GapTooLong(run)

WroteLook(seen) ==
    /\ InTime
    /\ run' = Record(run, seen, Elapsed(run))
    /\ UNCHANGED <<declared, judged>>
    /\ lookedAt' \in began..now
    /\ hole' = (hole \/ began - lookedAt > MaxGap)

WroteClose(seen) ==
    /\ InTime
    /\ run' = Closed(Record(run, seen, Elapsed(run)))
    /\ declared' = declared /\ judged' = run.spec
    /\ lookedAt' \in began..now
    /\ hole' = (hole \/ began - lookedAt > MaxGap)

(* These five are all: a write that succeeds is computed from the         *)
(* server's own version.                                                   *)
LEMMA ReconcileWrites ==
    ASSUME TypeInv, Reconcile
    PROVE  \/ WroteNothing
           \/ WroteRefusal
           \/ \E seen \in States : \/ WroteStart(seen)
                                    \/ WroteLook(seen)
                                    \/ WroteClose(seen)
  <1> USE DEF TypeInv, CacheInv
  <1>1. CASE Terminal(held) /\ UNCHANGED <<run, fresh, due, timer, History>>
    BY <1>1 DEF WroteNothing
  <1>2. ASSUME Refuse(held), ~Terminal(held) PROVE WroteNothing \/ WroteRefusal
    BY <1>2 DEF Refuse, Update, WroteNothing, WroteRefusal
  <1>3. SpecMoved(held) => ~Terminal(held)
    BY DEF SpecMoved, Terminal
  <1>4. ASSUME ~Terminal(held), ~SpecMoved(held),
               NEW seen \in Visible(held), Observe(held, seen)
        PROVE  \/ WroteNothing \/ WroteRefusal
               \/ \E s \in States : WroteStart(s) \/ WroteLook(s) \/ WroteClose(s)
    <2>1. seen # Absent => seen \in States
      BY DEF Visible
    <2>2. CASE Refuse(held)
      BY <1>2, <1>4, <2>2
    <2>3. CASE held.phase = "Pending" /\ seen # Absent /\ Start(held, seen)
      <3>1. CASE run' = run
        BY <2>3, <3>1 DEF Start, Looked, WroteNothing, History
      <3>2. CASE run' # run
        <4>1. current /\ run' = Started(run, seen) /\ held = run
          BY <2>3, <3>2 DEF Start, Update
        <4> HIDE DEF Started
        <4> QED BY <2>1, <2>3, <3>2, <4>1, Zenon
                DEF Start, Looked, WroteStart, TypeOK
      <3> QED BY <3>1, <3>2
    <2>4. CASE /\ held.phase = "Observing" /\ ~GapTooLong(held)
               /\ seen # Absent /\ Look(held, seen)
      <3>1. CASE run' = run
        BY <2>4, <3>1 DEF Look, Looked, WroteNothing, History
      <3>2. CASE run' # run
        <4>1. current /\ run' = Record(run, seen, Elapsed(run)) /\ held = run
          BY <2>4, <3>2 DEF Look, Update
        <4> HIDE DEF Record, Elapsed
        <4> QED BY <1>4, <2>1, <2>4, <3>2, <4>1, Zenon
                DEF Look, Looked, WroteLook, InTime
      <3> QED BY <3>1, <3>2
    <2>5. CASE /\ held.phase = "Observing" /\ ~GapTooLong(held)
               /\ seen # Absent /\ Close(held, seen)
      <3>1. CASE run' = run
        BY <2>5, <3>1 DEF Close, Looked, WroteNothing, History
      <3>2. CASE run' # run
        <4>1. /\ current /\ held = run
              /\ run' = Closed(Record(run, seen, Elapsed(run)))
          BY <2>5, <3>2 DEF Close, Update
        <4> HIDE DEF Record, Elapsed, Closed
        <4> QED BY <1>4, <2>1, <2>5, <3>2, <4>1, Zenon
                DEF Close, Looked, WroteClose, InTime
      <3> QED BY <3>1, <3>2
    <2> QED BY <1>4, <2>2, <2>3, <2>4, <2>5, Zenon DEF Observe
  <1> QED BY <1>1, <1>2, <1>3, <1>4, Zenon DEF Reconcile

(* The rest of a reconcile: the queue, the timer and the cache. *)
LEMMA UpdateFlags ==
    ASSUME TypeInv, NEW r, NEW again \in BOOLEAN, Update(r, again),
           runC' = runC
    PROVE  /\ fresh' \in BOOLEAN /\ due' \in BOOLEAN /\ timer' \in BOOLEAN
           /\ fresh' => runC' = run'
  <1> USE DEF TypeInv, TypeOK, CacheInv
  <1>1. CASE /\ current /\ run' = r /\ fresh' = (r = run)
             /\ timer' = (timer \/ again) /\ due' = due
    <2>1. fresh' \in BOOLEAN /\ timer' \in BOOLEAN /\ due' \in BOOLEAN
      BY <1>1, Zenon
    <2>2. fresh' => runC' = run'
      BY <1>1, Zenon
    <2> QED BY <2>1, <2>2
  <1>2. CASE ~current /\ due' = TRUE /\ UNCHANGED <<run, fresh, timer>>
    BY <1>2
  <1> QED BY <1>1, <1>2 DEF Update

(* No reconcile leaves the cache marked fresh when it is behind, nor a     *)
(* copy in hand.                                                           *)
LEMMA ReconcileFlags ==
    ASSUME TypeInv, Reconcile
    PROVE  /\ UNCHANGED <<runC, now, restarts>> /\ Return
           /\ fresh' \in BOOLEAN /\ due' \in BOOLEAN /\ timer' \in BOOLEAN
           /\ fresh' => runC' = run'
  <1>1. UNCHANGED <<runC, now, restarts>> /\ Return
    BY DEF Reconcile
  <1>2. CASE Terminal(held) /\ UNCHANGED <<run, fresh, due, timer, History>>
    BY <1>1, <1>2 DEF TypeInv, TypeOK, CacheInv
  <1>3. CASE \E r : \E again \in BOOLEAN : Update(r, again)
    BY <1>1, <1>3, UpdateFlags
  <1>4. ASSUME Refuse(held) PROVE \E r : \E again \in BOOLEAN : Update(r, again)
    BY <1>4, Zenon DEF Refuse
  <1>5. ASSUME NEW seen, Observe(held, seen)
        PROVE  \E r : \E again \in BOOLEAN : Update(r, again)
    BY <1>4, <1>5, Zenon DEF Observe, Start, Look, Close
  <1> QED BY <1>1, <1>2, <1>3, <1>4, <1>5, Zenon DEF Reconcile

-----------------------------------------------------------------------------
(* Type correctness *)

(* Every step keeps the type invariant and its strengthening. *)
LEMMA TypeStep == TypeInv /\ [Next]_vars => TypeInv'
  <1> SUFFICES ASSUME TypeInv, [Next]_vars PROVE TypeInv'
    OBVIOUS
  <1>0. /\ run \in RunType /\ runC \in RunType /\ now \in Nat
        /\ run.startedAt <= now /\ runC.startedAt <= now
        /\ began \in Nat /\ began <= now
        /\ current => Elapsed(run) \in Nat
    BY ElapsedType DEF TypeInv, TypeOK, CacheInv, BegunInv
  <1>1. CASE Reconcile
    <2>1. /\ UNCHANGED <<runC, now, restarts>> /\ Return
          /\ fresh' \in BOOLEAN /\ due' \in BOOLEAN /\ timer' \in BOOLEAN
          /\ fresh' => runC' = run'
      BY <1>1, ReconcileFlags
    <2> DEFINE Typed == /\ run' \in RunType
                        /\ run'.startedAt <= now
                        /\ run'.phase # "Pending" /\ run'.phase # "Refused"
                               => run'.startedAt # Never
                        /\ declared' \in Specs /\ judged' \in Specs
                        /\ lookedAt' \in Int /\ hole' \in BOOLEAN
    <2>2. SUFFICES Typed
      <3>1. SUFFICES ASSUME Typed PROVE TypeInv'
        OBVIOUS
      <3>2. held' = NoRun /\ began' = 0 /\ current' = FALSE /\ ~Busy'
        BY <2>1 DEF Return, Busy
      <3>3. TypeOK'
        BY <2>1, <3>1, <3>2 DEF TypeInv, TypeOK
      <3>4. CacheInv'
        BY <2>1, <3>2 DEF CacheInv
      <3>5. BegunInv'
        BY <1>0, <2>1, <3>1, <3>2 DEF TypeInv, BegunInv
      <3> QED BY <3>3, <3>4, <3>5 DEF TypeInv
    <2>3. CASE WroteNothing
      BY <2>3 DEF WroteNothing, History, TypeInv, TypeOK, BegunInv
    <2>4. CASE WroteRefusal
      BY <1>0, <2>4, RefusedType DEF WroteRefusal, History, TypeInv, TypeOK
    <2>5. ASSUME NEW seen \in States, WroteStart(seen) PROVE Typed
      <3>1. run.spec \in Specs
        BY <1>0 DEF RunType
      <3>2. Stored(began) \in Nat /\ Stored(began) <= now
        BY <1>0, SecondsFacts
      <3>3. Stored(began) # Never
        BY <3>2 DEF Never
      <3> QED BY <1>0, <2>5, <3>1, <3>2, <3>3, StartedType
              DEF WroteStart, TypeInv, TypeOK
    <2>6. ASSUME NEW seen \in States, current PROVE
          LET q == Record(run, seen, Elapsed(run)) IN
              q \in RunType /\ q.startedAt = run.startedAt /\ q.phase = run.phase
      BY <1>0, <2>6, RecordType
    <2>7. ASSUME NEW seen \in States, WroteLook(seen) PROVE Typed
      <3>1. hole' \in BOOLEAN
        BY <2>7, Zenon DEF WroteLook
      <3>2. run.startedAt # Never
        BY <2>7 DEF WroteLook, InTime, TypeInv, BegunInv
      <3>3. current
        BY <2>7 DEF WroteLook, InTime
      <3> HIDE DEF Record
      <3> QED BY <1>0, <2>6, <2>7, <3>1, <3>2, <3>3 DEF WroteLook, TypeInv, TypeOK
    <2>8. ASSUME NEW seen \in States, WroteClose(seen) PROVE Typed
      <3>1. hole' \in BOOLEAN
        BY <2>8, Zenon DEF WroteClose
      <3>2. run.startedAt # Never /\ run.spec \in Specs
        BY <1>0, <2>8 DEF WroteClose, InTime, TypeInv, BegunInv, RunType
      <3> DEFINE q == Record(run, seen, Elapsed(run))
      <3>3. q \in RunType /\ q.startedAt = run.startedAt
        BY <2>6, <2>8 DEF WroteClose, InTime
      <3> HIDE DEF q
      <3>4. Closed(q) \in RunType /\ Closed(q).startedAt = q.startedAt
        BY <3>3, RefusedType, JudgedType DEF Closed
      <3>5. run' = Closed(q)
        BY <2>8 DEF WroteClose, q
      <3> QED BY <1>0, <2>8, <3>1, <3>2, <3>3, <3>4, <3>5
              DEF WroteClose, TypeInv, TypeOK
    <2> QED BY <1>1, <2>3, <2>4, <2>5, <2>7, <2>8, ReconcileWrites
  <1> USE DEF TypeInv, TypeOK, CacheInv, BegunInv, Busy, Pass, History
  <1>2. CASE Begin
    <2>1. TypeOK'
      BY <1>2 DEF Begin
    <2>2. CacheInv'
      BY <1>0, <1>2, NoRunAssumption DEF Begin
    <2>3. BegunInv'
      BY <1>0, <1>2 DEF Begin
    <2> QED BY <2>1, <2>2, <2>3
  <1>3. CASE CallFails
    <2>1. TypeOK'
      BY <1>3 DEF CallFails, Return
    <2>2. CacheInv'
      BY <1>3 DEF CallFails, Return
    <2>3. BegunInv'
      BY <1>0, <1>3 DEF CallFails, Return
    <2> QED BY <2>1, <2>2, <2>3
  <1>4. CASE SyncCache
    BY <1>4 DEF SyncCache
  <1>5. CASE TimerFires
    BY <1>5 DEF TimerFires
  <1>6. CASE Restart
    <2>1. MaxRestarts \in Nat
      BY BoundsAssumption
    <2>2. restarts' \in 0..MaxRestarts
      BY <1>6, <2>1 DEF Restart
    <2>3. TypeOK'
      BY <1>6, <2>2 DEF Restart, Return
    <2>4. CacheInv'
      BY <1>6 DEF Restart, Return
    <2>5. BegunInv'
      BY <1>0, <1>6 DEF Restart, Return
    <2> QED BY <2>3, <2>4, <2>5
  <1>7. CASE EditSpec
    <2>1. PICK s \in Specs : run' = [run EXCEPT !.generation = @ + 1, !.spec = s]
      BY <1>7 DEF EditSpec
    <2>2. run.generation \in Nat /\ run.generation + 1 \in 1..MaxGeneration
      <3>1. MaxGeneration \in Nat
        BY BoundsAssumption
      <3>2. run.generation \in 1..MaxGeneration
        BY <1>0 DEF RunType
      <3> QED BY <1>7, <3>1, <3>2 DEF EditSpec
    <2>3. run' \in RunType /\ run'.startedAt = run.startedAt
          /\ run'.phase = run.phase
      BY <1>0, <2>1, <2>2 DEF RunType
    <2> QED BY <1>0, <1>7, <2>3 DEF EditSpec
  <1>8. CASE Tick
    <2>1. now' = now + 1
      BY <1>8 DEF Tick
    <2>2. run.startedAt \in Int /\ runC.startedAt \in Int
      BY <1>0, StampType
    <2> QED BY <1>0, <1>8, <2>1, <2>2 DEF Tick
  <1>9. CASE UNCHANGED vars
    BY <1>9 DEF vars
  <1> QED BY <1>1, <1>2, <1>3, <1>4, <1>5, <1>6, <1>7, <1>8, <1>9 DEF Next

(* What a new run starts from. *)
LEMMA NewRunFields ==
    ASSUME NEW s
    PROVE  /\ NewRun(s).phase = "Pending" /\ NewRun(s).generation = 1
           /\ NewRun(s).observedGeneration = 0
           /\ NewRun(s).observations = << >>
           /\ NewRun(s).observedUnhealthy = FALSE
           /\ NewRun(s).recoveredAt = Never
  BY DEF NewRun

(* A new run is well formed. *)
LEMMA TypeInit == Init => TypeInv
  <1> SUFFICES ASSUME Init PROVE TypeInv
    OBVIOUS
  <1>1. PICK s \in Specs :
            run = NewRun(s) /\ runC = NewRun(s) /\ declared = s /\ judged = s
    BY DEF Init
  <1>2. MaxGeneration \in Nat \ {0}
    BY BoundsAssumption
  <1>3. NewRun(s) \in RunType
    BY <1>2 DEF NewRun, RunType
  <1>4. NewRun(s).startedAt = -1 /\ NewRun(s).phase = "Pending"
    BY DEF NewRun, Never
  <1>5. /\ fresh = TRUE /\ due = TRUE /\ timer = FALSE /\ now = 0
        /\ restarts = 0 /\ lookedAt = -1 /\ hole = FALSE
        /\ held = NoRun /\ began = 0 /\ current = FALSE
    BY DEF Init, Never
  <1>6. restarts \in 0..MaxRestarts
    <2>1. MaxRestarts \in Nat
      BY BoundsAssumption
    <2> QED BY <1>5, <2>1
  <1>7. TypeOK
    <2>1. lookedAt \in Int /\ now \in Nat /\ began \in Nat
      BY <1>5
    <2>2. run \in RunType /\ runC \in RunType
      BY <1>1, <1>3
    <2>3. declared \in Specs /\ judged \in Specs
      BY <1>1
    <2>4. fresh \in BOOLEAN /\ due \in BOOLEAN /\ timer \in BOOLEAN
          /\ hole \in BOOLEAN /\ current \in BOOLEAN
          /\ held \in RunType \cup {NoRun}
      BY <1>5
    <2> QED BY <1>6, <2>1, <2>2, <2>3, <2>4 DEF TypeOK
  <1>8. CacheInv
    BY <1>1, <1>5 DEF CacheInv
  <1>9. BegunInv
    BY <1>1, <1>4, <1>5 DEF BegunInv, Busy
  <1> QED BY <1>7, <1>8, <1>9 DEF TypeInv

(* Every state is well typed, a copy marked fresh is the server's version, *)
(* and no run has begun in the future.                                     *)
LEMMA TypeInvHolds == Spec => []TypeInv
  BY TypeInit, TypeStep, PTL DEF Spec

(* The reconciler keeps the run's status well formed: elapsed times and    *)
(* stamps are never negative, whatever copy they were computed from.       *)
THEOREM TypeCorrect == Spec => []TypeOK
  BY TypeInvHolds, PTL DEF TypeInv

-----------------------------------------------------------------------------
(* Steps other than a reconcile leave the status alone. *)
SameStatus ==
    /\ run'.phase = run.phase /\ run'.verdict = run.verdict
    /\ run'.observations = run.observations
    /\ run'.startedAt = run.startedAt
    /\ run'.lastObservedAt = run.lastObservedAt
    /\ run'.observedGeneration = run.observedGeneration
    /\ run'.observedUnhealthy = run.observedUnhealthy
    /\ run'.recoveredAt = run.recoveredAt

(* Every step is a reconcile or one that leaves the status alone. *)
LEMMA OtherSteps ==
    ASSUME TypeInv, [Next]_vars
    PROVE  \/ Reconcile
           \/ /\ SameStatus /\ UNCHANGED History
              /\ now' \in {now, now + 1}
              /\ \/ run' = run
                 \/ run'.generation = run.generation + 1
              /\ current' => \/ current /\ began' = began
                             \/ began' = now
  <1> USE DEF SameStatus
  <1>1. CASE \/ Begin \/ CallFails \/ SyncCache
             \/ TimerFires \/ Restart \/ Tick
    BY <1>1 DEF Begin, CallFails, Return, SyncCache, TimerFires, Restart,
                Tick, Pass
  <1>2. CASE EditSpec
    BY <1>2 DEF EditSpec, TypeInv, TypeOK, RunType
  <1>3. CASE UNCHANGED vars
    BY <1>3 DEF vars, History
  <1> QED BY <1>1, <1>2, <1>3, Zenon DEF Next

(* Terminal states are terminal: whatever copy a late reconcile holds, a   *)
(* completed run keeps its verdict and its trail, and a refused one never  *)
(* gets a verdict.                                                         *)
THEOREM TerminalStays == Spec => TerminalIsTerminal
  <1> DEFINE Stays == Terminal(run)
                 => /\ run'.phase = run.phase /\ run'.verdict = run.verdict
                    /\ run'.observations = run.observations
  <1>1. TypeInv /\ [Next]_vars => Stays
    <2> SUFFICES ASSUME TypeInv, [Next]_vars, Terminal(run) PROVE Stays
      OBVIOUS
    <2>1. CASE Reconcile
      <3>1. ~WroteRefusal
        BY DEF WroteRefusal
      <3>2. \A seen \in States :
                ~WroteStart(seen) /\ ~WroteLook(seen) /\ ~WroteClose(seen)
        BY DEF WroteStart, WroteLook, WroteClose, InTime, Terminal
      <3>3. WroteNothing
        BY <2>1, <3>1, <3>2, ReconcileWrites
      <3> QED BY <3>3 DEF WroteNothing
    <2>2. CASE SameStatus
      BY <2>2 DEF SameStatus
    <2> QED BY <2>1, <2>2, OtherSteps
  <1>2. TypeInv /\ [Next]_vars => [Stays]_vars
    BY <1>1
  <1> QED BY <1>2, TypeInvHolds, PTL DEF Spec, TerminalIsTerminal

-----------------------------------------------------------------------------
(* No hole so far, unless the run was refused; and while it is observed    *)
(* the stamp of the last look is not later than the look.                  *)
HoleInv ==
    /\ run.phase # "Refused" => ~hole
    /\ run.phase = "Observing"
           => run.lastObservedAt # Never /\ run.lastObservedAt <= lookedAt

(* Every step keeps the record of holes. *)
LEMMA HoleStep == TypeInv /\ HoleInv /\ [Next]_vars => HoleInv'
  <1> SUFFICES ASSUME TypeInv, HoleInv, [Next]_vars PROVE HoleInv'
    OBVIOUS
  <1>0. /\ run \in RunType /\ now \in Nat /\ began \in Nat /\ lookedAt \in Int
        /\ current => Elapsed(run) \in Nat
        /\ run.lastObservedAt \in Int
        /\ Stored(began) \in Nat /\ Stored(began) <= began /\ MaxGap \in Nat
    BY ElapsedType, StampType, SecondsFacts, BoundsAssumption
       DEF TypeInv, TypeOK, CacheInv, BegunInv
  <1>1. CASE Reconcile
    <2>1. CASE WroteNothing
      BY <2>1 DEF WroteNothing, History, HoleInv
    <2>2. CASE WroteRefusal
      BY <1>0, <2>2, RefusedType DEF WroteRefusal, HoleInv
    <2>3. ASSUME NEW seen \in States, WroteStart(seen) PROVE HoleInv'
      <3>1. /\ run'.phase = "Observing" /\ run'.lastObservedAt = Stored(began)
        BY <1>0, <2>3, StartedType DEF WroteStart
      <3>2. ~hole' /\ lookedAt' \in began..now
        BY <2>3 DEF WroteStart, HoleInv
      <3> QED BY <1>0, <3>1, <3>2 DEF HoleInv, Never
    <2>4. ASSUME InTime PROVE ~(began - lookedAt > MaxGap) /\ ~hole
      BY <1>0, <2>4 DEF InTime, GapTooLong, HoleInv
    <2>5. ASSUME NEW seen \in States, WroteLook(seen) PROVE HoleInv'
      <3>1. run'.phase = "Observing" /\ run'.lastObservedAt = Stored(began)
        BY <1>0, <2>5, RecordType DEF WroteLook, InTime
      <3>2. ~hole'
        BY <2>4, <2>5, Zenon DEF WroteLook
      <3>3. lookedAt' \in began..now
        BY <2>5 DEF WroteLook
      <3> QED BY <1>0, <3>1, <3>2, <3>3 DEF HoleInv, Never
    <2>6. ASSUME NEW seen \in States, WroteClose(seen) PROVE HoleInv'
      <3>1. Record(run, seen, Elapsed(run)) \in RunType
        BY <1>0, <2>6, RecordType DEF WroteClose, InTime
      <3>2. run'.phase # "Observing"
        BY <2>6, <3>1, RefusedType, JudgedType DEF WroteClose, Closed
      <3>3. ~hole'
        BY <2>4, <2>6, Zenon DEF WroteClose
      <3> QED BY <3>2, <3>3 DEF HoleInv
    <2> QED BY <1>1, <2>1, <2>2, <2>3, <2>5, <2>6, ReconcileWrites
  <1>2. CASE SameStatus /\ UNCHANGED History
    BY <1>2 DEF SameStatus, History, HoleInv
  <1> QED BY <1>1, <1>2, OtherSteps

(* No verdict across an absence: every look behind a verdict belongs to a  *)
(* reconcile that began at most maxGap after the look before really was,   *)
(* for every poll interval and however slow the reads and the writes are.  *)
THEOREM VerdictsAreCovered == Spec => []NoVerdictAcrossHole
  <1>1. Init => HoleInv
    <2> SUFFICES ASSUME Init PROVE HoleInv
      OBVIOUS
    <2>1. ~hole
      BY Zenon DEF Init
    <2>2. run.phase = "Pending"
      BY NewRunFields DEF Init
    <2> QED BY <2>1, <2>2 DEF HoleInv
  <1>2. HoleInv => NoVerdictAcrossHole
    BY DEF HoleInv, NoVerdictAcrossHole
  <1> QED BY <1>1, <1>2, TypeInvHolds, HoleStep, PTL DEF Spec

-----------------------------------------------------------------------------
(* While the generation observed is the current one, the spec is the       *)
(* declared one: an edit makes the generation run ahead for good.          *)
DeclaredInv ==
    /\ run.observedGeneration <= run.generation
    /\ run.phase = "Observing" /\ run.observedGeneration = run.generation
           => run.spec = declared
    /\ run.phase = "Complete" => judged = declared

(* Every step keeps the tie between generation and declared spec. *)
LEMMA DeclaredStep == TypeInv /\ DeclaredInv /\ [Next]_vars => DeclaredInv'
  <1> SUFFICES ASSUME TypeInv, DeclaredInv, [Next]_vars PROVE DeclaredInv'
    OBVIOUS
  <1>0. /\ run \in RunType /\ began \in Nat
        /\ current => Elapsed(run) \in Nat
        /\ run.generation \in Int /\ run.observedGeneration \in Int
    <2>1. /\ run \in RunType /\ began \in Nat
          /\ current => run.startedAt <= began
      BY DEF TypeInv, TypeOK, CacheInv, BegunInv
    <2>2. current => Elapsed(run) \in Nat
      BY <2>1, ElapsedType
    <2>3. run.generation \in 1..MaxGeneration
          /\ run.observedGeneration \in 0..MaxGeneration
      BY <2>1 DEF RunType
    <2>4. MaxGeneration \in Nat
      BY BoundsAssumption
    <2> QED BY <2>1, <2>2, <2>3, <2>4
  <1>1. CASE Reconcile
    <2>1. CASE WroteNothing
      BY <2>1 DEF WroteNothing, History, DeclaredInv
    <2>2. CASE WroteRefusal
      BY <1>0, <2>2, RefusedType DEF WroteRefusal, DeclaredInv
    <2>3. ASSUME NEW seen \in States, WroteStart(seen) PROVE DeclaredInv'
      BY <1>0, <2>3, StartedType DEF WroteStart, DeclaredInv
    <2>4. ASSUME NEW seen \in States, WroteLook(seen) PROVE DeclaredInv'
      <3>1. /\ run'.phase = run.phase /\ run'.spec = run.spec
            /\ run'.generation = run.generation
            /\ run'.observedGeneration = run.observedGeneration
        BY <1>0, <2>4, RecordType DEF WroteLook, InTime
      <3> QED BY <2>4, <3>1 DEF WroteLook, InTime, DeclaredInv
    <2>5. ASSUME NEW seen \in States, WroteClose(seen) PROVE DeclaredInv'
      <3> DEFINE q == Record(run, seen, Elapsed(run))
      <3>1. /\ q \in RunType /\ q.generation = run.generation
            /\ q.observedGeneration = run.observedGeneration
        BY <1>0, <2>5, RecordType DEF WroteClose, InTime
      <3>2. run' = Closed(q)
        BY <2>5 DEF WroteClose
      <3> HIDE DEF q
      <3>3. /\ run'.phase # "Observing"
            /\ run'.observedGeneration <= run'.generation
        BY <1>0, <3>1, <3>2, RefusedType, JudgedType DEF Closed, DeclaredInv
      <3>4. judged' = declared'
        BY <2>5 DEF WroteClose, InTime, SpecMoved, DeclaredInv
      <3> QED BY <3>3, <3>4 DEF DeclaredInv
    <2> QED BY <1>1, <2>1, <2>2, <2>3, <2>4, <2>5, ReconcileWrites
  <1>2. CASE SameStatus /\ UNCHANGED History /\ run' = run
    BY <1>2 DEF History, DeclaredInv
  <1>3. CASE /\ SameStatus /\ UNCHANGED History
             /\ run'.generation = run.generation + 1
    BY <1>0, <1>3 DEF SameStatus, History, DeclaredInv
  <1> QED BY <1>1, <1>2, <1>3, OtherSteps

(* A verdict is judged against the expectation that was declared when      *)
(* observation began, for every sequence of edits.                         *)
THEOREM VerdictsAreDeclared == Spec => []VerdictJudgesDeclaredSpec
  <1>1. Init => DeclaredInv
    <2> SUFFICES ASSUME Init PROVE DeclaredInv
      OBVIOUS
    <2>1. /\ run.phase = "Pending" /\ run.generation = 1
          /\ run.observedGeneration = 0
      BY NewRunFields DEF Init
    <2> QED BY <2>1 DEF DeclaredInv
  <1>2. DeclaredInv => VerdictJudgesDeclaredSpec
    BY DEF DeclaredInv, VerdictJudgesDeclaredSpec
  <1> QED BY <1>1, <1>2, TypeInvHolds, DeclaredStep, PTL DEF Spec

-----------------------------------------------------------------------------
(* What ties the two summary fields of a status to its trail: the run has  *)
(* been seen unhealthy iff the trail says so, and recoveredAt is the       *)
(* earliest Ready entry behind an unhealthy one.                           *)
Healed(obs, j) ==
    /\ obs[j].state = Ready
    /\ \E i \in 1..Len(obs) : i < j /\ obs[i].state # Ready

TrailOK(obs, bad, rec) ==
    /\ bad <=> \E i \in 1..Len(obs) : obs[i].state # Ready
    /\ rec # Never => \E j \in 1..Len(obs) : Healed(obs, j) /\ obs[j].at = rec
    /\ \A j \in 1..Len(obs) : Healed(obs, j) => rec # Never /\ rec <= obs[j].at

(* Recording a look keeps the tie, if time has not run backwards since the *)
(* recovery.                                                               *)
LEMMA RecordTrail ==
    ASSUME NEW r \in RunType, NEW state \in States, NEW at \in Nat,
           began \in Nat,
           TrailOK(r.observations, r.observedUnhealthy, r.recoveredAt),
           r.recoveredAt <= at
    PROVE  LET q == Record(r, state, at) IN
           /\ TrailOK(q.observations, q.observedUnhealthy, q.recoveredAt)
           /\ q.recoveredAt <= at
  <1> DEFINE old == r.observations
             bad == r.observedUnhealthy
             rec == r.recoveredAt
             q == Record(r, state, at)
             new == Appended(r, state, at)
             nbad == (bad \/ state # Ready)
             nrec == IF state = Ready /\ bad /\ rec = Never THEN at ELSE rec
  <1>1. /\ q.observations = new /\ q.observedUnhealthy = nbad
        /\ q.recoveredAt = nrec
    BY RecordType
  <1>2. old \in Seq(Observation) /\ bad \in BOOLEAN /\ rec \in Nat \cup {Never}
    BY DEF RunType
  <1>3. rec \in Int /\ at # Never
    BY <1>2 DEF Never
  <1>4. new = IF old # << >> /\ old[Len(old)].state = state
              THEN old ELSE Append(old, [state |-> state, at |-> at])
    BY DEF Appended
  <1>5. TrailOK(old, bad, rec) /\ rec <= at
    OBVIOUS
  <1> SUFFICES TrailOK(new, nbad, nrec) /\ nrec <= at
    BY <1>1
  <1> HIDE DEF old, bad, rec, new, q
  <1>6. nrec <= at
    BY <1>3, <1>5
  <1>7. CASE new = old /\ old # << >> /\ old[Len(old)].state = state
    <2>1. Len(old) \in 1..Len(old)
      BY <1>2, <1>7
    <2>2. nbad <=> bad
      BY <1>5, <1>7, <2>1 DEF TrailOK
    <2>3. nrec = rec
      <3> SUFFICES ASSUME state = Ready, bad, rec = Never PROVE FALSE
        OBVIOUS
      <3>1. PICK i \in 1..Len(old) : old[i].state # Ready
        BY <1>5 DEF TrailOK
      <3>2. i < Len(old)
        BY <1>2, <1>7, <2>1, <3>1
      <3>3. Healed(old, Len(old))
        BY <1>7, <3>1, <3>2 DEF Healed
      <3> QED BY <1>5, <2>1, <3>3 DEF TrailOK
    <2> HIDE DEF nrec, nbad
    <2> QED BY <1>5, <1>6, <1>7, <2>2, <2>3 DEF TrailOK
  <1>8. CASE new = Append(old, [state |-> state, at |-> at])
    <2> DEFINE n == Len(old)
    <2>1. n \in Nat
      BY <1>2
    <2>2. /\ Len(new) = n + 1
          /\ \A i \in 1..n : new[i] = old[i]
          /\ new[n + 1].state = state /\ new[n + 1].at = at
      BY <1>2, <1>8
    <2> HIDE DEF n
    <2>3. nbad <=> \E i \in 1..Len(new) : new[i].state # Ready
      <3>1. bad <=> \E i \in 1..n : old[i].state # Ready
        BY <1>5 DEF TrailOK, n
      <3>2. (\E i \in 1..(n + 1) : new[i].state # Ready)
               <=> \/ \E i \in 1..n : new[i].state # Ready
                   \/ new[n + 1].state # Ready
        BY <2>1
      <3>3. (\E i \in 1..n : new[i].state # Ready)
               <=> \E i \in 1..n : old[i].state # Ready
        BY <2>2
      <3> QED BY <2>2, <3>1, <3>2, <3>3
    <2>4. \A j \in 1..n : Healed(new, j) <=> Healed(old, j)
      BY <2>1, <2>2 DEF Healed, n
    <2>5. Healed(new, n + 1) <=> state = Ready /\ bad
      <3>1. bad <=> \E i \in 1..n : old[i].state # Ready
        BY <1>5 DEF TrailOK, n
      <3>2. (\E i \in 1..(n + 1) : i < n + 1 /\ new[i].state # Ready)
               <=> \E i \in 1..n : old[i].state # Ready
        BY <2>1, <2>2
      <3> QED BY <2>2, <3>1, <3>2 DEF Healed
    <2>6. nrec # Never => \E j \in 1..Len(new) : Healed(new, j) /\ new[j].at = nrec
      <3>1. CASE nrec = rec
        <4>1. rec # Never => \E j \in 1..n : Healed(old, j) /\ old[j].at = rec
          BY <1>5 DEF TrailOK, n
        <4> QED BY <2>1, <2>2, <2>4, <3>1, <4>1
      <3>2. CASE state = Ready /\ bad /\ rec = Never
        BY <2>1, <2>2, <2>5, <3>2
      <3> QED BY <3>1, <3>2
    <2>7. \A j \in 1..Len(new) :
              Healed(new, j) => nrec # Never /\ nrec <= new[j].at
      <3> SUFFICES ASSUME NEW j \in 1..(n + 1), Healed(new, j)
                   PROVE  nrec # Never /\ nrec <= new[j].at
        BY <2>2
      <3>1. CASE j \in 1..n
        <4>1. Healed(old, j) /\ new[j] = old[j]
          BY <2>2, <2>4, <3>1
        <4>2. rec # Never /\ rec <= old[j].at
          BY <1>5, <3>1, <4>1 DEF TrailOK, n
        <4> QED BY <4>1, <4>2
      <3>2. CASE j = n + 1
        <4>1. state = Ready /\ bad /\ new[j].at = at
          BY <2>2, <2>5, <3>2
        <4> QED BY <1>3, <1>5, <4>1
      <3> QED BY <2>1, <3>1, <3>2
    <2> HIDE DEF nrec, nbad
    <2> QED BY <1>6, <2>3, <2>6, <2>7 DEF TrailOK
  <1> QED BY <1>4, <1>7, <1>8

(* The tie holds throughout, the recovery lies in the past, and a verdict  *)
(* is what the recovery time says.                                         *)
TrailInv ==
    /\ TrailOK(run.observations, run.observedUnhealthy, run.recoveredAt)
    /\ run.phase = "Pending" => run.recoveredAt = Never
    /\ run.phase = "Observing"
           => /\ run.recoveredAt <= Since(run, now)
              /\ current => run.recoveredAt <= Since(run, began)
    /\ run.phase = "Complete"
           => (run.verdict = "Recovered"
                  <=> run.recoveredAt # Never /\ run.recoveredAt <= judged.within)

(* Every step keeps the tie. *)
LEMMA TrailStep == TypeInv /\ TrailInv /\ [Next]_vars => TrailInv'
  <1> SUFFICES ASSUME TypeInv, TrailInv, [Next]_vars PROVE TrailInv'
    OBVIOUS
  <1>0. /\ run \in RunType /\ now \in Nat /\ began \in Nat /\ began <= now
        /\ run.startedAt <= now
        /\ current => run.startedAt <= began
        /\ run.recoveredAt \in Int
    <2>1. /\ run \in RunType /\ now \in Nat /\ began \in Nat /\ began <= now
          /\ run.startedAt <= now
          /\ current => run.startedAt <= began
      BY DEF TypeInv, TypeOK, CacheInv, BegunInv
    <2>2. run.recoveredAt \in Nat \cup {Never}
      BY <2>1 DEF RunType
    <2>3. Never \in Int
      BY DEF Never
    <2> QED BY <2>1, <2>2, <2>3
  <1>1. CASE Reconcile
    <2>0. now' = now /\ current' = FALSE
      BY <1>1, ReconcileFlags DEF Return
    <2>1. CASE WroteNothing
      BY <2>0, <2>1 DEF WroteNothing, History, TrailInv, Since, Seconds
    <2>2. CASE WroteRefusal
      BY <1>0, <2>2, RefusedType DEF WroteRefusal, TrailInv
    <2>3. ASSUME NEW seen \in States, WroteStart(seen) PROVE TrailInv'
      <3>1. run.recoveredAt <= 0
        BY <2>3 DEF WroteStart, TrailInv, Never
      <3> DEFINE q == Record(run, seen, 0)
      <3>2. /\ TrailOK(q.observations, q.observedUnhealthy, q.recoveredAt)
            /\ q.recoveredAt <= 0
        BY <1>0, <3>1, RecordTrail DEF TrailInv
      <3>3. /\ run'.observations = q.observations
            /\ run'.observedUnhealthy = q.observedUnhealthy
            /\ run'.recoveredAt = q.recoveredAt
            /\ run'.phase = "Observing"
            /\ run' \in RunType
            /\ run'.startedAt = Stored(began)
        BY <1>0, <2>3, StartedType DEF WroteStart
      <3> HIDE DEF q
      <3>4. Since(run', now) \in Nat
        <4>1. Stored(began) \in Nat /\ Stored(began) <= began
          BY <1>0, SecondsFacts
        <4>2. run'.startedAt <= began
          BY <3>3, <4>1
        <4> QED BY <1>0, <3>3, <4>2, SinceGrows
      <3>5. run'.recoveredAt \in Int
        <4>1. run'.recoveredAt \in Nat \cup {Never}
          BY <3>3 DEF RunType
        <4> QED BY <4>1 DEF Never
      <3> QED BY <2>0, <3>2, <3>3, <3>4, <3>5 DEF TrailInv, Since, Seconds
    <2>4. ASSUME NEW seen \in States, InTime
          PROVE  LET q == Record(run, seen, Elapsed(run)) IN
                 /\ q \in RunType /\ q.phase = "Observing" /\ q.spec = run.spec
                 /\ q.startedAt = run.startedAt
                 /\ TrailOK(q.observations, q.observedUnhealthy, q.recoveredAt)
                 /\ q.recoveredAt <= Elapsed(run)
                 /\ Elapsed(run) \in Nat /\ Elapsed(run) = Since(run, began)
      <3>1. /\ run.recoveredAt <= Elapsed(run) /\ run.phase = "Observing"
            /\ Elapsed(run) \in Nat /\ Elapsed(run) = Since(run, began)
        BY <1>0, <2>4, ElapsedType DEF InTime, TrailInv
      <3> HIDE DEF Elapsed, Since
      <3> QED BY <1>0, <3>1, RecordType, RecordTrail DEF TrailInv
    <2>5. ASSUME NEW seen \in States, WroteLook(seen) PROVE TrailInv'
      <3>1. /\ run'.phase = "Observing" /\ run'.startedAt = run.startedAt
            /\ run' \in RunType
            /\ TrailOK(run'.observations, run'.observedUnhealthy, run'.recoveredAt)
            /\ run'.recoveredAt <= Since(run, began)
        BY <2>4, <2>5 DEF WroteLook
      <3>2. Since(run', now) = Since(run, now)
        BY <3>1 DEF Since
      <3>3. /\ Since(run, began) \in Nat /\ Since(run, now) \in Nat
            /\ Since(run, began) <= Since(run, now)
        BY <1>0, <2>5, SinceGrows DEF WroteLook, InTime
      <3>4. run'.recoveredAt \in Int
        <4>1. run'.recoveredAt \in Nat \cup {Never}
          BY <3>1 DEF RunType
        <4> QED BY <4>1 DEF Never
      <3>5. run'.recoveredAt <= Since(run', now)
        BY <3>1, <3>2, <3>3, <3>4
      <3>6. Since(run, now)' = Since(run', now)
        BY <2>0 DEF Since, Seconds
      <3> HIDE DEF Since
      <3> QED BY <2>0, <3>1, <3>5, <3>6 DEF TrailInv
    <2>6. ASSUME NEW seen \in States, WroteClose(seen) PROVE TrailInv'
      <3> DEFINE q == Record(run, seen, Elapsed(run))
      <3>1. /\ q \in RunType /\ q.spec = run.spec
            /\ TrailOK(q.observations, q.observedUnhealthy, q.recoveredAt)
        BY <2>4, <2>6 DEF WroteClose
      <3>2. run' = Closed(q) /\ judged' = run.spec
        BY <2>6 DEF WroteClose
      <3> HIDE DEF q
      <3>3. CASE q.observedUnhealthy
        BY <3>1, <3>2, <3>3, JudgedType DEF Closed, TrailInv
      <3>4. CASE ~q.observedUnhealthy
        BY <3>1, <3>2, <3>4, RefusedType DEF Closed, TrailInv
      <3> QED BY <3>3, <3>4
    <2> QED BY <1>1, <2>1, <2>2, <2>3, <2>5, <2>6, ReconcileWrites
  <1>2. CASE /\ SameStatus /\ UNCHANGED History /\ now' \in {now, now + 1}
             /\ current' => (current /\ began' = began) \/ began' = now
    <2>1. /\ Since(run, now) \in Nat /\ Since(run, now') \in Nat
          /\ Since(run, now) <= Since(run, now')
      <3>1. now' \in Nat /\ now <= now'
        BY <1>0, <1>2
      <3> QED BY <1>0, <3>1, SinceGrows
    <2>2. Since(run, now)' = Since(run, now')
      BY <1>2 DEF Since, Seconds, SameStatus
    <2>3. current' => \/ current /\ Since(run, began)' = Since(run, began)
                      \/ Since(run, began)' = Since(run, now)
      BY <1>2 DEF Since, Seconds, SameStatus
    <2> HIDE DEF Since
    <2> QED BY <1>0, <1>2, <2>1, <2>2, <2>3 DEF SameStatus, History, TrailInv
  <1> QED BY <1>1, <1>2, OtherSteps

(* A verdict can be read off the trail alone, for every sequence of looks, *)
(* restarts, stale copies and edits.                                       *)
THEOREM VerdictsAreInTheTrail == Spec => []VerdictIsInTheTrail
  <1>1. Init => TrailInv
    <2> SUFFICES ASSUME Init PROVE TrailInv
      OBVIOUS
    <2>1. /\ run.phase = "Pending" /\ run.observations = << >>
          /\ run.observedUnhealthy = FALSE /\ run.recoveredAt = Never
      BY NewRunFields DEF Init
    <2>2. TrailOK(<< >>, FALSE, Never)
      BY DEF TrailOK
    <2> QED BY <2>1, <2>2 DEF TrailInv
  <1>2. TypeInv /\ TrailInv => VerdictIsInTheTrail
    <2> SUFFICES ASSUME TypeInv, TrailInv, run.phase = "Complete"
                 PROVE  run.verdict = "Recovered"
                            <=> TrailShowsRecovery(run, judged.within)
      BY DEF VerdictIsInTheTrail
    <2> DEFINE obs == run.observations
               rec == run.recoveredAt
    <2>1. /\ obs \in Seq(Observation) /\ rec \in Nat \cup {Never}
          /\ judged \in Specs
      BY DEF TypeInv, TypeOK, RunType
    <2>2. judged.within \in Nat
      BY <2>1, SpecsAssumption
    <2>3. TrailOK(obs, run.observedUnhealthy, rec)
          /\ (run.verdict = "Recovered" <=> rec # Never /\ rec <= judged.within)
      BY DEF TrailInv
    <2>4. TrailShowsRecovery(run, judged.within)
              <=> \E j \in 1..Len(obs) : Healed(obs, j) /\ obs[j].at <= judged.within
      <3>1. ASSUME TrailShowsRecovery(run, judged.within)
            PROVE  \E j \in 1..Len(obs) :
                       Healed(obs, j) /\ obs[j].at <= judged.within
        BY <3>1, Zenon DEF TrailShowsRecovery, Healed
      <3>2. ASSUME NEW j \in 1..Len(obs), Healed(obs, j),
                   obs[j].at <= judged.within
            PROVE  TrailShowsRecovery(run, judged.within)
        BY <3>2, Zenon DEF TrailShowsRecovery, Healed
      <3> QED BY <3>1, <3>2
    <2>5. \A j \in 1..Len(obs) : obs[j].at \in Nat
      <3>1. \A j \in 1..Len(obs) : obs[j] \in Observation
        BY <2>1
      <3> QED BY <3>1 DEF Observation
    <2>6. rec \in Int
      <3> HIDE DEF rec, obs
      <3>1. Never \in Int
        BY DEF Never
      <3> QED BY <2>1, <3>1
    <2> HIDE DEF obs, rec
    <2> QED BY <2>2, <2>3, <2>4, <2>5, <2>6 DEF TrailOK
  <1> QED BY <1>1, <1>2, TypeInvHolds, TrailStep, PTL DEF Spec

-----------------------------------------------------------------------------
(* A write leaves something pending, unless the run it wrote has ended. *)
LEMMA UpdatePends ==
    ASSUME TypeInv, NEW r, NEW again \in BOOLEAN, Update(r, again),
           again \/ Terminal(r)
    PROVE  NoRunForgotten'
  <1>1. CASE current /\ run' = r /\ timer' = (timer \/ again)
    <2>1. CASE again
      BY <1>1, <2>1, Zenon DEF NoRunForgotten
    <2>2. CASE Terminal(r)
      BY <1>1, <2>2, Zenon DEF NoRunForgotten, Terminal
    <2> QED BY <2>1, <2>2
  <1>2. CASE ~current /\ due' = TRUE /\ UNCHANGED <<run, fresh, timer>>
    BY <1>2, Zenon DEF NoRunForgotten
  <1> QED BY <1>1, <1>2 DEF Update

(* What ends a run is terminal. *)
LEMMA EndingsAreTerminal ==
    ASSUME NEW r \in RunType
    PROVE  Terminal(Refused(r)) /\ Terminal(Closed(r))
  BY RefusedType, JudgedType DEF Terminal, Closed

(* A reconcile whose copy is old has an event to come, or had it already. *)
StaleIsSeen == Busy /\ ~current => due \/ ~fresh

(* Every step keeps it. *)
LEMMA StaleStep == TypeInv /\ StaleIsSeen /\ [Next]_vars => StaleIsSeen'
  <1> SUFFICES ASSUME TypeInv, StaleIsSeen, [Next]_vars PROVE StaleIsSeen'
    OBVIOUS
  <1>1. CASE Reconcile \/ CallFails \/ Restart
    BY <1>1 DEF Reconcile, CallFails, Restart, Return, Busy, StaleIsSeen
  <1>2. CASE Begin \/ SyncCache \/ TimerFires \/ EditSpec \/ Tick
    BY <1>2 DEF Begin, SyncCache, TimerFires, EditSpec, Tick, Pass, Busy,
                StaleIsSeen, TypeInv, TypeOK
  <1>3. CASE UNCHANGED vars
    BY <1>3 DEF vars, Busy, StaleIsSeen
  <1> QED BY <1>1, <1>2, <1>3 DEF Next

(* No run is forgotten: until it ends, the work queue, a timer or an       *)
(* undelivered event will bring it back to the reconciler.                 *)
THEOREM RunsAreNotForgotten == Spec => []NoRunForgotten
  <1>1. Init => NoRunForgotten
    BY DEF Init, NoRunForgotten
  <1>0. Init => StaleIsSeen
    BY DEF Init, Busy, StaleIsSeen
  <1>2. TypeInv /\ StaleIsSeen /\ NoRunForgotten /\ [Next]_vars => NoRunForgotten'
    <2> SUFFICES ASSUME TypeInv, StaleIsSeen, NoRunForgotten, [Next]_vars
                 PROVE  NoRunForgotten'
      OBVIOUS
    <2>1. Busy => held \in RunType /\ began \in Nat /\ held.startedAt <= began
      BY DEF TypeInv, TypeOK, BegunInv, Busy
    <2>2. ASSUME Busy, Refuse(held) PROVE NoRunForgotten'
      <3>1. Update(Refused(held), FALSE) /\ Terminal(Refused(held))
        BY <2>1, <2>2, EndingsAreTerminal DEF Refuse
      <3> QED BY <3>1, UpdatePends
    <2>3. ASSUME Busy, NEW seen \in Visible(held), Observe(held, seen)
          PROVE  NoRunForgotten'
      <3>1. seen # Absent => seen \in States
        BY DEF Visible
      <3>2. CASE Start(held, seen)
        <4>1. Update(Started(held, seen), TRUE)
          BY <3>2 DEF Start
        <4> QED BY <4>1, UpdatePends
      <3>3. CASE Look(held, seen)
        <4>1. Update(Record(held, seen, Elapsed(held)), TRUE)
          BY <3>3 DEF Look
        <4> QED BY <4>1, UpdatePends
      <3>4. CASE held.phase = "Observing" /\ seen # Absent /\ Close(held, seen)
        <4> DEFINE q == Record(held, seen, Elapsed(held))
        <4>1. Elapsed(held) \in Nat
          BY <2>1, <2>3, ElapsedType
        <4>2. q \in RunType
          BY <2>1, <2>3, <3>1, <3>4, <4>1, RecordType
        <4>3. Update(Closed(q), FALSE)
          BY <3>4 DEF Close
        <4> HIDE DEF q
        <4> QED BY <4>2, <4>3, EndingsAreTerminal, UpdatePends
      <3> QED BY <2>2, <2>3, <3>2, <3>3, <3>4, Zenon DEF Observe
    <2>4. CASE Reconcile
      <3>1. CASE Terminal(held) /\ UNCHANGED <<run, fresh, due, timer, History>>
        <4>1. Busy
          BY <2>4 DEF Reconcile
        <4>2. Terminal(run) \/ due \/ ~fresh
          BY <3>1, <4>1 DEF TypeInv, CacheInv, StaleIsSeen
        <4> QED BY <3>1, <4>2 DEF NoRunForgotten, Terminal
      <3>2. Busy
        BY <2>4 DEF Reconcile
      <3> QED BY <3>2,  <2>2, <2>3, <2>4, <3>1, Zenon DEF Reconcile
    <2>5. CASE \/ Begin \/ CallFails \/ SyncCache
               \/ TimerFires \/ Restart \/ EditSpec
      BY <2>1, <2>5, NoRunAssumption
         DEF Begin, CallFails, SyncCache, TimerFires, Restart, EditSpec,
             NoRunForgotten, Busy, TypeInv, TypeOK
    <2>6. CASE Tick
      BY <2>6 DEF Tick, Pass, Busy, NoRunForgotten, Terminal
    <2>7. CASE UNCHANGED vars
      BY <2>7 DEF vars, Busy, NoRunForgotten, Terminal
    <2> QED BY <2>4, <2>5, <2>6, <2>7 DEF Next
  <1> QED BY <1>0, <1>1, <1>2, TypeInvHolds, StaleStep, PTL DEF Spec

-----------------------------------------------------------------------------
(* NodeHealth: no status says Quarantine before the Node had the taint.    *)

NodeTypes == /\ node \in NodeType /\ nodeC \in NodeType /\ nodeFresh \in BOOLEAN
             /\ enforced \in BOOLEAN
StatusTypes == nh \in [Names -> Health] /\ nhC \in [Names -> Health] /\ nhFresh \in [Names -> BOOLEAN]
WorkTypes == /\ queue \in SUBSET Names /\ worker \in [name : Names \cup {Unset}, phase : Phases]
             /\ worker = Idle \/ worker.name \in Names

(* A taint of ours, on the Node or on its copy, was put there.             *)
NodeHonest == node.unhealthy \/ nodeC.unhealthy => enforced

(* Quarantine, about to be written, written or read, follows the taint.    *)
WorkHonest == worker.phase = "Quarantine" => enforced
StatusHonest == \A n \in Names :
    nh[n].phase = "Quarantine" \/ nhC[n].phase = "Quarantine" => enforced

HealthInv ==
    /\ HealthTypeOK
    /\ worker = Idle \/ worker.name \in Names
    /\ NodeHonest /\ WorkHonest /\ StatusHonest

LEMMA HealthParts ==
    ASSUME HealthInv
    PROVE  /\ NodeTypes /\ StatusTypes /\ WorkTypes /\ left \in [Disturbances -> Nat]
           /\ NodeHonest /\ WorkHonest /\ StatusHonest
BY DEF HealthInv, HealthTypeOK, NodeTypes, StatusTypes, WorkTypes

LEMMA HealthShown ==
    ASSUME NodeTypes', StatusTypes', WorkTypes', left' \in [Disturbances -> Nat],
           NodeHonest', WorkHonest', StatusHonest'
    PROVE  HealthInv'
BY DEF HealthInv, HealthTypeOK, NodeTypes, StatusTypes, WorkTypes

LEMMA NoneQuarantined ==
    /\ NoNode \in NodeType /\ ~NoNode.unhealthy
    /\ NoHealth \in Health /\ NoHealth.phase # "Quarantine"
    /\ NewHealth \in Health /\ NewHealth.phase # "Quarantine"
    /\ Idle \in [name : Names \cup {Unset}, phase : Phases] /\ Idle.phase # "Quarantine"
<1>1. Unset # "Quarantine" /\ Unset \in Phases
  BY DEF Unset, Phases
<1>2. NoNode \in NodeType /\ ~NoNode.unhealthy
  BY DEF NoNode, NodeType
<1>3. PICK b \in BOOLEAN : b = FALSE
  OBVIOUS
<1>4. PICK t \in BOOLEAN : t = TRUE
  OBVIOUS
<1>5. NoHealth = [exists |-> b, deleting |-> b, finalizer |-> b, phase |-> Unset]
  BY <1>3 DEF NoHealth
<1>6. NoHealth \in Health /\ NoHealth.phase # "Quarantine"
  BY <1>1, <1>5 DEF Health
<1>7. PICK h : h = [NoHealth EXCEPT !.exists = t]
  OBVIOUS
<1>8. NewHealth \in Health /\ NewHealth.phase # "Quarantine"
  <2>1. h \in Health /\ h.phase = NoHealth.phase
    BY <1>6, <1>7 DEF Health
  <2>2. NewHealth = h
    BY <1>4, <1>7 DEF NewHealth
  <2> QED BY <1>6, <2>1, <2>2
<1>9. Idle \in [name : Names \cup {Unset}, phase : Phases] /\ Idle.phase # "Quarantine"
  BY <1>1 DEF Idle
<1> QED BY <1>2, <1>6, <1>8, <1>9

LEMMA DesiredIs ==
    ASSUME NEW c \in NodeType
    PROVE  DesiredPhase(c) \in Phases /\ (DesiredPhase(c) = "Quarantine" => c.exists)
BY DEF DesiredPhase, Phases

(* The reconciler's patch, or its abstention.                              *)
LEMMA PatchIs ==
    ASSUME HealthInv, NEW t \in BOOLEAN, PatchNode(Tainted(nodeC, t))
    PROVE  NodeTypes' /\ NodeHonest' /\ (enforced \/ t => enforced')
<1>1. PICK c : c = Tainted(nodeC, t)
  OBVIOUS
<1>2. nodeC \in NodeType /\ node \in NodeType /\ enforced \in BOOLEAN
  BY HealthParts DEF NodeTypes
<1>3. c \in NodeType /\ (c.unhealthy <=> t) /\ c.unhealthy \in BOOLEAN
  BY <1>1, <1>2 DEF Tainted, NodeType
<1>4. PICK m : m = [node EXCEPT !.unhealthy = c.unhealthy, !.others = c.others]
  OBVIOUS
<1>5. m \in NodeType /\ (m.unhealthy <=> t)
  BY <1>2, <1>3, <1>4 DEF NodeType
<1>6. /\ node' = m /\ nodeC' = nodeC /\ nodeFresh' \in BOOLEAN
      /\ enforced' \in BOOLEAN /\ (enforced' <=> enforced \/ t)
  BY <1>1, <1>3, <1>4 DEF PatchNode
<1>7. NodeTypes'
  BY <1>2, <1>5, <1>6 DEF NodeTypes
<1>8. NodeHonest'
  BY <1>5, <1>6, HealthParts DEF NodeHonest
<1> QED BY <1>6, <1>7, <1>8

LEMMA KeptNode ==
    ASSUME HealthInv, KeepNode
    PROVE  NodeTypes' /\ NodeHonest' /\ enforced' = enforced
BY HealthParts DEF KeepNode, NodeTypes, NodeHonest

(* Statuses that are left, or of which one is written.                     *)
LEMMA StatusRests ==
    ASSUME HealthInv, enforced => enforced', UNCHANGED HealthVars
    PROVE  StatusTypes' /\ StatusHonest'
BY HealthParts DEF HealthVars, StatusTypes, StatusHonest

LEMMA StatusWritten ==
    ASSUME HealthInv, enforced => enforced', NEW n \in Names, NEW h \in Health,
           h.phase = "Quarantine" => enforced', WriteHealth(n, h)
    PROVE  StatusTypes' /\ StatusHonest'
<1>1. StatusTypes /\ StatusHonest
  BY HealthParts
<1>2. /\ nh' = [nh EXCEPT ![n] = h] /\ nhC' = nhC
      /\ \E b \in BOOLEAN : nhFresh' = [nhFresh EXCEPT ![n] = b]
  BY DEF WriteHealth
<1>3. StatusTypes'
  BY <1>1, <1>2 DEF StatusTypes
<1>4. StatusHonest'
  BY <1>1, <1>2 DEF StatusTypes, StatusHonest
<1> QED BY <1>3, <1>4

LEMMA Popped ==
    ASSUME HealthInv, enforced => enforced', NEW n \in Names, NEW h \in Health,
           h.phase = "Quarantine" => enforced', UpdatePopped(n, h)
    PROVE  StatusTypes' /\ StatusHonest' /\ queue' \in SUBSET Names
<1>1. queue \in SUBSET Names
  BY HealthParts DEF WorkTypes
<1> QED BY <1>1, StatusWritten, StatusRests DEF UpdatePopped

LEMMA WorkRests ==
    ASSUME HealthInv, enforced => enforced', worker' = worker, queue' \in SUBSET Names
    PROVE  WorkTypes' /\ WorkHonest'
BY HealthParts DEF WorkTypes, WorkHonest

LEMMA ReconcileKeeps ==
    ASSUME HealthInv, NEW n \in Names, ReconcileHealth(n)
    PROVE  HealthInv'
<1>1. /\ NodeTypes /\ StatusTypes /\ WorkTypes /\ left' \in [Disturbances -> Nat]
      /\ NodeHonest /\ StatusHonest
  BY HealthParts DEF ReconcileHealth
<1>2. nhC[n] \in Health /\ queue \in SUBSET Names /\ queue \ {n} \in SUBSET Names
  BY <1>1 DEF StatusTypes, WorkTypes
<1>3. CASE queue' = queue \ {n} /\ KeepNode /\ UNCHANGED <<HealthVars, worker>>
  BY <1>1, <1>2, <1>3, KeptNode, StatusRests, WorkRests, HealthShown
<1>4. CASE Finalize(n) /\ UNCHANGED worker
  <2>1. CASE queue' = queue \ {n} /\ KeepNode /\ UNCHANGED HealthVars
    BY <1>3, <1>4, <2>1
  <2>2. CASE /\ IF MustPatch(n) THEN PatchNode(Tainted(nodeC, FALSE)) ELSE KeepNode
             /\ UpdatePopped(n, NoHealth)
    <3>1. NodeTypes' /\ NodeHonest' /\ (enforced => enforced')
      <4>1. PICK b \in BOOLEAN : b = FALSE
        OBVIOUS
      <4>2. PatchNode(Tainted(nodeC, b)) \/ KeepNode
        BY <2>2, <4>1
      <4> QED BY <4>2, PatchIs, KeptNode
    <3>2. StatusTypes' /\ StatusHonest' /\ queue' \in SUBSET Names
      BY <2>2, <3>1, NoneQuarantined, Popped
    <3> QED BY <1>1, <1>4, <3>1, <3>2, WorkRests, HealthShown
  <2> QED BY <1>4, <2>1, <2>2 DEF Finalize
<1>5. CASE /\ UpdatePopped(n, [nhC[n] EXCEPT !.finalizer = TRUE])
           /\ KeepNode /\ UNCHANGED worker
  <2>1. PICK t \in BOOLEAN : t = TRUE
    OBVIOUS
  <2>2. PICK h : h = [nhC[n] EXCEPT !.finalizer = t]
    OBVIOUS
  <2>3. h \in Health /\ h.phase = nhC[n].phase
    BY <1>2, <2>2 DEF Health
  <2>4. UpdatePopped(n, h)
    BY <1>5, <2>1, <2>2
  <2>5. NodeTypes' /\ NodeHonest' /\ enforced' = enforced
    BY <1>5, KeptNode
  <2>6. h.phase = "Quarantine" => enforced'
    BY <1>1, <2>3, <2>5 DEF StatusHonest
  <2>7. StatusTypes' /\ StatusHonest' /\ queue' \in SUBSET Names
    BY <2>3, <2>4, <2>5, <2>6, Popped
  <2> QED BY <1>1, <1>5, <2>5, <2>7, WorkRests, HealthShown
<1>6. CASE ~nhC[n].deleting /\ Enforce(n)
  <2>1. PICK p : p = DesiredPhase(nodeC)
    OBVIOUS
  <2>2. nodeC \in NodeType /\ p \in Phases /\ (p = "Quarantine" => nodeC.exists)
    BY <1>1, <2>1, DesiredIs DEF NodeTypes
  <2>3. PICK t \in BOOLEAN : t = (p = "Quarantine")
    OBVIOUS
  <2>4. /\ IF MustPatch(n) THEN PatchNode(Tainted(nodeC, t)) ELSE KeepNode
        /\ worker' = [name |-> n, phase |-> p]
        /\ queue' = queue \ {n} /\ UNCHANGED HealthVars
    BY <1>6, <2>1, <2>3 DEF Enforce
  <2>5. NodeTypes' /\ NodeHonest' /\ (enforced => enforced')
    BY <2>4, PatchIs, KeptNode
  <2>6. ASSUME p = "Quarantine" PROVE enforced'
    <3>1. CASE MustPatch(n)
      BY <2>3, <2>4, <2>6, <3>1, PatchIs
    <3>2. CASE ~MustPatch(n)
      <4>1. nodeC.unhealthy = (~nhC[n].deleting /\ p = "Quarantine")
        BY <2>1, <2>2, <2>6, <3>2 DEF MustPatch
      <4>2. enforced
        BY <1>1, <1>6, <2>6, <4>1 DEF NodeHonest
      <4> QED BY <2>5, <4>2
    <3> QED BY <3>1, <3>2
  <2>7. WorkTypes' /\ WorkHonest'
    BY <1>2, <2>2, <2>4, <2>6 DEF WorkTypes, WorkHonest
  <2> QED BY <1>1, <2>4, <2>5, <2>7, StatusRests, HealthShown
<1>7. CASE PatchFails(n)
  BY <1>1, <1>2, <1>7, KeptNode, StatusRests, WorkRests, HealthShown DEF PatchFails
<1> QED BY <1>3, <1>4, <1>5, <1>6, <1>7 DEF ReconcileHealth

LEMMA StatusStep == ASSUME HealthInv, WriteStatus PROVE HealthInv'
<1>1. /\ NodeTypes /\ StatusTypes /\ WorkTypes /\ left \in [Disturbances -> Nat]
      /\ NodeHonest /\ WorkHonest /\ StatusHonest
  BY HealthParts
<1>2. worker # Idle /\ worker' = Idle /\ UNCHANGED <<NodeVars, enforced, left>>
  BY DEF WriteStatus
<1>3. NodeTypes' /\ NodeHonest' /\ left' \in [Disturbances -> Nat]
  BY <1>1, <1>2 DEF NodeVars, NodeTypes, NodeHonest
<1>4. PICK n \in Names : n = worker.name
  BY <1>1, <1>2 DEF WorkTypes
<1>5. nhC[n] \in Health /\ queue \in SUBSET Names /\ worker.phase \in Phases
  BY <1>1 DEF StatusTypes, WorkTypes
<1>6. PICK h : h = [nhC[n] EXCEPT !.phase = worker.phase]
  OBVIOUS
<1>7. h \in Health /\ h.phase = worker.phase
  BY <1>5, <1>6 DEF Health
<1>8. \/ UNCHANGED <<HealthVars, queue>>
      \/ UpdateHealth(n, h)
  BY <1>4, <1>6 DEF WriteStatus
<1>9. StatusTypes' /\ StatusHonest' /\ queue' \in SUBSET Names
  <2>1. (enforced => enforced') /\ (h.phase = "Quarantine" => enforced')
    BY <1>1, <1>2, <1>7 DEF WorkHonest
  <2> QED BY <1>5, <1>7, <1>8, <2>1, StatusWritten, StatusRests DEF UpdateHealth
<1>10. WorkTypes' /\ WorkHonest'
  BY <1>2, <1>9, NoneQuarantined DEF WorkTypes, WorkHonest
<1> QED BY <1>3, <1>9, <1>10, HealthShown

LEMMA SpentIs ==
    ASSUME left \in [Disturbances -> Nat], NEW b \in Disturbances, Spend(b)
    PROVE  left' \in [Disturbances -> Nat]
<1>1. left[b] \in Nat /\ left[b] > 0 /\ left' = [left EXCEPT ![b] = left[b] - 1]
  BY DEF Spend
<1> QED BY <1>1

LEMMA RestartKeeps == ASSUME HealthInv, Crash PROVE HealthInv'
<1>1. /\ NodeTypes /\ StatusTypes /\ WorkTypes /\ left \in [Disturbances -> Nat]
      /\ NodeHonest /\ WorkHonest /\ StatusHonest
  BY HealthParts
<1>2. NodeTypes' /\ NodeHonest'
  BY <1>1 DEF Crash, NodeTypes, NodeHonest
<1>3. StatusTypes' /\ StatusHonest'
  <2>1. PICK t \in BOOLEAN : nhFresh' = [n \in Names |-> t]
    BY DEF Crash
  <2> QED BY <1>1, <2>1 DEF Crash, StatusTypes, StatusHonest
<1>4. WorkTypes' /\ WorkHonest'
  BY NoneQuarantined DEF Crash, WorkTypes, WorkHonest
<1>5. left' \in [Disturbances -> Nat]
  BY <1>1, SpentIs DEF Crash, Disturbances
<1> QED BY <1>2, <1>3, <1>4, <1>5, HealthShown

LEMMA WatchesKeep ==
    ASSUME HealthInv, SyncNode \/ \E n \in Names : SyncHealth(n) PROVE HealthInv'
<1>1. /\ NodeTypes /\ StatusTypes /\ WorkTypes /\ left \in [Disturbances -> Nat]
      /\ NodeHonest /\ WorkHonest /\ StatusHonest
  BY HealthParts
<1>2. CASE SyncNode
  <2>1. UNCHANGED <<node, HealthVars, worker, enforced, left>>
        /\ nodeC' = node /\ nodeFresh' = TRUE /\ queue' \in SUBSET Names
    BY <1>1, <1>2 DEF SyncNode, WorkTypes
  <2>2. NodeTypes' /\ NodeHonest'
    BY <1>1, <2>1 DEF NodeTypes, NodeHonest
  <2> QED BY <1>1, <2>1, <2>2, StatusRests, WorkRests, HealthShown
<1>3. ASSUME NEW n \in Names, SyncHealth(n) PROVE HealthInv'
  <2>1. /\ UNCHANGED <<NodeVars, nh, worker, enforced, left>>
        /\ nhC' = [nhC EXCEPT ![n] = nh[n]] /\ queue' \in SUBSET Names
        /\ \E t \in BOOLEAN : nhFresh' = [nhFresh EXCEPT ![n] = t]
    BY <1>1, <1>3 DEF SyncHealth, WorkTypes
  <2>2. NodeTypes' /\ NodeHonest'
    BY <1>1, <2>1 DEF NodeVars, NodeTypes, NodeHonest
  <2>3. StatusTypes' /\ StatusHonest'
    BY <1>1, <2>1 DEF StatusTypes, StatusHonest
  <2> QED BY <1>1, <2>1, <2>2, <2>3, WorkRests, HealthShown
<1> QED BY <1>2, <1>3

(* What other actors do to the Node: none of them puts our taint on it.    *)
LEMMA ChangedNode ==
    ASSUME HealthInv, NEW m \in NodeType, m.unhealthy => node.unhealthy, NodeWith(m),
           left' \in [Disturbances -> Nat]
    PROVE  HealthInv'
<1>1. NodeTypes /\ NodeHonest /\ queue \in SUBSET Names
  BY HealthParts DEF WorkTypes
<1>2. /\ node' = m /\ nodeFresh' = FALSE
      /\ UNCHANGED <<nodeC, HealthVars, queue, worker, enforced>>
  BY DEF NodeWith
<1>3. NodeTypes' /\ NodeHonest'
  BY <1>1, <1>2 DEF NodeTypes, NodeHonest
<1> QED BY <1>1, <1>2, <1>3, StatusRests, WorkRests, HealthShown

LEMMA ClusterKeeps ==
    ASSUME HealthInv, Flip \/ OtherActor \/ Vanish \/ Join PROVE HealthInv'
<1>1. node \in NodeType /\ left \in [Disturbances -> Nat]
  BY HealthParts DEF NodeTypes
<1>2. /\ "flips" \in Disturbances /\ "taintings" \in Disturbances
      /\ "vanish" \in Disturbances
  BY DEF Disturbances
<1>3. CASE Flip
  <2>1. PICK m : m = [node EXCEPT !.ready = ~@]
    OBVIOUS
  <2>2. m \in NodeType /\ m.unhealthy = node.unhealthy
    BY <1>1, <2>1 DEF NodeType
  <2> QED BY <1>1, <1>2, <1>3, <2>1, <2>2, SpentIs, ChangedNode DEF Flip
<1>4. CASE OtherActor
  <2>1. PICK t \in OtherTaints :
          NodeWith([node EXCEPT !.others = IF t \in @ THEN @ \ {t} ELSE @ \cup {t}])
    BY <1>4 DEF OtherActor
  <2>2. PICK o : o = IF t \in node.others THEN node.others \ {t} ELSE node.others \cup {t}
    OBVIOUS
  <2>3. o \in SUBSET OtherTaints
    BY <1>1, <2>2 DEF NodeType
  <2>4. PICK m : m = [node EXCEPT !.others = o]
    OBVIOUS
  <2>5. m \in NodeType /\ m.unhealthy = node.unhealthy
    BY <1>1, <2>3, <2>4 DEF NodeType
  <2>6. NodeWith(m)
    BY <2>1, <2>2, <2>4
  <2> QED BY <1>1, <1>2, <1>4, <2>5, <2>6, SpentIs, ChangedNode DEF OtherActor
<1>5. CASE Vanish
  BY <1>1, <1>2, <1>5, NoneQuarantined, SpentIs, ChangedNode DEF Vanish
<1>6. CASE Join
  <2>1. PICK m : m = [NoNode EXCEPT !.exists = TRUE, !.ready = TRUE]
    OBVIOUS
  <2>2. m \in NodeType /\ ~m.unhealthy
    BY <2>1, NoneQuarantined DEF NodeType
  <2> QED BY <1>1, <1>6, <2>1, <2>2, ChangedNode DEF Join
<1> QED BY <1>3, <1>4, <1>5, <1>6

LEMMA DeletionKeeps == ASSUME HealthInv, NEW n \in Names, Delete(n) PROVE HealthInv'
<1>1. /\ NodeTypes /\ StatusTypes /\ WorkTypes /\ left \in [Disturbances -> Nat]
      /\ NodeHonest /\ StatusHonest
  BY HealthParts
<1>2. UNCHANGED <<NodeVars, queue, worker, enforced>> /\ Spend("deletes")
  BY DEF Delete
<1>3. NodeTypes' /\ NodeHonest'
  BY <1>1, <1>2 DEF NodeVars, NodeTypes, NodeHonest
<1>4. left' \in [Disturbances -> Nat]
  BY <1>1, <1>2, SpentIs DEF Disturbances
<1>5. nh[n] \in Health
  BY <1>1 DEF StatusTypes
<1>6. PICK t \in BOOLEAN : t = TRUE
  OBVIOUS
<1>7. PICK d : d = [nh[n] EXCEPT !.deleting = t]
  OBVIOUS
<1>8. d \in Health /\ d.phase = nh[n].phase
  BY <1>5, <1>7 DEF Health
<1>9. PICK h \in {d, NoHealth} : WriteHealth(n, h)
  BY <1>6, <1>7 DEF Delete
<1>10. h \in Health /\ (h.phase = "Quarantine" => enforced')
  BY <1>1, <1>2, <1>8, <1>9, NoneQuarantined DEF StatusHonest
<1>11. StatusTypes' /\ StatusHonest'
  BY <1>2, <1>9, <1>10, StatusWritten
<1> QED BY <1>1, <1>2, <1>3, <1>4, <1>11, WorkRests, HealthShown DEF WorkTypes

LEMMA HealthBegins == ASSUME HealthInit PROVE HealthInv
<1>1. PICK t \in BOOLEAN : t = TRUE
  OBVIOUS
<1>2. PICK b \in BOOLEAN : b = FALSE
  OBVIOUS
<1>3. PICK m : m = [NoNode EXCEPT !.exists = t, !.ready = t]
  OBVIOUS
<1>4. m \in NodeType /\ ~m.unhealthy
  BY <1>3, NoneQuarantined DEF NodeType
<1>5. node = m /\ nodeC = m /\ nodeFresh = t /\ enforced = b
  BY <1>1, <1>2, <1>3 DEF HealthInit
<1>6. NodeTypes /\ NodeHonest
  BY <1>4, <1>5 DEF NodeTypes, NodeHonest
<1>7. nh = [n \in Names |-> NewHealth] /\ nhC = nh /\ nhFresh = [n \in Names |-> t]
  BY <1>1 DEF HealthInit
<1>8. StatusTypes /\ StatusHonest
  BY <1>7, NoneQuarantined DEF StatusTypes, StatusHonest
<1>9. queue \in SUBSET Names /\ worker = Idle /\ left \in [Disturbances -> Nat]
  BY BudgetsAssumption DEF HealthInit
<1> QED BY <1>6, <1>8, <1>9, NoneQuarantined DEF HealthInv, HealthTypeOK, NodeTypes, StatusTypes, WorkHonest

LEMMA HealthStep == ASSUME HealthInv, [HealthNext]_systemVars PROVE HealthInv'
<1>1. CASE UNCHANGED systemVars
  BY <1>1 DEF systemVars, HealthInv, HealthTypeOK, NodeHonest, WorkHonest, StatusHonest
<1>2. CASE Operator
  BY <1>2, ReconcileKeeps, StatusStep DEF Operator
<1> QED BY <1>1, <1>2, RestartKeeps, WatchesKeep, ClusterKeeps, DeletionKeeps DEF HealthNext

LEMMA HealthInductive == HealthSpec => []HealthInv
BY HealthBegins, HealthStep, PTL DEF HealthSpec

(* Every variable of NodeHealth keeps its type, for any NodeHealths, other *)
(* actors' taints and disturbances (nodehealth_controller.go).             *)
THEOREM HealthTypeCorrect == HealthSpec => []HealthTypeOK
<1>1. HealthInv => HealthTypeOK
  BY DEF HealthInv
<1> QED BY <1>1, HealthInductive, PTL

(* Whatever a restart, a conflict or a stale copy interrupts, no status    *)
(* says Quarantine before the taint has been on the Node                   *)
(* (nodehealth_controller.go:125).                                         *)
THEOREM QuarantinesAreEnforced == HealthSpec => []QuarantineWasEnforced
<1>1. HealthInv => QuarantineWasEnforced
  BY DEF HealthInv, StatusHonest, QuarantineWasEnforced
<1> QED BY <1>1, HealthInductive, PTL

-----------------------------------------------------------------------------
(* The registry of scrapers.                                               *)

(* Who holds the mutex, how far the shutdown has come and what the janitor   *)
(* still has to visit.                                                     *)
LocksOK ==
    /\ stopped <=> stopper.pc # "idle"
    /\ mu = "janitor" <=> janitor.pc \in {"sweep", "join"}
    /\ janitor.pc # "join" => janitor.stopping = {}
    /\ janitor.pc \notin {"sweep", "join"} => janitor.todo = {}
    /\ janitor.pc = "done" => stopper.pc # "idle"
    /\ stopper.pc # "stopping" => stopper.left = {}
    /\ stopper.pc \in {"stopping", "returned"} =>
          janitor.pc = "done" /\ \A k \in Keys : scrapers[k] = NoGen

(* Every scraper that has not exited for good belongs to exactly one party:   *)
(* the map, the janitor, an Unregister or Stop.                             *)
OwnedOK ==
    /\ \A s \in Scrapers : scrapers[s[1]] = s[2] => gor[s] = "running"
    /\ \A s \in janitor.stopping :
          gor[s] \in {"stopping", "exited"} /\ s \notin unreg /\ scrapers[s[1]] = NoGen
    /\ \A s, t \in janitor.stopping : s = t
    /\ \A s \in unreg : gor[s] \in {"stopping", "exited"} /\ s[1] \in UnregisterKeys
    /\ \A s \in stopper.left : gor[s] # "none" /\ s \notin unreg
    /\ \A s, t \in stopper.left : s[1] = t[1] => s = t
    /\ \A s \in Scrapers :
          gor[s] # "none" => \/ scrapers[s[1]] = s[2]
                             \/ s \in janitor.stopping \cup unreg \cup stopper.left

(* What the sweep compares: the stamp is the last route of a mapped key, the  *)
(* cutoff is at least IdleTimeout ago, and a key to visit is in the map.      *)
RoutesOK ==
    /\ \A k \in Keys : scrapers[k] # NoGen => lastRouted[k] = routedAt[k]
    /\ janitor.pc \in {"lock", "sweep", "join"} => janitor.cutoff <= clock - IdleTimeout
    /\ \A k \in janitor.todo : scrapers[k] # NoGen

ManagerInv == ManagerTypeOK /\ LocksOK /\ OwnedOK /\ RoutesOK /\ NoOrphanGauge

-----------------------------------------------------------------------------
(* A scraper object is the pair of its key and its identity.                *)
LEMMA ScraperPairs ==
    /\ \A s \in Scrapers : s[1] \in Keys /\ s[2] \in Gens /\ s = <<s[1], s[2]>>
    /\ \A k \in Keys, g \in Gens :
          <<k, g>> \in Scrapers /\ <<k, g>>[1] = k /\ <<k, g>>[2] = g
  BY DEF Scrapers

(* The scraper of a mapped key, and what is known of it.                    *)
LEMMA MappedScraper ==
    ASSUME ManagerInv, NEW k \in Keys, scrapers[k] # NoGen
    PROVE  /\ scrapers[k] \in Gens /\ <<k, scrapers[k]>> \in Scrapers
           /\ gor[<<k, scrapers[k]>>] = "running"
           /\ <<k, scrapers[k]>> \notin janitor.stopping \cup unreg \cup stopper.left
           /\ \A s \in Scrapers : s[1] = k /\ s[2] = scrapers[k] => s = <<k, scrapers[k]>>
           /\ stopper.left = {}
  <1>1. scrapers[k] \in Gens
    BY DEF ManagerInv, ManagerTypeOK
  <1>2. /\ <<k, scrapers[k]>> \in Scrapers
        /\ <<k, scrapers[k]>>[1] = k /\ <<k, scrapers[k]>>[2] = scrapers[k]
    BY <1>1, ScraperPairs
  <1>3. gor[<<k, scrapers[k]>>] = "running"
    BY <1>2 DEF ManagerInv, OwnedOK
  <1>4. stopper.left = {}
    BY DEF ManagerInv, LocksOK
  <1>5. <<k, scrapers[k]>> \notin janitor.stopping \cup unreg
    BY <1>3 DEF ManagerInv, OwnedOK
  <1> QED BY <1>1, <1>2, <1>3, <1>4, <1>5, ScraperPairs

(* A step that touches neither the maps nor a goroutine nor a gauge.        *)
LEMMA QuietStepKeeps ==
    ASSUME ManagerInv, UNCHANGED <<scrapers, lastRouted, gor, gauges, unreg, routedAt>>,
           janitor'.stopping = janitor.stopping, stopper'.left = stopper.left,
           stopped => stopped'
    PROVE  OwnedOK' /\ NoOrphanGauge'
  <1>1. OwnedOK'
    BY DEF ManagerInv, OwnedOK
  <1>2. NoOrphanGauge'
    BY DEF ManagerInv, NoOrphanGauge, Live, LocksOK, ManagerTypeOK
  <1> QED BY <1>1, <1>2

(* A request registers its backend.                                        *)
LEMMA RegisterKeeps ==
    ASSUME ManagerInv, NEW k \in Keys, Register(k)
    PROVE  ManagerInv'
  <1>1. /\ mu = "free" /\ ~stopped
        /\ routedAt' = [routedAt EXCEPT ![k] = clock]
        /\ lastRouted' = [lastRouted EXCEPT ![k] = clock]
        /\ UNCHANGED <<clock, mu, stopped, gauges, janitor, stopper, unreg>>
    BY DEF Register
  <1>2. /\ stopper.pc = "idle" /\ stopper.left = {} /\ janitor.stopping = {}
        /\ janitor.todo = {}
    BY <1>1 DEF ManagerInv, LocksOK, ManagerTypeOK
  <1>3. CASE scrapers[k] # NoGen
    <2>1. scrapers' = scrapers /\ gor' = gor
      BY <1>3 DEF Register
    <2>2. ManagerTypeOK' /\ LocksOK'
      BY <1>1, <2>1 DEF ManagerInv, ManagerTypeOK, LocksOK
    <2>3. RoutesOK'
      BY <1>1, <1>2, <2>1 DEF ManagerInv, RoutesOK, ManagerTypeOK
    <2>4. OwnedOK' /\ NoOrphanGauge'
      BY <1>1, <2>1 DEF ManagerInv, OwnedOK, NoOrphanGauge, Live
    <2> QED BY <2>2, <2>3, <2>4 DEF ManagerInv
  <1>4. CASE scrapers[k] = NoGen
    <2>1. PICK g \in Gens : /\ gor[<<k, g>>] = "none"
                            /\ scrapers' = [scrapers EXCEPT ![k] = g]
                            /\ gor' = [gor EXCEPT ![<<k, g>>] = "running"]
      BY <1>4 DEF Register
    <2>2. <<k, g>> \in Scrapers /\ <<k, g>>[1] = k /\ <<k, g>>[2] = g
      BY ScraperPairs
    <2>3. ManagerTypeOK' /\ LocksOK'
      BY <1>1, <1>2, <2>1, <2>2 DEF ManagerInv, ManagerTypeOK, LocksOK, GorStates
    <2>4. RoutesOK'
      BY <1>1, <1>2, <2>1 DEF ManagerInv, RoutesOK, ManagerTypeOK
    <2>5. gor'[<<k, g>>] = "running"
          /\ \A s \in Scrapers \ {<<k, g>>} : gor'[s] = gor[s]
      BY <2>1, <2>2 DEF ManagerInv, ManagerTypeOK
    <2>6. \A s \in Scrapers : scrapers'[s[1]] = s[2] <=> s = <<k, g>> \/ scrapers[s[1]] = s[2]
      <3>1. ASSUME NEW s \in Scrapers, s[1] = k
            PROVE  scrapers'[s[1]] = s[2] <=> s = <<k, g>> \/ scrapers[s[1]] = s[2]
        BY <1>4, <2>1, <3>1, ScraperPairs, ManagerAssumption DEF ManagerInv, ManagerTypeOK
      <3>2. ASSUME NEW s \in Scrapers, s[1] # k
            PROVE  scrapers'[s[1]] = s[2] <=> s = <<k, g>> \/ scrapers[s[1]] = s[2]
        BY <2>1, <2>2, <3>2, ScraperPairs DEF ManagerInv, ManagerTypeOK
      <3> QED BY <3>1, <3>2
    <2>7. <<k, g>> \notin unreg
      BY <2>1 DEF ManagerInv, OwnedOK
    <2>8. unreg \subseteq Scrapers
      BY DEF ManagerInv, ManagerTypeOK
    <2>9. OwnedOK'
      BY <1>1, <1>2, <2>5, <2>6, <2>7, <2>8 DEF ManagerInv, OwnedOK
    <2>10. NoOrphanGauge'
      <3>1. \A h \in Keys, j \in Gens : Live(h, j) => Live(h, j)'
        BY <2>1, <2>5, ScraperPairs DEF Live
      <3> QED BY <1>1, <3>1 DEF ManagerInv, NoOrphanGauge, ManagerTypeOK
    <2> QED BY <2>3, <2>4, <2>9, <2>10 DEF ManagerInv
  <1> QED BY <1>3, <1>4

(* A scraper leaves the map: its goroutine is told to stop and its new owner  *)
(* is the one that took it, an Unregister or the janitor.                   *)
LEMMA DetachKeeps ==
    ASSUME ManagerInv, NEW k \in Keys, scrapers[k] # NoGen,
           scrapers' = [scrapers EXCEPT ![k] = NoGen],
           lastRouted' = [lastRouted EXCEPT ![k] = NeverRouted],
           gor' = [gor EXCEPT ![<<k, scrapers[k]>>] = "stopping"],
           UNCHANGED <<clock, mu, stopped, gauges, stopper, routedAt>>,
           \/ /\ k \in UnregisterKeys /\ mu = "free" /\ janitor' = janitor
              /\ unreg' = unreg \cup {<<k, scrapers[k]>>}
           \/ /\ unreg' = unreg /\ janitor.stopping = {}
              /\ janitor'.stopping = {<<k, scrapers[k]>>}
    PROVE  OwnedOK' /\ NoOrphanGauge' /\ gor' \in [Scrapers -> GorStates]
           /\ scrapers' \in [Keys -> Gens \cup {NoGen}] /\ unreg' \subseteq Scrapers
  <1> DEFINE x == <<k, scrapers[k]>>
  <1>1. /\ x \in Scrapers /\ gor[x] = "running" /\ x[1] = k /\ x[2] = scrapers[k]
        /\ x \notin janitor.stopping \cup unreg \cup stopper.left
        /\ \A s \in Scrapers : s[1] = k /\ s[2] = scrapers[k] => s = x
        /\ stopper.left = {} /\ scrapers[k] \in Gens
    BY MappedScraper
  <1>2. gor'[x] = "stopping" /\ \A s \in Scrapers \ {x} : gor'[s] = gor[s]
    BY <1>1 DEF ManagerInv, ManagerTypeOK
  <1>3. gor' \in [Scrapers -> GorStates]
    BY <1>1 DEF ManagerInv, ManagerTypeOK, GorStates
  <1>4. /\ scrapers' \in [Keys -> Gens \cup {NoGen}]
        /\ scrapers'[k] = NoGen /\ \A h \in Keys \ {k} : scrapers'[h] = scrapers[h]
    BY DEF ManagerInv, ManagerTypeOK
  <1>5. unreg' \subseteq Scrapers /\ unreg \subseteq Scrapers /\ janitor.stopping \subseteq Scrapers
        /\ janitor'.stopping \subseteq Scrapers
    BY <1>1 DEF ManagerInv, ManagerTypeOK
  <1> HIDE DEF x
  <1>6. \A s \in Scrapers : scrapers'[s[1]] = s[2] <=> s # x /\ scrapers[s[1]] = s[2]
    <2>1. ASSUME NEW s \in Scrapers, s[1] = k
          PROVE  scrapers'[s[1]] = s[2] <=> s # x /\ scrapers[s[1]] = s[2]
      BY <1>1, <1>4, <2>1, ScraperPairs, ManagerAssumption
    <2>2. ASSUME NEW s \in Scrapers, s[1] # k
          PROVE  scrapers'[s[1]] = s[2] <=> s # x /\ scrapers[s[1]] = s[2]
      BY <1>1, <1>4, <2>2, ScraperPairs
    <2> QED BY <2>1, <2>2
  <1>7. janitor.stopping \cup unreg \cup {x} = janitor'.stopping \cup unreg'
    BY DEF x
  <1>8. OwnedOK'
    <2>1. \A s \in Scrapers : scrapers'[s[1]] = s[2] => gor'[s] = "running"
      BY <1>2, <1>6 DEF ManagerInv, OwnedOK
    <2>2. \A s \in janitor'.stopping :
             gor'[s] \in {"stopping", "exited"} /\ s \notin unreg' /\ scrapers'[s[1]] = NoGen
      <3>1. CASE janitor' = janitor /\ unreg' = unreg \cup {x}
        <4>1. \A s \in janitor.stopping : s[1] \in Keys
          BY <1>5, ScraperPairs
        <4> QED BY <1>1, <1>2, <1>4, <1>5, <3>1, <4>1 DEF ManagerInv, OwnedOK
      <3>2. CASE janitor'.stopping = {x} /\ unreg' = unreg
        BY <1>1, <1>2, <1>4, <3>2
      <3> QED BY <3>1, <3>2 DEF x
    <2>3. \A s, t \in janitor'.stopping : s = t
      BY DEF ManagerInv, OwnedOK
    <2>4. \A s \in unreg' : gor'[s] \in {"stopping", "exited"} /\ s[1] \in UnregisterKeys
      <3>1. CASE k \in UnregisterKeys /\ unreg' = unreg \cup {x}
        BY <1>1, <1>2, <1>5, <3>1 DEF ManagerInv, OwnedOK
      <3>2. CASE unreg' = unreg
        BY <1>1, <1>2, <1>5, <3>2 DEF ManagerInv, OwnedOK
      <3> QED BY <3>1, <3>2 DEF x
    <2>5. stopper'.left = {}
      BY <1>1
    <2>6. \A s \in Scrapers :
            gor'[s] # "none" => \/ scrapers'[s[1]] = s[2]
                                \/ s \in janitor'.stopping \cup unreg' \cup stopper'.left
      BY <1>1, <1>2, <1>6, <1>7 DEF ManagerInv, OwnedOK
    <2> QED BY <2>1, <2>2, <2>3, <2>4, <2>5, <2>6 DEF OwnedOK
  <1>9. NoOrphanGauge'
    <2> SUFFICES ASSUME ~stopped, NEW h \in gauges
                 PROVE  \E j \in Gens :
                           Live(h, j)' \/ <<h, j>> \in janitor'.stopping \cup unreg'
      BY DEF NoOrphanGauge
    <2>1. PICK j \in Gens : Live(h, j) \/ <<h, j>> \in janitor.stopping \cup unreg
      BY DEF ManagerInv, NoOrphanGauge
    <2>2. h \in Keys /\ <<h, j>> \in Scrapers
      BY ScraperPairs DEF ManagerInv, ManagerTypeOK
    <2> QED BY <1>2, <1>7, <2>1, <2>2 DEF Live
  <1> QED BY <1>3, <1>4, <1>5, <1>8, <1>9

(* Unregister takes a key out of the map.                                   *)
LEMMA UnregisterDetachKeeps ==
    ASSUME ManagerInv, NEW k \in Keys, UnregisterDetach(k)
    PROVE  ManagerInv'
  <1>1. /\ OwnedOK' /\ NoOrphanGauge' /\ gor' \in [Scrapers -> GorStates]
        /\ scrapers' \in [Keys -> Gens \cup {NoGen}] /\ unreg' \subseteq Scrapers
    BY DetachKeeps DEF UnregisterDetach
  <1>2. /\ mu = "free" /\ lastRouted' = [lastRouted EXCEPT ![k] = NeverRouted]
        /\ scrapers' = [scrapers EXCEPT ![k] = NoGen]
        /\ UNCHANGED <<clock, mu, stopped, gauges, janitor, stopper, routedAt>>
    BY DEF UnregisterDetach
  <1>3. NeverRouted \in Int
    BY ManagerAssumption DEF NeverRouted
  <1>4. ManagerTypeOK'
    BY <1>1, <1>2, <1>3 DEF ManagerInv, ManagerTypeOK
  <1>5. LocksOK'
    BY <1>2 DEF ManagerInv, LocksOK, ManagerTypeOK
  <1>6. RoutesOK'
    BY <1>2 DEF ManagerInv, RoutesOK, LocksOK, ManagerTypeOK
  <1> QED BY <1>1, <1>4, <1>5, <1>6 DEF ManagerInv

(* The janitor takes an idle key out of the map.                            *)
LEMMA JanitorEvictKeeps ==
    ASSUME ManagerInv, NEW k \in Keys, JanitorEvict(k)
    PROVE  ManagerInv'
  <1>1. /\ janitor.pc = "sweep" /\ k \in janitor.todo
        /\ scrapers' = [scrapers EXCEPT ![k] = NoGen]
        /\ lastRouted' = [lastRouted EXCEPT ![k] = NeverRouted]
        /\ gor' = [gor EXCEPT ![<<k, scrapers[k]>>] = "stopping"]
        /\ janitor' = [janitor EXCEPT !.pc = "join", !.todo = @ \ {k},
                                      !.stopping = {<<k, scrapers[k]>>}]
        /\ UNCHANGED <<clock, mu, stopped, gauges, stopper, unreg, routedAt>>
    BY DEF JanitorEvict
  <1>2. scrapers[k] # NoGen /\ janitor.stopping = {}
    BY <1>1 DEF ManagerInv, RoutesOK, LocksOK
  <1>3. <<k, scrapers[k]>> \in Scrapers
    BY <1>2, MappedScraper
  <1>4. /\ janitor'.pc = "join" /\ janitor'.todo = janitor.todo \ {k}
        /\ janitor'.stopping = {<<k, scrapers[k]>>} /\ janitor'.cutoff = janitor.cutoff
        /\ janitor' \in [pc : {"select", "lock", "sweep", "join", "done"}, cutoff : Int,
                         todo : SUBSET Keys, stopping : SUBSET Scrapers]
    BY <1>1, <1>3 DEF ManagerInv, ManagerTypeOK
  <1>5. /\ OwnedOK' /\ NoOrphanGauge' /\ gor' \in [Scrapers -> GorStates]
        /\ scrapers' \in [Keys -> Gens \cup {NoGen}] /\ unreg' \subseteq Scrapers
    BY <1>1, <1>2, <1>4, DetachKeeps
  <1>6. NeverRouted \in Int
    BY ManagerAssumption DEF NeverRouted
  <1>7. ManagerTypeOK'
    BY <1>1, <1>4, <1>5, <1>6 DEF ManagerInv, ManagerTypeOK
  <1>8. LocksOK'
    BY <1>1, <1>2, <1>4 DEF ManagerInv, LocksOK, ManagerTypeOK
  <1>9. RoutesOK'
    BY <1>1, <1>4 DEF ManagerInv, RoutesOK, ManagerTypeOK
  <1> QED BY <1>5, <1>7, <1>8, <1>9 DEF ManagerInv

(* Whoever joins a scraper forgets it and, but for Stop, deletes its gauges.  *)
LEMMA JoinKeeps ==
    ASSUME ManagerInv, NEW x \in Scrapers, gor[x] = "exited",
           gor' = [gor EXCEPT ![x] = "none"],
           UNCHANGED <<scrapers, lastRouted, stopped, routedAt, clock, mu>>,
           \/ /\ gauges' = gauges \ {x[1]}
              /\ \/ janitor'.stopping = janitor.stopping \ {x} /\ unreg' = unreg
                 \/ unreg' = unreg \ {x} /\ janitor'.stopping = janitor.stopping
              /\ stopper' = stopper
           \/ /\ gauges' = gauges /\ unreg' = unreg /\ janitor' = janitor /\ stopped
              /\ stopper'.left = stopper.left \ {x}
           ,
           x \notin janitor'.stopping \cup unreg' \cup stopper'.left
    PROVE  OwnedOK' /\ NoOrphanGauge' /\ gor' \in [Scrapers -> GorStates]
  <1>1. gor'[x] = "none" /\ \A s \in Scrapers \ {x} : gor'[s] = gor[s]
    BY DEF ManagerInv, ManagerTypeOK
  <1>2. gor' \in [Scrapers -> GorStates]
    BY DEF ManagerInv, ManagerTypeOK, GorStates
  <1>3. /\ janitor'.stopping \subseteq janitor.stopping \ {x}
        /\ unreg' \subseteq unreg \ {x}
        /\ stopper'.left \subseteq stopper.left \ {x}
        /\ janitor.stopping \subseteq Scrapers /\ unreg \subseteq Scrapers
        /\ stopper.left \subseteq Scrapers
        /\ janitor.stopping \ {x} \subseteq janitor'.stopping
        /\ unreg \ {x} \subseteq unreg' /\ stopper.left \ {x} \subseteq stopper'.left
    BY DEF ManagerInv, ManagerTypeOK
  <1>4. \A s \in Scrapers : scrapers[s[1]] = s[2] => s # x
    BY DEF ManagerInv, OwnedOK
  <1>5. OwnedOK'
    <2>1. \A s \in Scrapers : scrapers'[s[1]] = s[2] => gor'[s] = "running"
      BY <1>1, <1>4 DEF ManagerInv, OwnedOK
    <2>2. \A s \in janitor'.stopping :
             gor'[s] \in {"stopping", "exited"} /\ s \notin unreg' /\ scrapers'[s[1]] = NoGen
      BY <1>1, <1>3 DEF ManagerInv, OwnedOK
    <2>3. \A s, t \in janitor'.stopping : s = t
      BY <1>3 DEF ManagerInv, OwnedOK
    <2>4. \A s \in unreg' : gor'[s] \in {"stopping", "exited"} /\ s[1] \in UnregisterKeys
      BY <1>1, <1>3 DEF ManagerInv, OwnedOK
    <2>5. \A s \in stopper'.left : gor'[s] # "none" /\ s \notin unreg'
      BY <1>1, <1>3 DEF ManagerInv, OwnedOK
    <2>6. \A s, t \in stopper'.left : s[1] = t[1] => s = t
      BY <1>3 DEF ManagerInv, OwnedOK
    <2>7. \A s \in Scrapers :
            gor'[s] # "none" => \/ scrapers'[s[1]] = s[2]
                                \/ s \in janitor'.stopping \cup unreg' \cup stopper'.left
      BY <1>1, <1>3 DEF ManagerInv, OwnedOK
    <2> QED BY <2>1, <2>2, <2>3, <2>4, <2>5, <2>6, <2>7 DEF OwnedOK
  <1>6. NoOrphanGauge'
    <2> SUFFICES ASSUME ~stopped, NEW h \in gauges'
                 PROVE  \E j \in Gens :
                           Live(h, j)' \/ <<h, j>> \in janitor'.stopping \cup unreg'
      BY DEF NoOrphanGauge
    <2>1. h \in gauges /\ h # x[1]
      OBVIOUS
    <2>2. PICK j \in Gens : Live(h, j) \/ <<h, j>> \in janitor.stopping \cup unreg
      BY <2>1 DEF ManagerInv, NoOrphanGauge
    <2>3. h \in Keys /\ <<h, j>> \in Scrapers /\ <<h, j>> # x
      BY <2>1, ScraperPairs DEF ManagerInv, ManagerTypeOK
    <2> QED BY <1>1, <1>3, <2>2, <2>3 DEF Live
  <1> QED BY <1>2, <1>5, <1>6

(* Unregister's wait is over.                                               *)
LEMMA UnregisterFinishKeeps ==
    ASSUME ManagerInv, NEW s \in Scrapers, UnregisterFinish(s)
    PROVE  ManagerInv'
  <1>1. /\ s \in unreg /\ gor[s] = "exited" /\ unreg' = unreg \ {s}
        /\ gor' = [gor EXCEPT ![s] = "none"] /\ gauges' = gauges \ {s[1]}
        /\ UNCHANGED <<clock, mu, scrapers, lastRouted, stopped, janitor, stopper, routedAt>>
    BY DEF UnregisterFinish
  <1>2. s \notin janitor.stopping \cup stopper.left
    BY <1>1 DEF ManagerInv, OwnedOK
  <1>3. OwnedOK' /\ NoOrphanGauge' /\ gor' \in [Scrapers -> GorStates]
    BY <1>1, <1>2, JoinKeeps
  <1>4. ManagerTypeOK' /\ LocksOK' /\ RoutesOK'
    BY <1>1, <1>3 DEF ManagerInv, ManagerTypeOK, LocksOK, RoutesOK
  <1> QED BY <1>3, <1>4 DEF ManagerInv

(* The janitor's wait is over.                                              *)
LEMMA JanitorJoinKeeps ==
    ASSUME ManagerInv, NEW s \in Scrapers, JanitorJoin(s)
    PROVE  ManagerInv'
  <1>1. /\ janitor.pc = "join" /\ s \in janitor.stopping /\ gor[s] = "exited"
        /\ gor' = [gor EXCEPT ![s] = "none"] /\ gauges' = gauges \ {s[1]}
        /\ janitor' = [janitor EXCEPT !.pc = "sweep", !.stopping = {}]
        /\ UNCHANGED <<clock, mu, scrapers, lastRouted, stopped, stopper, unreg, routedAt>>
    BY DEF JanitorJoin
  <1>2. janitor.stopping = {s} /\ s \notin unreg
    BY <1>1 DEF ManagerInv, OwnedOK
  <1>3. /\ janitor'.pc = "sweep" /\ janitor'.stopping = {} /\ janitor'.todo = janitor.todo
        /\ janitor'.cutoff = janitor.cutoff
        /\ janitor' \in [pc : {"select", "lock", "sweep", "join", "done"}, cutoff : Int,
                         todo : SUBSET Keys, stopping : SUBSET Scrapers]
    BY <1>1 DEF ManagerInv, ManagerTypeOK
  <1>4. stopper.left = {}
    BY <1>1 DEF ManagerInv, LocksOK
  <1>5. OwnedOK' /\ NoOrphanGauge' /\ gor' \in [Scrapers -> GorStates]
    BY <1>1, <1>2, <1>3, <1>4, JoinKeeps
  <1>6. ManagerTypeOK'
    BY <1>1, <1>3, <1>5 DEF ManagerInv, ManagerTypeOK
  <1>7. LocksOK' /\ RoutesOK'
    BY <1>1, <1>3 DEF ManagerInv, LocksOK, RoutesOK
  <1> QED BY <1>5, <1>6, <1>7 DEF ManagerInv

(* Stop joins one scraper.                                                  *)
LEMMA StopJoinKeeps ==
    ASSUME ManagerInv, NEW s \in Scrapers, StopJoin(s)
    PROVE  ManagerInv'
  <1>1. /\ stopper.pc = "stopping" /\ s \in stopper.left /\ gor[s] = "exited"
        /\ gor' = [gor EXCEPT ![s] = "none"]
        /\ stopper' = [stopper EXCEPT !.left = @ \ {s}]
        /\ UNCHANGED <<clock, mu, scrapers, lastRouted, stopped, gauges, janitor, unreg, routedAt>>
    BY DEF StopJoin
  <1>2. /\ stopper'.pc = "stopping" /\ stopper'.left = stopper.left \ {s}
        /\ stopper' \in [pc : {"idle", "joinJanitor", "stopping", "returned"},
                         left : SUBSET Scrapers]
    BY <1>1 DEF ManagerInv, ManagerTypeOK
  <1>3. stopped /\ janitor.stopping = {} /\ s \notin unreg
    BY <1>1 DEF ManagerInv, LocksOK, OwnedOK
  <1>4. OwnedOK' /\ NoOrphanGauge' /\ gor' \in [Scrapers -> GorStates]
    BY <1>1, <1>2, <1>3, JoinKeeps
  <1>5. ManagerTypeOK'
    BY <1>1, <1>2, <1>4 DEF ManagerInv, ManagerTypeOK
  <1>6. LocksOK' /\ RoutesOK'
    BY <1>1, <1>2 DEF ManagerInv, LocksOK, RoutesOK
  <1> QED BY <1>4, <1>5, <1>6 DEF ManagerInv

(* A scraper moves on: told to stop by Stop, or exiting.                     *)
LEMMA ScraperMovesKeeps ==
    ASSUME ManagerInv, NEW x \in Scrapers, Exit(x) \/ StopSignal(x)
    PROVE  ManagerInv'
  <1>1. UNCHANGED <<clock, mu, scrapers, lastRouted, stopped, gauges, janitor, stopper,
                    unreg, routedAt>>
    BY DEF Exit, StopSignal
  <1>2. PICK v \in {"stopping", "exited"} :
          /\ gor' = [gor EXCEPT ![x] = v] /\ gor[x] # "none"
          /\ \/ gor[x] = "stopping" /\ v = "exited"
             \/ x \in stopper.left
    BY DEF Exit, StopSignal
  <1>3. gor'[x] = v /\ \A s \in Scrapers \ {x} : gor'[s] = gor[s]
    BY <1>2 DEF ManagerInv, ManagerTypeOK
  <1>4. scrapers[x[1]] # x[2]
    <2>1. CASE gor[x] = "stopping"
      BY <2>1 DEF ManagerInv, OwnedOK
    <2>2. CASE x \in stopper.left
      <3>1. scrapers[x[1]] = NoGen
        BY <2>2, ScraperPairs DEF ManagerInv, LocksOK
      <3> QED BY <3>1, ScraperPairs, ManagerAssumption
    <2> QED BY <1>2, <2>1, <2>2
  <1>5. /\ janitor.stopping \subseteq Scrapers /\ unreg \subseteq Scrapers
        /\ stopper.left \subseteq Scrapers
    BY DEF ManagerInv, ManagerTypeOK
  <1>6. ManagerTypeOK' /\ LocksOK' /\ RoutesOK'
    BY <1>1, <1>2 DEF ManagerInv, ManagerTypeOK, LocksOK, RoutesOK, GorStates
  <1>7. OwnedOK'
    BY <1>1, <1>2, <1>3, <1>4, <1>5 DEF ManagerInv, OwnedOK
  <1>8. NoOrphanGauge'
    <2> SUFFICES ASSUME ~stopped, NEW h \in gauges
                 PROVE  \E j \in Gens :
                           Live(h, j)' \/ <<h, j>> \in janitor.stopping \cup unreg
      BY <1>1 DEF NoOrphanGauge
    <2>1. PICK j \in Gens : Live(h, j) \/ <<h, j>> \in janitor.stopping \cup unreg
      BY DEF ManagerInv, NoOrphanGauge
    <2>2. h \in Keys /\ <<h, j>> \in Scrapers /\ <<h, j>>[1] = h /\ <<h, j>>[2] = j
      BY ScraperPairs DEF ManagerInv, ManagerTypeOK
    <2>3. CASE <<h, j>> = x
      <3>1. stopper.left = {}
        BY DEF ManagerInv, LocksOK, ManagerTypeOK
      <3>2. x \in janitor.stopping \cup unreg
        BY <1>2, <1>4, <3>1 DEF ManagerInv, OwnedOK
      <3> QED BY <2>3, <3>2
    <2>4. CASE <<h, j>> # x
      BY <1>3, <2>1, <2>2, <2>4 DEF Live
    <2> QED BY <2>3, <2>4
  <1> QED BY <1>6, <1>7, <1>8 DEF ManagerInv

(* A live scraper publishes.                                                *)
LEMMA PublishKeeps ==
    ASSUME ManagerInv, NEW x \in Scrapers, Publish(x)
    PROVE  ManagerInv'
  <1>1. /\ gor[x] \in {"running", "stopping"} /\ gauges' = gauges \cup {x[1]}
        /\ UNCHANGED <<clock, mu, scrapers, lastRouted, stopped, gor, janitor, stopper,
                       unreg, routedAt>>
    BY DEF Publish
  <1>2. x[1] \in Keys /\ x[2] \in Gens /\ x = <<x[1], x[2]>>
    BY ScraperPairs
  <1>3. Live(x[1], x[2])'
    BY <1>1, <1>2 DEF Live
  <1>4. NoOrphanGauge'
    BY <1>1, <1>2, <1>3 DEF ManagerInv, NoOrphanGauge, Live
  <1>5. ManagerTypeOK' /\ LocksOK' /\ RoutesOK'
    BY <1>1, <1>2 DEF ManagerInv, ManagerTypeOK, LocksOK, RoutesOK
  <1>6. OwnedOK'
    BY <1>1 DEF ManagerInv, OwnedOK
  <1> QED BY <1>4, <1>5, <1>6 DEF ManagerInv

(* The janitor's other steps: it reads its cutoff, takes the lock, keeps a    *)
(* key, unlocks, exits.                                                    *)
LEMMA JanitorMovesKeeps ==
    ASSUME ManagerInv, \/ JanitorTick \/ JanitorLock \/ JanitorUnlock \/ JanitorExit
                 \/ \E k \in Keys : JanitorKeep(k)
    PROVE  ManagerInv'
  <1>1. /\ UNCHANGED <<clock, scrapers, lastRouted, stopped, gor, gauges, stopper, unreg,
                       routedAt>>
        /\ janitor'.stopping = janitor.stopping
    BY DEF JanitorTick, JanitorLock, JanitorUnlock, JanitorExit, JanitorKeep, ManagerInv, ManagerTypeOK
  <1>2. OwnedOK' /\ NoOrphanGauge'
    BY <1>1, QuietStepKeeps
  <1>3. ManagerTypeOK' /\ LocksOK' /\ RoutesOK'
    <2>1. CASE JanitorTick
      <3>1. clock - IdleTimeout \in Int /\ clock - IdleTimeout <= clock - IdleTimeout
        BY ManagerAssumption DEF ManagerInv, ManagerTypeOK
      <3> QED BY <2>1, <3>1 DEF JanitorTick, ManagerInv, ManagerTypeOK, LocksOK, RoutesOK
    <2>2. CASE JanitorLock
      BY <2>2 DEF JanitorLock, ManagerInv, ManagerTypeOK, LocksOK, RoutesOK
    <2>3. CASE JanitorUnlock
      <3>1. /\ janitor.pc = "sweep" /\ janitor.todo = {} /\ mu' = "free"
            /\ janitor' = [janitor EXCEPT !.pc = "select", !.cutoff = 0]
            /\ UNCHANGED <<clock, scrapers, lastRouted, stopped, gor, gauges, stopper, unreg,
                           routedAt>>
        BY <2>3 DEF JanitorUnlock
      <3>2. PICK c \in Int : c = 0
        OBVIOUS
      <3>6. janitor' = [janitor EXCEPT !.pc = "select", !.cutoff = c]
        BY <3>1, <3>2
      <3>7. /\ janitor'.pc = "select" /\ janitor'.cutoff = c /\ janitor'.todo = {}
            /\ janitor'.stopping = janitor.stopping
            /\ janitor' \in [pc : {"select", "lock", "sweep", "join", "done"}, cutoff : Int,
                             todo : SUBSET Keys, stopping : SUBSET Scrapers]
        BY <3>1, <3>6 DEF ManagerInv, ManagerTypeOK
      <3>3. ManagerTypeOK'
        BY <3>1, <3>7 DEF ManagerInv, ManagerTypeOK
      <3>4. LocksOK'
        BY <3>1, <3>7 DEF ManagerInv, LocksOK
      <3>5. RoutesOK'
        BY <3>1, <3>7 DEF ManagerInv, RoutesOK
      <3> QED BY <3>3, <3>4, <3>5
    <2>4. CASE JanitorExit
      BY <2>4 DEF JanitorExit, ManagerInv, ManagerTypeOK, LocksOK, RoutesOK
    <2>5. ASSUME NEW k \in Keys, JanitorKeep(k) PROVE ManagerTypeOK' /\ LocksOK' /\ RoutesOK'
      BY <2>5 DEF JanitorKeep, ManagerInv, ManagerTypeOK, LocksOK, RoutesOK
    <2> QED BY <2>1, <2>2, <2>3, <2>4, <2>5
  <1> QED BY <1>2, <1>3 DEF ManagerInv

(* Stop is called, returns, or time passes.                                 *)
LEMMA StopMovesKeeps ==
    ASSUME ManagerInv, StopBegin \/ StopReturn \/ Advance
    PROVE  ManagerInv'
  <1>1. /\ UNCHANGED <<mu, scrapers, lastRouted, gor, gauges, janitor, unreg, routedAt>>
        /\ stopper'.left = stopper.left /\ (stopped => stopped')
    BY DEF StopBegin, StopReturn, Advance, ManagerInv, ManagerTypeOK
  <1>2. OwnedOK' /\ NoOrphanGauge'
    BY <1>1, QuietStepKeeps
  <1>3. ManagerTypeOK' /\ LocksOK' /\ RoutesOK'
    <2>1. CASE StopBegin
      BY <2>1 DEF StopBegin, ManagerInv, ManagerTypeOK, LocksOK, RoutesOK
    <2>2. CASE StopReturn
      BY <2>2 DEF StopReturn, ManagerInv, ManagerTypeOK, LocksOK, RoutesOK
    <2>3. CASE Advance
      <3>1. clock' \in Nat /\ clock <= clock'
        BY <2>3 DEF Advance, ManagerInv, ManagerTypeOK
      <3>2. janitor.cutoff <= clock - IdleTimeout => janitor.cutoff <= clock' - IdleTimeout
        BY <2>3, ManagerAssumption DEF Advance, ManagerInv, ManagerTypeOK
      <3> QED BY <2>3, <3>1, <3>2 DEF Advance, ManagerInv, ManagerTypeOK, LocksOK, RoutesOK
    <2> QED BY <2>1, <2>2, <2>3
  <1> QED BY <1>2, <1>3 DEF ManagerInv

(* Stop takes every scraper of the map at once.                             *)
LEMMA StopTakeKeeps ==
    ASSUME ManagerInv, StopTake
    PROVE  ManagerInv'
  <1> DEFINE L == {s \in Scrapers : scrapers[s[1]] = s[2]}
  <1>1. /\ stopper.pc = "joinJanitor" /\ janitor.pc = "done" /\ mu = "free"
        /\ stopper' = [pc |-> "stopping", left |-> L]
        /\ scrapers' = [k \in Keys |-> NoGen]
        /\ lastRouted' = [k \in Keys |-> NeverRouted]
        /\ UNCHANGED <<clock, mu, stopped, gor, gauges, janitor, unreg, routedAt>>
    BY DEF StopTake
  <1>2. L \subseteq Scrapers /\ \A s \in L : gor[s] = "running" /\ s \notin unreg
    BY DEF ManagerInv, OwnedOK
  <1>3. \A s, t \in L : s[1] = t[1] => s = t
    BY ScraperPairs
  <1>4. /\ \A s \in Scrapers : scrapers'[s[1]] # s[2]
        /\ \A k \in Keys : scrapers'[k] = NoGen
    BY <1>1, ScraperPairs, ManagerAssumption
  <1>5. stopper.left = {} /\ janitor.stopping = {} /\ janitor.todo = {} /\ stopped
    BY <1>1 DEF ManagerInv, LocksOK, ManagerTypeOK
  <1>6. \A s \in Scrapers : gor[s] # "none" => s \in L \cup unreg
    BY <1>5 DEF ManagerInv, OwnedOK
  <1> HIDE DEF L
  <1>7. NeverRouted \in Int
    BY ManagerAssumption DEF NeverRouted
  <1>8. stopper'.pc = "stopping" /\ stopper'.left = L
        /\ stopper' \in [pc : {"idle", "joinJanitor", "stopping", "returned"},
                         left : SUBSET Scrapers]
    BY <1>1, <1>2
  <1>9. ManagerTypeOK'
    BY <1>1, <1>7, <1>8 DEF ManagerInv, ManagerTypeOK
  <1>10. LocksOK' /\ RoutesOK'
    BY <1>1, <1>4, <1>5, <1>8 DEF ManagerInv, LocksOK, RoutesOK
  <1>11. OwnedOK'
    BY <1>1, <1>2, <1>3, <1>4, <1>5, <1>6, <1>8 DEF ManagerInv, OwnedOK
  <1>12. NoOrphanGauge'
    BY <1>1, <1>5 DEF NoOrphanGauge
  <1> QED BY <1>9, <1>10, <1>11, <1>12 DEF ManagerInv

(* Every goroutine keeps the invariant.                                     *)
LEMMA ManagerInvHolds == ManagerSpec => []ManagerInv
  <1>1. ASSUME ManagerInit PROVE ManagerInv
    <2>1. NeverRouted \in Int
      BY ManagerAssumption DEF NeverRouted
    <2>2. ManagerTypeOK
      <3>1. /\ scrapers \in [Keys -> Gens \cup {NoGen}] /\ gor \in [Scrapers -> GorStates]
            /\ lastRouted \in [Keys -> Int] /\ routedAt \in [Keys -> Int]
        BY <1>1, <2>1 DEF ManagerInit, GorStates
      <3>2. janitor \in [pc : {"select", "lock", "sweep", "join", "done"}, cutoff : Int,
                         todo : SUBSET Keys, stopping : SUBSET Scrapers]
        BY <1>1 DEF ManagerInit
      <3>3. stopper \in [pc : {"idle", "joinJanitor", "stopping", "returned"},
                         left : SUBSET Scrapers]
        BY <1>1 DEF ManagerInit
      <3> QED BY <1>1, <3>1, <3>2, <3>3 DEF ManagerInit, ManagerTypeOK
    <2>3. LocksOK /\ RoutesOK /\ NoOrphanGauge
      BY <1>1 DEF ManagerInit, LocksOK, RoutesOK, NoOrphanGauge
    <2>4. OwnedOK
      BY <1>1, ScraperPairs, ManagerAssumption DEF ManagerInit, OwnedOK
    <2> QED BY <2>2, <2>3, <2>4 DEF ManagerInv
  <1>2. ASSUME ManagerInv, [ManagerNext]_managerVars PROVE ManagerInv'
    <2>1. CASE UNCHANGED managerVars
      <3>1. OwnedOK' /\ NoOrphanGauge'
        BY <1>2, <2>1, QuietStepKeeps DEF managerVars
      <3> QED BY <1>2, <2>1, <3>1 DEF managerVars, ManagerInv, ManagerTypeOK, LocksOK, RoutesOK
    <2>2. CASE Janitor
      BY <1>2, <2>2, JanitorMovesKeeps, JanitorEvictKeeps, JanitorJoinKeeps DEF Janitor
    <2> QED BY <1>2, <2>1, <2>2, RegisterKeeps, UnregisterDetachKeeps, UnregisterFinishKeeps,
               PublishKeeps, ScraperMovesKeeps, StopMovesKeeps, StopTakeKeeps, StopJoinKeeps
            DEF ManagerNext
  <1> QED BY <1>1, <1>2, PTL DEF ManagerSpec

-----------------------------------------------------------------------------
(* The variables keep their types.                                         *)
THEOREM ManagerTypeCorrect == ManagerSpec => []ManagerTypeOK
  <1>1. ManagerInv => ManagerTypeOK
    BY DEF ManagerInv
  <1> QED BY <1>1, ManagerInvHolds, PTL

(* kvguard.go:608-619: a mapped scraper is running, and no interleaving of    *)
(* requests, sweep and Stop makes it run beside another one of its backend.  *)
THEOREM MapStaysTrue == ManagerSpec => []MapIsTrue
  <1>1. ASSUME ManagerInv PROVE MapIsTrue
    <2>1. ASSUME NEW k \in Keys, scrapers[k] # NoGen
          PROVE  gor[<<k, scrapers[k]>>] = "running"
      BY <1>1, <2>1, MappedScraper
    <2>2. ASSUME NEW k \in Keys \ UnregisterKeys
          PROVE  Cardinality({g \in Gens : Live(k, g)}) <= 1
      <3>1. ASSUME NEW g \in Gens, NEW h \in Gens, Live(k, g), Live(k, h)
            PROVE  g = h
        <4>1. /\ <<k, g>> \in Scrapers /\ <<k, h>> \in Scrapers
              /\ <<k, g>>[1] = k /\ <<k, h>>[1] = k /\ <<k, g>>[2] = g /\ <<k, h>>[2] = h
          BY ScraperPairs
        <4>2. gor[<<k, g>>] # "none" /\ gor[<<k, h>>] # "none"
          BY <3>1 DEF Live
        <4>3. <<k, g>> \notin unreg /\ <<k, h>> \notin unreg
          BY <1>1, <2>2, <4>1 DEF ManagerInv, OwnedOK
        <4>4. /\ scrapers[k] = g \/ <<k, g>> \in janitor.stopping \cup stopper.left
              /\ scrapers[k] = h \/ <<k, h>> \in janitor.stopping \cup stopper.left
          BY <1>1, <4>1, <4>2, <4>3 DEF ManagerInv, OwnedOK
        <4>5. CASE stopper.left # {}
          <5>1. janitor.stopping = {} /\ scrapers[k] = NoGen
            BY <1>1, <4>5 DEF ManagerInv, LocksOK, ManagerTypeOK
          <5>2. <<k, g>> \in stopper.left /\ <<k, h>> \in stopper.left
            BY <4>4, <5>1, ManagerAssumption
          <5> QED BY <1>1, <4>1, <5>2 DEF ManagerInv, OwnedOK
        <4>6. CASE stopper.left = {} /\ scrapers[k] = NoGen
          <5>1. <<k, g>> \in janitor.stopping /\ <<k, h>> \in janitor.stopping
            BY <4>4, <4>6, ManagerAssumption
          <5> QED BY <1>1, <4>1, <5>1 DEF ManagerInv, OwnedOK
        <4>7. CASE stopper.left = {} /\ scrapers[k] # NoGen
          <5>1. <<k, g>> \notin janitor.stopping /\ <<k, h>> \notin janitor.stopping
            BY <1>1, <4>1, <4>7 DEF ManagerInv, OwnedOK
          <5> QED BY <4>4, <4>7, <5>1
        <4> QED BY <4>5, <4>6, <4>7
      <3>2. CASE {g \in Gens : Live(k, g)} = {}
        BY <3>2, FS_EmptySet
      <3>3. CASE {g \in Gens : Live(k, g)} # {}
        <4>1. PICK g \in Gens : Live(k, g)
          BY <3>3
        <4>2. {h \in Gens : Live(k, h)} = {g}
          BY <3>1, <4>1
        <4>3. Cardinality({g}) = 1
          BY FS_Singleton
        <4> QED BY <4>2, <4>3
      <3> QED BY <3>2, <3>3
    <2> QED BY <2>1, <2>2 DEF MapIsTrue
  <1> QED BY <1>1, ManagerInvHolds, PTL

(* kvguard.go:580-584: no live series outlasts the scraper that publishes it. *)
THEOREM GaugesHaveOwners == ManagerSpec => []NoOrphanGauge
  <1>1. ManagerInv => NoOrphanGauge
    BY DEF ManagerInv
  <1> QED BY <1>1, ManagerInvHolds, PTL

(* kvguard.go:539-545: once Stop has returned the only scrapers left are those *)
(* an Unregister is still waiting for.                                      *)
THEOREM StopLeavesNothing == ManagerSpec => []NoScraperAfterStop
  <1>1. ASSUME ManagerInv PROVE NoScraperAfterStop
    <2> SUFFICES ASSUME stopper.pc = "returned", NEW s \in Scrapers, s \notin unreg
                 PROVE  gor[s] = "none"
      BY DEF NoScraperAfterStop
    <2>1. /\ stopper.left = {} /\ janitor.stopping = {}
          /\ \A k \in Keys : scrapers[k] = NoGen
      BY <1>1 DEF ManagerInv, LocksOK
    <2>2. scrapers[s[1]] # s[2]
      BY <2>1, ScraperPairs, ManagerAssumption
    <2> QED BY <1>1, <2>1, <2>2 DEF ManagerInv, OwnedOK
  <1> QED BY <1>1, ManagerInvHolds, PTL

(* Register's stamp and sweep's re-check under the lock: only a backend that  *)
(* nothing has routed to for IdleTimeout is evicted.                        *)
THEOREM EvictionIsLate == ManagerSpec => EvictionSparesRouted
  <1> DEFINE Spares == \A k \in Keys :
               janitor'.stopping # {} /\ janitor.stopping = {} /\ k \in janitor.todo \ janitor'.todo
                   => clock - routedAt[k] >= IdleTimeout
  <1>1. ASSUME ManagerInv, [ManagerNext]_managerVars PROVE [Spares]_managerVars
    <2>1. SUFFICES ASSUME NEW k \in Keys, janitor'.stopping # {}, janitor.stopping = {},
                          k \in janitor.todo \ janitor'.todo
                   PROVE  clock - routedAt[k] >= IdleTimeout
      OBVIOUS
    <2>2. \E h \in Keys : JanitorEvict(h)
      <3>1. janitor' # janitor
        BY <2>1
      <3>2. Janitor
        BY <1>1, <3>1 DEF ManagerNext, managerVars, Register, UnregisterDetach, UnregisterFinish, Publish,
                          Exit, StopBegin, StopTake, StopReturn, StopSignal, StopJoin, Advance
      <3>3. ~(\/ JanitorTick \/ JanitorLock \/ JanitorUnlock \/ JanitorExit
              \/ \E h \in Keys : JanitorKeep(h)
              \/ \E s \in Scrapers : JanitorJoin(s))
        BY <1>1, <2>1 DEF JanitorTick, JanitorLock, JanitorUnlock, JanitorExit, JanitorKeep,
                          JanitorJoin, ManagerInv, ManagerTypeOK
      <3> QED BY <3>2, <3>3 DEF Janitor
    <2>3. PICK h \in Keys : JanitorEvict(h)
      BY <2>2
    <2>4. h = k /\ lastRouted[k] <= janitor.cutoff /\ janitor.pc = "sweep"
      BY <1>1, <2>1, <2>3 DEF JanitorEvict, ManagerInv, ManagerTypeOK
    <2>5. scrapers[k] # NoGen /\ lastRouted[k] = routedAt[k]
          /\ janitor.cutoff <= clock - IdleTimeout
      BY <1>1, <2>1, <2>4 DEF ManagerInv, RoutesOK
    <2>6. /\ routedAt[k] \in Int /\ janitor.cutoff \in Int /\ clock \in Int
          /\ IdleTimeout \in Int
      BY <1>1, ManagerAssumption DEF ManagerInv, ManagerTypeOK
    <2>7. routedAt[k] <= clock - IdleTimeout
      BY <2>4, <2>5, <2>6
    <2> QED BY <2>6, <2>7
  <1> QED BY <1>1, ManagerInvHolds, PTL DEF ManagerSpec, EvictionSparesRouted

=============================================================================
