----------------------------- MODULE WorkloadRun -----------------------------
(***************************************************************************)
(* The WorkloadRun reconciler (internal/controller/                        *)
(* workloadrun_controller.go): it looks at a target at intervals, keeps    *)
(* the trail of what it saw in the run's status, and when the window is    *)
(* over writes a verdict, or refuses to write one.                         *)
(*                                                                         *)
(* A reconcile is two steps.  Begin reads the run from the informer cache  *)
(* and then the clock; the second step reads the target live and writes    *)
(* the run to the API server, which refuses a write based on an older      *)
(* version.  Between them any time may pass and anything may happen: the   *)
(* live read can be slow or fail, and the write can be slow.  The look     *)
(* itself is at some time from the one to the other; the target's phase is *)
(* its environment's choice, so that nothing else can tell when it was.    *)
(*                                                                         *)
(* Time is counted in half seconds.  A metav1.Time in a status is kept in  *)
(* whole seconds, and so is an elapsed time.                               *)
(***************************************************************************)
EXTENDS Integers, Sequences

CONSTANTS Specs,         \* records [window, within], in seconds
          NoRun,         \* no copy in hand
          UnhealthyStates, \* phases of the target other than Ready
          MaxGap,        \* maxGap(), in half seconds
          MaxGeneration, \* edits of the spec, counted from 1
          MaxTrail,      \* entries of the trail
          MaxStart,      \* when the first look happens at the latest
          Horizon,       \* when time stops
          MaxRestarts    \* restarts of the operator

Ready == "Ready"
Absent == "absent"
States == UnhealthyStates \cup {Ready}

ASSUME SpecsAssumption ==
    \A s \in Specs : s \in [window : Nat, within : Nat]
ASSUME StatesAssumption == Ready \notin UnhealthyStates /\ Absent \notin States
ASSUME BoundsAssumption ==
    /\ MaxGap \in Nat /\ MaxGeneration \in Nat \ {0} /\ MaxStart \in Nat
    /\ MaxTrail \in Nat \ {0} /\ Horizon \in Nat /\ MaxRestarts \in Nat

Never == -1

VARIABLES
    run,      \* the WorkloadRun on the API server
    runC,     \* the copy in the informer cache
    fresh,    \* whether the copy is of the server's version
    due,      \* the run is in the work queue
    timer,    \* a RequeueAfter that has not fired
    now,
    held,     \* the copy the reconcile under way has read, or NoRun
    began,    \* the time it read, the `now' of Reconcile
    current,  \* whether its copy is of the server's version
    restarts, \* restarts so far
    declared, \* history: the spec when observation began
    judged,   \* history: the spec the verdict was computed from
    lookedAt, \* history: when the last recorded look really was
    hole      \* history: more than MaxGap passed from a recorded look to the
              \* beginning of the reconcile that recorded the next one

vars == <<run, runC, fresh, due, timer, now, held, began, current,
          restarts, declared, judged, lookedAt, hole>>
Pass    == <<held, began, current>>
History == <<declared, judged, lookedAt, hole>>

-----------------------------------------------------------------------------
(* What is stored *)

Seconds(t) == t \div 2
Stored(t) == 2 * Seconds(t)

Observation == [state : States, at : Nat]

RunType == [generation : 1..MaxGeneration, spec : Specs,
            phase : {"Pending", "Observing", "Complete", "Refused"},
            startedAt : Nat \cup {Never}, lastObservedAt : Nat \cup {Never},
            observedGeneration : 0..MaxGeneration,
            observations : Seq(Observation),
            observedUnhealthy : BOOLEAN, recoveredAt : Nat \cup {Never},
            verdict : {"", "Recovered", "NotRecovered"}]

NewRun(spec) ==
    [generation |-> 1, spec |-> spec, phase |-> "Pending",
     startedAt |-> Never, lastObservedAt |-> Never, observedGeneration |-> 0,
     observations |-> << >>, observedUnhealthy |-> FALSE,
     recoveredAt |-> Never, verdict |-> ""]

(* No copy is told from a copy. *)
ASSUME NoRunAssumption == NoRun \notin RunType

TypeOK ==
    /\ run \in RunType /\ runC \in RunType /\ fresh \in BOOLEAN
    /\ due \in BOOLEAN /\ timer \in BOOLEAN
    /\ now \in Nat /\ restarts \in 0..MaxRestarts
    /\ held \in RunType \cup {NoRun} /\ began \in Nat /\ current \in BOOLEAN
    /\ declared \in Specs /\ judged \in Specs /\ lookedAt \in Int
    /\ hole \in BOOLEAN

Init ==
    /\ \E s \in Specs :
           run = NewRun(s) /\ runC = NewRun(s) /\ declared = s /\ judged = s
    /\ fresh = TRUE /\ due = TRUE /\ timer = FALSE
    /\ now = 0 /\ restarts = 0 /\ lookedAt = Never /\ hole = FALSE
    /\ held = NoRun /\ began = 0 /\ current = FALSE

-----------------------------------------------------------------------------
(* Decisions, by the time the reconcile read *)

Terminal(r) == r.phase \in {"Complete", "Refused"}

(* Mutant of SpecMoved: edits go unnoticed. *)
SpecMovedNever(r) == FALSE

SpecMoved(r) ==
    r.phase = "Observing" /\ r.observedGeneration # r.generation

(* Mutant of GapTooLong: measured from the start. *)
GapTooLongFromStart(r) ==
    r.startedAt # Never /\ began - r.startedAt > 4 * MaxGap

GapTooLong(r) ==
    r.lastObservedAt # Never /\ began - r.lastObservedAt > MaxGap

(* now.Sub(StartedAt).Seconds() *)
Elapsed(r) == IF r.startedAt = Never THEN 0 ELSE Seconds(began - r.startedAt)

Appended(r, state, at) ==
    IF /\ r.observations # << >>
       /\ r.observations[Len(r.observations)].state = state
    THEN r.observations
    ELSE Append(r.observations, [state |-> state, at |-> at])

(* Mutant of Record: the first healthy look is the recovery. *)
RecordFirstHealthy(r, state, at) ==
    [r EXCEPT
        !.observations = Appended(r, state, at),
        !.observedUnhealthy = @ \/ state # Ready,
        !.recoveredAt = IF state = Ready /\ @ = Never THEN at ELSE @,
        !.lastObservedAt = Stored(began)]

(* record and the LastObservedAt that follows it; `at' is the elapsed time *)
(* and the status keeps the time in whole seconds.                         *)
Record(r, state, at) ==
    [r EXCEPT
        !.observations = Appended(r, state, at),
        !.observedUnhealthy = @ \/ state # Ready,
        !.recoveredAt = IF state = Ready /\ r.observedUnhealthy /\ @ = Never
                        THEN at ELSE @,
        !.lastObservedAt = Stored(began)]

Started(r, state) ==
    [Record(r, state, 0) EXCEPT
        !.phase = "Observing", !.startedAt = Stored(began),
        !.observedGeneration = r.generation]

Judged(r) ==
    [r EXCEPT !.phase = "Complete",
              !.verdict = IF r.recoveredAt # Never
                             /\ r.recoveredAt <= r.spec.within
                          THEN "Recovered" ELSE "NotRecovered"]

Refused(r) ==
    [r EXCEPT !.phase = "Refused", !.observedGeneration = r.generation]

Closed(r) == IF r.observedUnhealthy THEN Judged(r) ELSE Refused(r)

-----------------------------------------------------------------------------
(* The reconciler *)

(* Status().Update: refused for an old version, which is an error and      *)
(* retried; no event when nothing changed.  `again' is RequeueAfter, whose *)
(* timer outlives reconciles that events cause before it fires.  An event  *)
(* that came during the reconcile has queued the run already.              *)
Update(r, again) ==
    \/ /\ current
       /\ run' = r
       /\ fresh' = (r = run)
       /\ timer' = (timer \/ again)
       /\ UNCHANGED due
    \/ /\ ~current
       /\ due' = TRUE
       /\ UNCHANGED <<run, fresh, timer>>

(* The history of a look that is recorded. *)
Looked(first) ==
    IF run' = run
    THEN UNCHANGED <<lookedAt, hole>>
    ELSE /\ lookedAt' \in began..now
         /\ hole' = (hole \/ (~first /\ began - lookedAt > MaxGap))

Refuse(r) == Update(Refused(r), FALSE) /\ UNCHANGED History

Start(r, seen) ==
    /\ Update(Started(r, seen), TRUE)
    /\ declared' = IF run' = run THEN declared ELSE r.spec
    /\ Looked(TRUE)
    /\ UNCHANGED judged

(* Mutant of Look: no next look is scheduled. *)
LookOnce(r, seen) ==
    /\ Update(Record(r, seen, Elapsed(r)), FALSE)
    /\ Looked(FALSE)
    /\ UNCHANGED <<declared, judged>>

Look(r, seen) ==
    /\ Update(Record(r, seen, Elapsed(r)), TRUE)
    /\ Looked(FALSE)
    /\ UNCHANGED <<declared, judged>>

Close(r, seen) ==
    /\ Update(Closed(Record(r, seen, Elapsed(r))), FALSE)
    /\ judged' = IF run' = run THEN judged ELSE r.spec
    /\ Looked(FALSE)
    /\ UNCHANGED declared

Over(r) == Elapsed(r) >= r.spec.window

(* Reconcile past the checks of phase and generation.  observeTarget reads *)
(* whatever phase the target has by then (while the trail has room).       *)
Visible(r) == {Absent} \cup {s \in States : Len(Appended(r, s, 0)) <= MaxTrail}

Observe(r, seen) ==
    \/ r.phase = "Pending" /\ seen = Absent /\ Refuse(r)
    \/ r.phase = "Pending" /\ seen # Absent /\ Start(r, seen)
    \/ /\ r.phase = "Observing"
       /\ \/ (GapTooLong(r) \/ seen = Absent) /\ Refuse(r)
          \/ ~GapTooLong(r) /\ seen # Absent /\ ~Over(r) /\ Look(r, seen)
          \/ ~GapTooLong(r) /\ seen # Absent /\ Over(r) /\ Close(r, seen)

Busy == held # NoRun

(* The run leaves the queue; its copy and then the clock are read. *)
Begin ==
    /\ due /\ ~Busy
    /\ due' = FALSE
    /\ held' = runC /\ began' = now /\ current' = fresh
    /\ UNCHANGED <<run, runC, fresh, timer, now, restarts, History>>

(* The reconcile returns: what it held is gone. *)
Return == held' = NoRun /\ began' = 0 /\ current' = FALSE

Reconcile ==
    /\ Busy /\ Return
    /\ \/ Terminal(held) /\ UNCHANGED <<run, fresh, due, timer, History>>
       \/ SpecMoved(held) /\ Refuse(held)
       \/ /\ ~Terminal(held) /\ ~SpecMoved(held)
          /\ \E seen \in Visible(held) : Observe(held, seen)
    /\ UNCHANGED <<runC, now, restarts>>

(* The live read of the target or the write fails, which is retried. *)
CallFails ==
    /\ Busy /\ ~Terminal(held)
    /\ Return /\ due' = TRUE
    /\ UNCHANGED <<run, runC, fresh, timer, now, restarts, History>>

(* The watch delivers the server's version, which is an event. *)
SyncCache ==
    /\ ~fresh
    /\ runC' = run /\ fresh' = TRUE /\ due' = TRUE
    /\ UNCHANGED <<run, timer, now, Pass, restarts, History>>

TimerFires ==
    /\ timer
    /\ timer' = FALSE /\ due' = TRUE
    /\ UNCHANGED <<run, runC, fresh, now, Pass, restarts, History>>

(* The operator restarts, lists the runs and queues them all. *)
Restart ==
    /\ restarts < MaxRestarts
    /\ restarts' = restarts + 1
    /\ runC' = run /\ fresh' = TRUE /\ due' = TRUE /\ timer' = FALSE
    /\ Return
    /\ UNCHANGED <<run, now, History>>

-----------------------------------------------------------------------------
(* The environment *)

EditSpec ==
    /\ run.generation < MaxGeneration
    /\ \E s \in Specs \ {run.spec} :
           run' = [run EXCEPT !.generation = @ + 1, !.spec = s]
    /\ fresh' = FALSE /\ current' = FALSE
    /\ UNCHANGED <<runC, due, timer, now, held, began, restarts, History>>

Tick ==
    /\ now < IF run.phase = "Pending" THEN MaxStart ELSE Horizon
    /\ now' = now + 1
    /\ UNCHANGED <<run, runC, fresh, due, timer, Pass, restarts, History>>

Next ==
    \/ Begin \/ Reconcile \/ CallFails
    \/ SyncCache \/ TimerFires \/ Restart
    \/ EditSpec \/ Tick

Spec == Init /\ [][Next]_vars

-----------------------------------------------------------------------------
(* A verdict is never computed across an absence of the controller:        *)
(* whatever restarts, outages and delays there were, every look of a       *)
(* completed run belongs to a reconcile that began at most maxGap after    *)
(* the look before it really was (workloadrun_controller.go:158-165).      *)
NoVerdictAcrossHole == run.phase = "Complete" => ~hole

(* The verdict is computed from the expectation declared when observation  *)
(* began, however the spec is edited around the last look                  *)
(* (workloadrun_controller.go:123-131).                                    *)
VerdictJudgesDeclaredSpec == run.phase = "Complete" => judged = declared

(* The verdict can be read off the trail alone: it is Recovered exactly if *)
(* the trail shows the target unhealthy and later Ready within the         *)
(* declared time (workloadrun_controller.go:198-214,241-254).              *)
TrailShowsRecovery(r, within) ==
    \E i, j \in 1..Len(r.observations) :
        /\ i < j
        /\ r.observations[i].state # Ready
        /\ r.observations[j].state = Ready
        /\ r.observations[j].at <= within

VerdictIsInTheTrail ==
    run.phase = "Complete"
        => (run.verdict = "Recovered" <=> TrailShowsRecovery(run, judged.within))

(* Terminal states are terminal: a completed run is not judged again and a *)
(* refused one never carries a verdict, also when a reconcile still holds  *)
(* an older copy (workloadrun_controller.go:114-119,261-268).              *)
TerminalIsTerminal ==
    [][Terminal(run)
           => /\ run'.phase = run.phase /\ run'.verdict = run.verdict
              /\ run'.observations = run.observations]_vars

(* No run is forgotten: as long as it has not ended, something is pending  *)
(* that brings a write, a reconcile, the work queue, the timer of the last *)
(* look or an event that is still to be delivered, also when a look        *)
(* changed nothing, a call failed or a write was refused                   *)
(* (workloadrun_controller.go:133-136,178-183).                            *)
NoRunForgotten == ~Terminal(run) => due \/ Busy \/ timer \/ ~fresh

(* "a verdict says what happened inside [the window] and nothing about     *)
(* after" (api/v1/workloadrun_types.go:101-102): there is a failure seen   *)
(* inside the window.                                                      *)
VerdictIsOfTheWindow ==
    run.phase = "Complete"
        => \E i \in 1..Len(run.observations) :
               /\ run.observations[i].state # Ready
               /\ run.observations[i].at <= judged.window

(* "maxGap is how long the trail may go unobserved before it stops being   *)
(* one" (workloadrun_controller.go:89): the look that closes a run comes   *)
(* no later after the one before, also when the target was slow to read.   *)
VerdictIsWatched ==
    [][run.phase = "Observing" /\ run'.phase = "Complete"
           => lookedAt' - lookedAt <= MaxGap]_vars
=============================================================================
