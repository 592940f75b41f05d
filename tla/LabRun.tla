------------------------------- MODULE LabRun -------------------------------
(***************************************************************************)
(* One invocation of cmd/queuelabrun: run() of main.go from the connection *)
(* to the last deferred call, over the collector (Collector), the          *)
(* teardown (Teardown), the record (RunRecord) and one worker.  The lease  *)
(* of the worker is reduced to what NodeOwnership shows of it: taken or    *)
(* refused, watched by a window that counts violations, given back.        *)
(*                                                                         *)
(* run() returns early from many places; what it deferred then runs in     *)
(* this order: teardown, the window's close, the emergency release.  The   *)
(* protocol, trace and fixtures are built from constants and cannot fail.  *)
(*                                                                         *)
(* A termination canary may be taken before the run begins, and the worker *)
(* may change after it; a run that begins while one is being taken is      *)
(* refused like any run whose worker is held.  What the run consulted is   *)
(* not read again, so the canary's state is dropped once it has been.      *)
(***************************************************************************)
EXTENDS Collector, Teardown, RunRecord, TerminationCanary

CONSTANTS Quotas,   \* nominal device quota of each ClusterQueue
          Machines  \* what a worker may look like: [node, pods]

(* Quotas and devices are counts, and so is what they sum up to.           *)
ASSUME CountsAssumption ==
    /\ FoldLeft(+, 0, Quotas) \in Nat
    /\ \A m \in Machines : m.node.allocatable \in Nat /\ Occupied(m.pods) \in Nat

VARIABLES pc,
          disposition,  \* Unset while nothing has failed
          worker,       \* "other", "ours", "released"
          win,          \* the ownership window, None before it opens
          open,         \* the sentinel is watching
          qual, obs, judged,
          left,         \* the residue found
          record, written, exit

rvars == <<pc, disposition, worker, win, open, qual, obs, judged, left, record, written, exit>>
vars  == <<cvars, tvars, kvars, rvars>>

Init == /\ CInit /\ TInit /\ KInit
        /\ pc = "connect" /\ disposition = Unset
        /\ worker = "other" /\ win = None /\ open = FALSE
        /\ qual = None /\ obs = None /\ judged = None
        /\ left = {}
        /\ record = None /\ written = FALSE /\ exit = -1

DropCanary == /\ machine' = [uid |-> 0, version |-> "contract", grace |-> terminationGraceSec, operator |-> 0]
              /\ note' = NoNote /\ canary' = AtRest /\ probe' = [i \in 1..2 |-> NoProbe]
              /\ time' = 0 /\ changes' = 0

(* A return: the deferred calls registered so far are left to run.         *)
Return(where, phase, ctxErr) ==
    /\ pc' = where
    /\ disposition' = phaseFailure(phase, ctxErr)

------------------------------------------------------------------------------
canaryRuns ==
    /\ pc = "connect" /\ (CanarySteps \/ MachineChanges)
    /\ UNCHANGED <<cvars, tvars, rvars>>

connect ==
    /\ pc = "connect" /\ canary.step \in {"idle", "left"}
    /\ \/ pc' = "acquire" /\ UNCHANGED <<disposition, kvars>>
       \/ Return("report", "client-failed", FALSE) /\ DropCanary
    /\ arm' \in RunArms /\ Found
    /\ UNCHANGED <<worker, win, open, qual, obs, judged, left, record, written, exit>>
    /\ UNCHANGED <<next, met, creating, queue, cache, stream, horizon, slow, faults, cluster, builder>>

acquireWorker ==
    /\ pc = "acquire"
    /\ \/ ~canary.held /\ worker' = "ours" /\ pc' = "sentinel" /\ UNCHANGED <<disposition, kvars>>
       \/ \E ctxErr \in BOOLEAN : /\ Return("report", "acquisition-refused", ctxErr)
                                  /\ DropCanary /\ UNCHANGED worker
    /\ UNCHANGED <<win, open, qual, obs, judged, left, record, written, exit>>
    /\ UNCHANGED <<cvars, tvars>>

(* Mutant: the opening read is not counted as a version of the node. *)
OpenedUncounted == [neverOpened |-> FALSE, violations |-> 0, versions |-> 0, restoration |-> "none"]

Opened == [neverOpened |-> FALSE, violations |-> 0, versions |-> 1, restoration |-> "none"]

(* What the emergency release reports on when there is no window.          *)
NeverOpened == [neverOpened |-> TRUE, violations |-> 0, versions |-> 0, restoration |-> "none"]

startOwnershipSentinel ==
    /\ pc = "sentinel"
    /\ \/ win' = Opened /\ open' = TRUE /\ pc' = "qualify" /\ UNCHANGED <<disposition, kvars>>
       \/ \E ctxErr \in BOOLEAN : /\ Return("release", "setup-failed", ctxErr)
                                  /\ DropCanary /\ UNCHANGED <<win, open>>
    /\ UNCHANGED <<worker, qual, obs, judged, left, record, written, exit>>
    /\ UNCHANGED <<cvars, tvars>>

qualifyWorker ==
    /\ pc = "qualify"
    /\ \/ \E m \in Machines, op \in operatorImageID :
            LET q == qualify(m.node, m.pods, requiredGPU(Quotas, [i \in DOMAIN Schedule |-> 1]),
                             checkTerminationCanary(op)) IN
              /\ qual' = q
              /\ \/ q.ok /\ pc' = "setup" /\ UNCHANGED disposition
                 \/ ~q.ok /\ Return("teardown", "environment-unqualified", FALSE)
       \/ \E ctxErr \in BOOLEAN : Return("teardown", "environment-unqualified", ctxErr) /\ UNCHANGED qual
    /\ DropCanary
    /\ UNCHANGED <<worker, win, open, obs, judged, left, record, written, exit>>
    /\ UNCHANGED <<cvars, tvars>>

setUp ==
    /\ pc = "setup"
    /\ \/ /\ setupAt <= Len(SetupOrder)
          /\ \/ CreateStored(SetUpTarget) /\ UNCHANGED <<pc, disposition>>
             \/ \E ctxErr \in BOOLEAN : SetupFails(SetUpTarget) /\ Return("teardown", "setup-failed", ctxErr)
       \/ /\ setupAt > Len(SetupOrder) /\ pc' = "start"
          /\ UNCHANGED disposition /\ UNCHANGED tvars
    /\ UNCHANGED <<worker, win, open, qual, obs, judged, left, record, written, exit>>
    /\ UNCHANGED <<cvars, kvars>>

Streams(how) == [established |-> how # "aborted",
                 streams |-> [k \in Kinds |-> IF how = "aborted" THEN "ended" ELSE how]]

(* collector.start and awaitEstablished.                                   *)
startCollector ==
    /\ pc = "start"
    /\ \/ pc' = "observe" /\ obs' = Streams("open") /\ UNCHANGED disposition
       \/ \E ctxErr \in BOOLEAN : Return("teardown", "setup-failed", ctxErr) /\ obs' = Streams("aborted")
    /\ UNCHANGED <<worker, win, open, qual, judged, left, record, written, exit>>
    /\ UNCHANGED <<cvars, tvars, kvars>>

------------------------------------------------------------------------------
(* The observed part.  What it found is summed up in disposition, obs and  *)
(* judged, and the collector's state is dropped.                           *)

Forget == /\ next' = 1 /\ met' = 0 /\ creating' = FALSE
          /\ row' = [r \in Rows |-> NoObjects] /\ struck' = {} /\ happened' = <<>>
          /\ queue' = [k \in Kinds |-> <<>>] /\ cache' = {}
          /\ stream' = [k \in Kinds |-> "open"]
          /\ pending' = <<>> /\ ledger' = <<>> /\ invalid' = FALSE
          /\ horizon' = -1 /\ slow' = "none" /\ faults' = 0
          /\ UNCHANGED arm

Evidence(ends) == [established |-> TRUE, streams |-> ends]

(* The streams as they end when the run cancels them now.                  *)
EndedNow == [k \in Kinds |-> IF stream[k] \in {"open", "lost"} THEN "ended"
                             ELSE IF stream[k] = "lostStatus" THEN "condemned" ELSE stream[k]]

observing ==
    /\ pc = "observe" /\ Observing
    /\ UNCHANGED <<rvars, tvars, kvars>>

(* Interrupted at a barrier or while waiting for the horizon; in the       *)
(* second place the window is closed before the return.                    *)
Interrupted ==
    /\ pc = "observe" /\ horizon = -1 /\ ~creating /\ Prompt /\ faults < MaxFaults
    /\ Return("teardown", "cancelled", TRUE)
    /\ obs' = Evidence(EndedNow)
    /\ open' = (next <= Len(Schedule))
    /\ Forget
    /\ UNCHANGED <<worker, win, qual, judged, left, record, written, exit>> /\ UNCHANGED <<tvars, kvars>>

(* The Create of a row fails.                                              *)
SubmitFails ==
    /\ pc = "observe" /\ creating /\ faults < MaxFaults
    /\ \E ctxErr \in BOOLEAN : Return("teardown", "setup-failed", ctxErr)
    /\ obs' = Evidence(EndedNow)
    /\ Forget
    /\ UNCHANGED <<worker, win, open, qual, judged, left, record, written, exit>> /\ UNCHANGED <<tvars, kvars>>

(* run from the horizon on: the window's verdict desyncs the ledger, then  *)
(* the ledger is judged.                                                   *)
Verdict ==
    CASE invalid \/ win.violations > 0 -> "collector-desync"
      [] ~invalid /\ win.violations = 0 /\ ReconstructRefuses(ledger, Rows, horizon) -> "reconstruct-refused"
      [] OTHER -> IF AssertCardinality(arm, Reconstruct(ledger, Rows, horizon)) THEN Unset ELSE "cardinality-refused"

judge ==
    /\ pc = "observe" /\ Drained
    /\ open' = FALSE
    /\ disposition' = Verdict
    /\ obs' = Evidence(stream)
    /\ judged' = IF Verdict # Unset THEN None
                 ELSE [replays |-> replayAgreesWithRecord(measurementOf(ledger, Rows, horizon), ledger, Rows)]
    /\ pc' = "teardown"
    /\ Forget
    /\ UNCHANGED <<worker, win, qual, left, record, written, exit>> /\ UNCHANGED <<tvars, kvars>>

------------------------------------------------------------------------------
(* Somebody else touches the node, or the window's view of it is lost.     *)
Diverges ==
    /\ open /\ win.violations = 0
    /\ \/ pc = "observe" /\ horizon = -1 /\ Prompt /\ faults < MaxFaults /\ faults' = faults + 1
       \/ pc = "teardown" /\ sweep.step = "idle" /\ UNCHANGED faults
    /\ win' = [win EXCEPT !.violations = 1]
    /\ UNCHANGED <<pc, disposition, worker, open, qual, obs, judged, left, record, written, exit>>
    /\ UNCHANGED <<arm, next, met, creating, queue, cache, stream, horizon, slow>>
    /\ UNCHANGED <<cluster, builder, tvars, kvars>>

tearingDown ==
    /\ pc = "teardown"
    /\ BeginTeardown \/ deleteTargets \/ \E t \in Targets : Finalize(t) \/ (sweep.step # "idle" /\ NameTaken(t))
    /\ UNCHANGED <<rvars, cvars, kvars>>

(* tearDownBeforeRelease's end.  A run with nothing failed releases inline; *)
(* any other returns to its deferred calls.                                *)
tearDownBeforeRelease ==
    /\ pc = "teardown" /\ TornDown
    /\ left' = Left
    /\ disposition' = IF Left = {} THEN disposition ELSE "residue-left"
    /\ pc' = IF residueHoldsWorker(latest) THEN "finish" ELSE "release"
    /\ open' = FALSE
    /\ sweep' = [sweep EXCEPT !.step = "idle"]
    /\ UNCHANGED <<worker, win, qual, obs, judged, record, written, exit>>
    /\ UNCHANGED <<object, setupAt, latest, meddling, errors>> /\ UNCHANGED <<cvars, kvars>>

(* auditedRelease, inline or as the emergency release of the deferred      *)
(* calls: the audit's own reads may fail, or see the next holder's marks;  *)
(* a release that errs may have taken effect.  Without a window the audit  *)
(* is put in one that never opened.                                        *)
auditedRelease ==
    /\ pc = "release"
    /\ \E released, errs, audited \in BOOLEAN :
         /\ ~errs => released
         /\ audited => released
         /\ worker' = IF released THEN "released" ELSE "ours"
         /\ win' = [IF win = None THEN NeverOpened ELSE win
                      EXCEPT !.restoration = IF audited THEN "removed" ELSE "unproven"]
         /\ disposition' = IF errs THEN "worker-not-restored" ELSE disposition
    /\ pc' = "finish"
    /\ UNCHANGED <<open, qual, obs, judged, left, record, written, exit>>
    /\ UNCHANGED <<cvars, tvars, kvars>>

(* run's last lines, reached only by what released inline without error.   *)
finish ==
    /\ pc = "finish"
    /\ disposition' = IF disposition = Unset THEN "passed" ELSE disposition
    /\ pc' = "report"
    /\ UNCHANGED <<worker, win, open, qual, obs, judged, left, record, written, exit>>
    /\ UNCHANGED <<cvars, tvars, kvars>>

(* main: the record is built, written, read back, and decides the exit.    *)
report ==
    /\ pc = "report"
    /\ \E preview, stored \in BOOLEAN :
         LET r == buildRecord(disposition, left, qual, win, obs,
                              IF disposition = "passed" THEN judged ELSE None, preview)
         IN /\ record' = r /\ written' = stored
            /\ exit' = reportRun(r, stored)
    /\ pc' = "exited"
    /\ UNCHANGED <<disposition, worker, win, open, qual, obs, judged, left>>
    /\ UNCHANGED <<cvars, tvars, kvars>>

Next == \/ canaryRuns
        \/ connect \/ acquireWorker \/ startOwnershipSentinel \/ qualifyWorker \/ setUp \/ startCollector
        \/ observing \/ Interrupted \/ SubmitFails \/ judge
        \/ Diverges \/ tearingDown \/ tearDownBeforeRelease \/ auditedRelease \/ finish \/ report

Spec == Init /\ [][Next]_vars

------------------------------------------------------------------------------
(* A run stands only on a canary that tells the truth of the machine as it *)
(* is when the run consults it: the runtime signals and then waits for the *)
(* whole grace period, which is the protocol's.  Neither an upgrade or a   *)
(* replacement around the reading, nor a failed read, nor a stall of both  *)
(* reads fakes that; a stall between the two can (judgeCanary, stampCanary, *)
(* checkTerminationCanary).                                                *)
StandsOnContrast ==
    \A op \in operatorImageID : checkTerminationCanary(op) =>
        /\ machine.grace = terminationGraceSec
        /\ machine.version = "contract" \/ (machine.version = "hasty" /\ note.late)

Judging == pc = "observe" /\ Drained /\ Verdict = Unset

(* A preemption is charged to the attempt it stopped.  When the evicted    *)
(* Pod had been Ready and is the row's first, the attempt the ledger pairs *)
(* with the preemption is that Pod; it is wasted only if it really failed, *)
(* and ineffective only if it really succeeded, in whatever order the      *)
(* watches delivered (pairPreemptionsToAttempts, chargeWaste).             *)
ChargesAreTrue ==
    Judging /\ struck = {Pod(VictimRow, 1)}
      /\ (\E i \in DOMAIN happened : happened[i].uid = Pod(VictimRow, 1) /\ happened[i].type = "PodReady")
      => LET o    == WorkloadOutcome(ledger, VictimRow, horizon)
             ends == {happened[i].reason : i \in {j \in DOMAIN happened :
                        happened[j].uid = Pod(VictimRow, 1) /\ happened[j].type = "AttemptStopped"}}
         IN \A i \in DOMAIN o.paired :
              /\ o.paired[i].uid \in struck
              /\ LET book == chargeWaste(ledger, VictimRow, o.paired[i], horizon)
                 IN /\ book \in {"wasted", "censored"} => ends = {"Failed"}
                    /\ book = "ineffective" => ends = {"Succeeded"}

(* Waste and what cannot be attributed are parts of the occupancy the row  *)
(* is seen to have had, and none of them is negative, although a           *)
(* completion may be seen before the Ready it follows (occupancyEnd).      *)
ChargesWithinOccupancy ==
    Judging => \A r \in Rows :
        LET o == WorkloadOutcome(ledger, r, horizon)
        IN /\ 0 <= o.wasted /\ o.wasted <= o.lowerBound /\ 0 <= o.unattributed
           /\ o.lowerBound + o.unattributed <= o.occupancy

(* A worker is given back only over a cluster that holds nothing with this *)
(* run's stamp: not an object whose read failed, not one whose delete was  *)
(* refused, not one still terminating.  What a finished run leaves under   *)
(* its stamp is named in its residue, and it does not pass                 *)
(* (residueHoldsWorker, residual, tearDownBeforeRelease).                  *)
ReleasedMeansEmpty ==
    /\ worker = "released" => \A t \in Targets : ~object[t].stamped
    /\ pc = "exited" => \A t \in Targets : object[t].stamped => t \in left /\ disposition # "passed"

(* The record of a run reads back by the rules it was written under, and a *)
(* preview's never does; a run whose window never opened is the exception  *)
(* (decodeRunRecord, checkValidity, verifyRecordReadable).                 *)
RecordReadsBack ==
    pc = "exited" /\ (record.win # None => ~record.win.neverOpened) => verifyRecordReadable(record)

(* A run that exits with success was whole: the machine fit, the view of   *)
(* the worker and of the namespace held to the end, nothing is left, the   *)
(* worker is back, the measurement replays; and its record is admissible   *)
(* exactly when the restoration was seen (reportRun, deriveValidity).      *)
SuccessIsWhole ==
    exit = 0 =>
      /\ written /\ environmentEstablished(qual) /\ exclusivityHeld(win)
      /\ worker = "released" /\ \A t \in Targets : object[t].uid # "ours"
      /\ \A k \in Kinds : obs.streams[k] = "ended"
      /\ judged # None /\ judged.replays
      /\ ~record.preview => (record.validity.verdict = "admissible") = (win.restoration = "removed")
==============================================================================
