------------------------------- MODULE Ledger -------------------------------
(***************************************************************************)
(* internal/queuelab: what a ledger of lifecycle events is turned into.    *)
(* An event is [type, job, uid, at, reason]; "at" is the collector's       *)
(* monotonic offset.  Seconds of GPU time are ticks times devices.         *)
(***************************************************************************)
EXTENDS Integers, Sequences, FiniteSets, SequencesExt

(* The rows of the termination-contract study and what an arm makes of     *)
(* them.                                                                   *)
OwnRow    == "a1"
VictimRow == "a2-borrow"
OwnerRow  == "b1-owner"

Arms == {"A-honor", "A-ignore", "N-ref", "D-full", "D-quarter"}

PolicyVariant(arm) == IF arm = "N-ref" THEN "Never" ELSE "Any"

ContractFor(arm, row) ==
    IF row = VictimRow /\ arm \in {"A-ignore", "D-full", "D-quarter"}
      THEN "IgnoresSIGTERM" ELSE "HonorsSIGTERM"

(* The barriers before each row's submission.                              *)
TerminationContractSchedule(row) ==
    CASE row = OwnRow    -> <<>>
      [] row = VictimRow -> << <<"AdmittedReady", OwnRow>>, <<"FlavorUsage", 1>> >>
      [] row = OwnerRow  -> << <<"AdmittedReady", VictimRow>>, <<"FlavorUsage", 2>>,
                               <<"DelayFromReady", VictimRow>> >>

------------------------------------------------------------------------------
(* foldEvent.  Past the horizon only a stop still counts.                  *)

Counts(e, h) == e.at <= h \/ e.type = "AttemptStopped"

(* Positions of the counted events of a job, of one type.                  *)
Of(ev, job, type, h) ==
    {i \in DOMAIN ev : ev[i].job = job /\ ev[i].type = type /\ Counts(ev[i], h)}

Instants(ev, job, type, h) == {ev[i].at : i \in Of(ev, job, type, h)}

(* A stop of a Pod that was never seen Ready is evidence no run produces;  *)
(* past the horizon it is the stop of an attempt outside the window.       *)
ReadyBefore(ev, i, h) == \E k \in Of(ev, ev[i].job, "PodReady", h) :
                            k < i /\ ev[k].uid = ev[i].uid

foldRefuses(ev, i, h) ==
    \/ /\ ev[i].type = "AttemptStopped"
       /\ \/ ev[i].reason \notin {"Succeeded", "Failed"}
          \/ ev[i].at <= h /\ ~ReadyBefore(ev, i, h)
    \/ /\ ev[i].type \in {"Submitted", "Completed"} /\ Counts(ev[i], h)
       /\ \E k \in Of(ev, ev[i].job, ev[i].type, h) : k < i /\ ev[k].at # ev[i].at

------------------------------------------------------------------------------
(* The timeline of one row: an attempt is a Pod seen Ready.                *)

Attempt(ev, job, u, h) ==
    LET ready == {i \in Of(ev, job, "PodReady", h) : ev[i].uid = u}
        stops == {i \in Of(ev, job, "AttemptStopped", h) :
                    ev[i].uid = u /\ ReadyBefore(ev, i, h)}
        least(S) == Min({ev[i].at : i \in S})
    IN [uid |-> u, readyNs |-> least(ready), seq |-> Min(ready),
        stopped |-> stops # {},
        stopNs |-> IF stops = {} THEN h + 1 ELSE least(stops),
        reason |-> IF stops = {} THEN "none"
                   ELSE ev[Min({i \in stops : ev[i].at = least(stops)})].reason]

(* The n-th of them has n - 1 before it.                                   *)
StartsBefore(a, b) == a.readyNs < b.readyNs \/ (a.readyNs = b.readyNs /\ a.seq < b.seq)

Attempts(ev, job, h) == {Attempt(ev, job, ev[i].uid, h) : i \in Of(ev, job, "PodReady", h)}

attemptsInStartOrder(ev, job, h) ==
    LET A == Attempts(ev, job, h)
    IN [n \in 1..Cardinality(A) |->
          CHOOSE a \in A : Cardinality({b \in A : StartsBefore(b, a)}) = n - 1]

(* Mutant: no clamp; a completion seen before the Ready gives time back. *)
occupancyEndUnclamped(ev, job, a, h) ==
    LET done == Instants(ev, job, "Completed", h)
    IN CASE a.stopped -> Min({a.stopNs, h})
         [] ~a.stopped /\ done # {} -> Min(done)
         [] OTHER -> h

(* A stop ends an attempt's occupancy, else the row's completion, else the *)
(* horizon; an end the other watch delivered first leaves it empty.        *)
occupancyEnd(ev, job, a, h) ==
    LET done == Instants(ev, job, "Completed", h)
        end  == CASE a.stopped -> Min({a.stopNs, h})
                  [] ~a.stopped /\ done # {} -> Min(done)
                  [] OTHER -> h
    IN Max({end, a.readyNs})

attemptsDoNotOverlap(as) ==
    \A i \in 2..Len(as) : as[i-1].stopped /\ as[i-1].stopNs < as[i].readyNs

(* Mutant: preemptions are paired with the latest attempts. *)
pairPreemptionsToLatest(as, decisions) == SubSeq(as, Len(as) - decisions + 1, Len(as))

(* The k-th preemption is taken to have stopped the k-th attempt.          *)
pairPreemptionsToAttempts(as, decisions) == SubSeq(as, 1, decisions)

------------------------------------------------------------------------------
(* chargeWaste: what a row's attempts and preemptions amount to.           *)

chargeRefuses(ev, job, h) ==
    LET as   == attemptsInStartOrder(ev, job, h)
        subm == Instants(ev, job, "Submitted", h)
    IN \/ subm = {}
       \/ Of(ev, job, "Completed", h) # {} /\ Of(ev, job, "Admitted", h) = {}
       \/ as # <<>> /\ subm # {} /\ as[1].readyNs < Min(subm)
       \/ \E i \in DOMAIN as : as[i].stopped /\ as[i].stopNs < as[i].readyNs
       \/ ~attemptsDoNotOverlap(as)
       \/ Cardinality(Of(ev, job, "Preempted", h)) > Len(as)

(* How one preempted attempt is booked.                                    *)
chargeWaste(ev, job, a, h) ==
    CASE a.stopped /\ a.reason = "Succeeded" -> "ineffective"
      [] a.stopped /\ a.reason = "Failed" /\ a.stopNs <= h -> "wasted"
      [] a.stopped /\ a.reason = "Failed" /\ a.stopNs > h -> "censored"
      [] ~a.stopped /\ Of(ev, job, "Completed", h) # {}
           /\ Len(attemptsInStartOrder(ev, job, h)) = 1 -> "credited"
      [] OTHER -> "unknown"

(* What the attempts of s held, of those booked under books, the first n   *)
(* taken together.                                                         *)
Held(ev, job, a, h) == occupancyEnd(ev, job, a, h) - a.readyNs

HeldUnder(ev, job, s, books, h) ==
    [i \in 1..Len(s) |-> IF chargeWaste(ev, job, s[i], h) \in books THEN Held(ev, job, s[i], h) ELSE 0]

Total(v, n) == LET f[i \in 0..n] == IF i = 0 THEN 0 ELSE f[i - 1] + v[i] IN f[n]

(* WorkloadOutcome, one row of a LabResult.                                *)
WorkloadOutcome(ev, job, h) ==
    LET as     == attemptsInStartOrder(ev, job, h)
        n      == Cardinality(Of(ev, job, "Preempted", h))
        paired == pairPreemptionsToAttempts(as, n)
        sum(s, books) == Total(HeldUnder(ev, job, s, books, h), Len(s))
    IN [admitted    |-> Of(ev, job, "Admitted", h) # {},
        completed   |-> Of(ev, job, "Completed", h) # {},
        preemptions |-> n,
        attempts    |-> Len(as),
        paired      |-> paired,
        occupancy   |-> Total([i \in 1..Len(as) |-> Held(ev, job, as[i], h)], Len(as)),
        wasted      |-> sum(paired, {"wasted"}),
        lowerBound  |-> sum(paired, {"wasted", "censored"}),
        unattributed |-> sum(paired, {"ineffective", "credited", "unknown"}),
        censored    |-> \E i \in DOMAIN paired : chargeWaste(ev, job, paired[i], h) = "censored",
        ineffective |-> \E i \in DOMAIN paired :
                           chargeWaste(ev, job, paired[i], h) \in {"ineffective", "credited"}]

(* Reconstruct refuses, or gives every offered row its outcome.            *)
ReconstructRefuses(ev, rows, h) ==
    \/ \E i \in DOMAIN ev : ev[i].job \notin rows \/ foldRefuses(ev, i, h)
    \/ \E job \in rows : chargeRefuses(ev, job, h)

Reconstruct(ev, rows, h) == [job \in rows |-> WorkloadOutcome(ev, job, h)]

(* Arm.AssertCardinality.                                                  *)
AssertCardinality(arm, res) ==
    \A job \in DOMAIN res :
        res[job].preemptions = (IF job = VictimRow /\ arm # "N-ref" THEN 1 ELSE 0)

(* DeviceHoldNs: from the owner's admission to the victim's stop, or -1.   *)
firstElapsed(ev, job, type) ==
    LET I == {i \in DOMAIN ev : ev[i].job = job /\ ev[i].type = type}
    IN IF I = {} THEN -1 ELSE Min({ev[i].at : i \in I})

Span(from, to) == IF from < 0 \/ to < from THEN -1 ELSE to - from

DeviceHoldNs(ev) == Span(firstElapsed(ev, OwnerRow, "Admitted"),
                         firstElapsed(ev, VictimRow, "AttemptStopped"))

AchievedDoseNs(ev) == Span(firstElapsed(ev, VictimRow, "PodReady"),
                           firstElapsed(ev, OwnerRow, "Submitted"))

VictimWorkWindow(ev) == Span(firstElapsed(ev, VictimRow, "PodReady"),
                             firstElapsed(ev, VictimRow, "AttemptStopped"))
==============================================================================
