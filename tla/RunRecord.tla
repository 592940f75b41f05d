----------------------------- MODULE RunRecord -----------------------------
(***************************************************************************)
(* What a lab run writes down about itself, and whether it can be read     *)
(* back (cmd/queuelabrun record.go, record_write.go, outcome.go), with the *)
(* worker qualification of qualify.go that it quotes.  Operators only.     *)
(*                                                                         *)
(* "none" stands for a nil pointer.  The runs modelled have no device      *)
(* observer, so the device axis is always "not observed".                  *)
(***************************************************************************)
EXTENDS Ledger

None == [nil |-> TRUE]

(* outcome.go: the disposition of a run in which nothing has failed yet;   *)
(* an error that is the context's own is a cancellation.                   *)
Unset == ""
phaseFailure(phase, ctxErr) == IF ctxErr THEN "cancelled" ELSE phase
classified(disposition)     == IF disposition = Unset THEN "unclassified" ELSE disposition

------------------------------------------------------------------------------
(* Qualification.  The fixtures' quota and the trace's rows size the run.  *)

requiredGPU(quotas, rows) ==
    LET sum == FoldLeft(+, 0, quotas)
        largest == Max({0} \cup Range(rows))
    IN IF largest > sum THEN largest ELSE sum

(* gpuConsumersOn: Pods of the node that hold devices; a surplus occupier  *)
(* counts against the supply, any other one disqualifies.                  *)
holdsDevices(p)  == p.phase \notin {"Succeeded", "Failed"} /\ p.gpus > 0
Consumers(pods)  == {p \in pods : holdsDevices(p) /\ ~p.occupier}
Occupied(pods)   == LET held == SetToSeq({p \in pods : holdsDevices(p) /\ p.occupier})
                    IN FoldLeft(+, 0, [i \in DOMAIN held |-> held[i].gpus])

(* qualify: the supply left must be exactly what the run needs; ref says   *)
(* whether a termination canary stands behind the machine.                 *)
qualify(n, pods, req, ref) ==
    [ready |-> n.ready, schedulable |-> n.schedulable, allocatable |-> n.allocatable,
     required |-> req, consumers |-> Consumers(pods), canary |-> ref,
     ok |-> /\ n.ready /\ n.schedulable /\ ref
            /\ n.allocatable - Occupied(pods) = req
            /\ Consumers(pods) = {}]

environmentEstablished(q) ==
    /\ q # None
    /\ q.required >= 1 /\ q.canary
    /\ q.ready /\ q.schedulable /\ q.allocatable >= q.required /\ q.consumers = {}

------------------------------------------------------------------------------
(* The measurement and its replay.                                         *)

(* ownerAdmitToReady, or -1.                                               *)
ownerAdmitToReady(ev, h) ==
    LET adm == Instants(ev, OwnerRow, "Admitted", h)
        rdy == Instants(ev, OwnerRow, "PodReady", h)
    IN IF adm = {} \/ rdy = {} THEN -1 ELSE Min(rdy) - Min(adm)

measurementOf(ev, rows, h) ==
    LET res == Reconstruct(ev, rows, h)
        total(f) == FoldLeft(+, 0, [i \in 1..Cardinality(rows) |-> res[SetToSeq(rows)[i]][f]])
    IN [wasted |-> total("wasted"), lowerBound |-> total("lowerBound"),
        censored |-> \E job \in rows : res[job].censored,
        unfinished |-> {job \in rows : ~res[job].completed},
        ownerWait |-> ownerAdmitToReady(ev, h), horizon |-> h]

replayAgreesWithRecord(m, ev, rows) ==
    /\ ev # <<>>
    /\ ~ReconstructRefuses(ev, rows, m.horizon)
    /\ measurementOf(ev, rows, m.horizon) = m

------------------------------------------------------------------------------
(* The claims behind a verdict.                                            *)

observationContinuous(obs) ==
    /\ obs # None /\ obs.established
    /\ \A k \in DOMAIN obs.streams : obs.streams[k] = "ended"

exclusivityHeld(w) == w # None /\ w.violations = 0 /\ w.versions >= 1

(* Mutant: the release is taken at its word, the audit not consulted. *)
clusterRestoredUnaudited(left, w) == left = {}

clusterRestored(left, w) ==
    /\ left = {}
    /\ w # None => w.restoration = "removed"

deriveValidity(o, left, qual, win, obs, preview) ==
    LET failures == {f \in {"incomplete", "observation", "environment", "exclusivity", "containment"} :
                       CASE f = "incomplete"  -> o # "passed"
                         [] f = "observation" -> ~observationContinuous(obs)
                         [] f = "environment" -> ~environmentEstablished(qual)
                         [] f = "exclusivity" -> ~exclusivityHeld(win)
                         [] f = "containment" -> ~clusterRestored(left, win)}
    IN [failures |-> failures,
        verdict  |-> CASE preview -> "preview"
                       [] ~preview /\ failures # {} -> "refused"
                       [] OTHER -> "admissible"]

(* buildRecord: a preview's record has its own shape, without the ledger.  *)
buildRecord(o, left, qual, win, obs, m, preview) ==
    [disposition |-> classified(o), left |-> left, qual |-> qual, win |-> win, obs |-> obs,
     measurement |-> IF preview THEN None ELSE m,
     preview |-> preview,
     validity |-> deriveValidity(classified(o), left, qual, win, obs, preview)]

(* checkValidity: a refusal names a failed claim; an admission must be     *)
(* what the record's own fields support; the measurement replays.          *)
checkValidity(r) ==
    /\ r.validity.verdict = "refused" => r.validity.failures # {}
    /\ r.validity.verdict = "admissible" =>
         /\ deriveValidity(r.disposition, r.left, r.qual, r.win, r.obs, r.preview).verdict = "admissible"
         /\ r.validity.failures = {}
    /\ r.measurement # None => r.measurement.replays

(* decodeRunRecord: a preview's fields are unknown to it.                  *)
decodeRunRecord(r) ==
    /\ ~r.preview
    /\ r.win # None => r.win.versions >= 1
    /\ checkValidity(r)

verifyRecordReadable(r) == IF r.preview THEN ~decodeRunRecord(r) ELSE decodeRunRecord(r)

(* reportRun's exit code.                                                  *)
reportRun(r, written) ==
    IF written /\ r.disposition = "passed" /\ verifyRecordReadable(r) THEN 0 ELSE 1
==============================================================================
