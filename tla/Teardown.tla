------------------------------ MODULE Teardown ------------------------------
(***************************************************************************)
(* What a lab run creates on the cluster and how it takes it down again    *)
(* (cmd/queuelabrun teardown.go, teardown_apply.go, and ensureNamespace,   *)
(* applyFixtures and createOwned of collector.go).                         *)
(*                                                                         *)
(* The targets are one name per phase: the namespace, the ClusterQueue,    *)
(* the ResourceFlavor.  An object is ours when this run's Create stored    *)
(* it, theirs when anybody else's did; its stamp is the transaction label, *)
(* and only ours can carry this run's.                                     *)
(***************************************************************************)
EXTENDS Integers, Sequences, FiniteSets

CONSTANTS MaxMeddling,  \* bound: names taken by somebody else
          MaxErrors     \* bound: API calls that fail or are rewritten

(* enumerate: the targets in the order of their phases.                    *)
Phases  == <<"namespace", "clusterQueue", "resourceFlavor">>
Targets == {Phases[i] : i \in DOMAIN Phases}

(* run creates the flavor before the ClusterQueue that refers to it.       *)
SetupOrder == <<"namespace", "resourceFlavor", "clusterQueue">>

VARIABLES object,    \* object[t]: what the cluster holds under the name
          setupAt,   \* position in SetupOrder of the next Create
          latest,    \* latest[t]: the teardown's last observation
          sweep,     \* the settling loop: [phase, step]
          meddling, errors

tvars == <<object, setupAt, latest, sweep, meddling, errors>>

Nothing == [uid |-> "none", stamped |-> FALSE, terminating |-> FALSE]
Ours    == [uid |-> "ours", stamped |-> TRUE, terminating |-> FALSE]
Theirs  == [uid |-> "theirs", stamped |-> FALSE, terminating |-> FALSE]

(* observation: a read that failed, found nothing, or found an object.     *)
Unread == [err |-> FALSE, found |-> FALSE, uid |-> "none", wantUID |-> "none",
           foreign |-> FALSE, terminating |-> FALSE]

TInit == /\ object = [t \in Targets |-> Nothing]
         /\ meddling = 0
         /\ setupAt = 1
         /\ latest = [t \in Targets |-> Unread]
         /\ sweep = [phase |-> 0, step |-> "idle"]
         /\ errors = 0

(* What a run finds: names that somebody else took.                        *)
Found == /\ object' \in [Targets -> {Nothing, Theirs}]
         /\ meddling' = Cardinality({t \in Targets : object'[t] = Theirs})
         /\ meddling' <= MaxMeddling
         /\ UNCHANGED <<setupAt, latest, sweep, errors>>

Fails(b) == IF b THEN errors < MaxErrors /\ errors' = errors + 1 ELSE UNCHANGED errors

------------------------------------------------------------------------------
(* ensureNamespace, createOwned: the Create's answer is checked for the    *)
(* stamp; an object stored without it is deleted by its UID at once.       *)

SetUpTarget == SetupOrder[setupAt]

CreateStored(t) ==
    /\ object[t] = Nothing /\ object' = [object EXCEPT ![t] = Ours]
    /\ setupAt' = setupAt + 1
    /\ UNCHANGED <<latest, sweep, meddling, errors>>

(* deleteUnstamped; the second disjunct is the delete that fails as well.  *)
CreatedUnstamped(t) ==
    /\ object[t] = Nothing /\ Fails(TRUE)
    /\ \/ UNCHANGED object
       \/ object' = [object EXCEPT ![t] = [Ours EXCEPT !.stamped = FALSE]]
    /\ UNCHANGED <<setupAt, latest, sweep, meddling>>

(* A Create answered by an error, which may have been stored all the same. *)
CreateErrs(t) ==
    /\ object[t] = Nothing /\ Fails(TRUE)
    /\ object' \in {object, [object EXCEPT ![t] = Ours]}
    /\ UNCHANGED <<setupAt, latest, sweep, meddling>>

(* AlreadyExists under another stamp, or unreadable: refused either way.   *)
ExistsForeign(t) ==
    /\ object[t] # Nothing
    /\ UNCHANGED tvars

SetupFails(t) == CreatedUnstamped(t) \/ CreateErrs(t) \/ ExistsForeign(t)

------------------------------------------------------------------------------
(* classifyAbsence and what is made of it.                                 *)

classifyAbsence(o) ==
    CASE o.err -> "unknown"
      [] ~o.err /\ ~o.found -> "absent"
      [] ~o.err /\ o.found /\ o.foreign -> "foreign"
      [] ~o.err /\ o.found /\ ~o.foreign /\ o.wantUID = "none" -> "unknown"
      [] ~o.err /\ o.found /\ ~o.foreign /\ o.wantUID # "none" /\ o.uid # o.wantUID -> "foreign"
      [] OTHER -> "present"

phaseTargetSettled(o) == classifyAbsence(o) \in {"absent", "foreign"}

residual(obs) == {t \in Targets : classifyAbsence(obs[t]) # "absent"}

(* Mutant: an object whose state is unknown does not hold the worker. *)
residueHoldsWorkerIfSeen(obs) == \E t \in residual(obs) : classifyAbsence(obs[t]) = "present"

residueHoldsWorker(obs) == \E t \in residual(obs) : classifyAbsence(obs[t]) # "foreign"

------------------------------------------------------------------------------
(* recoverTargets: one read per name; the stamp says whose it is.          *)

Recovered(t, fails) ==
    IF fails THEN [Unread EXCEPT !.err = TRUE]
    ELSE IF object[t] = Nothing THEN Unread
    ELSE IF ~object[t].stamped THEN [Unread EXCEPT !.found = TRUE, !.uid = object[t].uid, !.foreign = TRUE]
    ELSE [Unread EXCEPT !.found = TRUE, !.uid = object[t].uid, !.wantUID = object[t].uid,
                        !.terminating = object[t].terminating]

BeginTeardown ==
    /\ sweep.step = "idle"
    /\ sweep' = [phase |-> 1, step |-> "recover"]
    /\ UNCHANGED <<object, setupAt, latest, meddling, errors>>

recoverTargets ==
    /\ sweep.step = "recover"
    /\ \E fails \in BOOLEAN :
         /\ Fails(fails)
         /\ latest' = [latest EXCEPT ![Phases[sweep.phase]] = Recovered(Phases[sweep.phase], fails)]
    /\ sweep' = IF sweep.phase < Len(Phases) THEN [sweep EXCEPT !.phase = @ + 1]
                ELSE [phase |-> 1, step |-> "delete"]
    /\ UNCHANGED <<object, setupAt, meddling>>

Sweeping(t, step) == sweep.step = step /\ sweep.phase <= Len(Phases) /\ t = Phases[sweep.phase]

(* Mutant: a delete by name. *)
deleteTargetByName(t) ==
    IF object[t] # Nothing THEN [object EXCEPT ![t].terminating = TRUE] ELSE object

(* deleteTarget: the precondition names the UID that was recovered.        *)
deleteTarget(t) ==
    IF object[t] # Nothing /\ object[t].uid = latest[t].wantUID
      THEN [object EXCEPT ![t].terminating = TRUE] ELSE object

(* settlePhase: delete what is present, re-read what is not settled, and   *)
(* stop when all of it is, or at the deadline.  A refused delete changes   *)
(* nothing here: the reading that follows decides.                         *)
settleDelete(t) ==
    /\ Sweeping(t, "delete")
    /\ \/ /\ classifyAbsence(latest[t]) = "present" /\ ~latest[t].terminating
          /\ \E fails \in BOOLEAN :
               Fails(fails) /\ object' \in (IF fails THEN {object, deleteTarget(t)} ELSE {deleteTarget(t)})
       \/ /\ classifyAbsence(latest[t]) # "present" \/ latest[t].terminating
          /\ UNCHANGED <<object, errors>>
    /\ sweep' = [sweep EXCEPT !.step = "observe"]
    /\ UNCHANGED <<setupAt, latest, meddling>>

observeTarget(t, fails) ==
    IF fails THEN [Unread EXCEPT !.err = TRUE, !.wantUID = latest[t].wantUID]
    ELSE [Unread EXCEPT !.found = object[t] # Nothing, !.uid = object[t].uid,
                        !.wantUID = latest[t].wantUID, !.terminating = object[t].terminating]

settleObserve(t) ==
    /\ Sweeping(t, "observe")
    /\ \/ phaseTargetSettled(latest[t]) /\ UNCHANGED <<latest, errors>>
       \/ /\ ~phaseTargetSettled(latest[t])
          /\ \E fails \in BOOLEAN :
               Fails(fails) /\ latest' = [latest EXCEPT ![t] = observeTarget(t, fails)]
    /\ sweep' = [sweep EXCEPT !.step = "decide"]
    /\ UNCHANGED <<object, setupAt, meddling>>

(* The loop of deleteTargets: the first phase that does not settle ends it. *)
settleDecide(t) ==
    /\ Sweeping(t, "decide")
    /\ \/ /\ phaseTargetSettled(latest[t])
          /\ sweep' = IF sweep.phase < Len(Phases) THEN [phase |-> sweep.phase + 1, step |-> "delete"]
                      ELSE [sweep EXCEPT !.step = "done"]
       \/ /\ ~phaseTargetSettled(latest[t])
          /\ \/ sweep' = [sweep EXCEPT !.step = "delete"]
             \/ sweep' = [sweep EXCEPT !.step = "done"]
    /\ UNCHANGED <<object, setupAt, latest, meddling, errors>>

deleteTargets == \/ recoverTargets
                 \/ \E t \in Targets : settleDelete(t) \/ settleObserve(t) \/ settleDecide(t)

TornDown == sweep.step = "done"
Left     == residual(latest)

------------------------------------------------------------------------------
(* The cluster meanwhile.  A finalizer holds a ClusterQueue while Workloads *)
(* of the namespace reserve it, and a flavor while a ClusterQueue uses it. *)

Finalize(t) ==
    /\ object[t].terminating
    /\ t = "clusterQueue" => object["namespace"].uid # "ours"
    /\ t = "resourceFlavor" => object["clusterQueue"].uid # "ours"
    /\ object' = [object EXCEPT ![t] = Nothing]
    /\ UNCHANGED <<setupAt, latest, sweep, meddling, errors>>

(* Somebody takes a free name, or deletes our object and takes its name.   *)
NameTaken(t) ==
    /\ object[t].uid # "theirs" /\ meddling < MaxMeddling
    /\ object' = [object EXCEPT ![t] = Theirs] /\ meddling' = meddling + 1
    /\ UNCHANGED <<setupAt, latest, sweep, errors>>

------------------------------------------------------------------------------
(* No object that somebody else created is deleted, whatever takes the     *)
(* name between the recovery, the deletes and the re-reads (deleteTarget's *)
(* UID precondition, createOwned's AlreadyExists).                         *)
ForeignUntouched == \A t \in Targets : object[t].uid = "theirs" => ~object[t].terminating
==============================================================================
