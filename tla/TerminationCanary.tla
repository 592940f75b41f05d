-------------------------- MODULE TerminationCanary --------------------------
(***************************************************************************)
(* The termination canary (cmd/queuelabrun canary.go, canary_apply.go): two *)
(* probe Pods that differ in the one command the arms differ in are asked   *)
(* to stop, what they do is judged, and the verdict is written on the       *)
(* worker, keyed by the machine it was taken on, for a run to consult.      *)
(*                                                                          *)
(* Time is in units of ten seconds and counts from the first delete.  The   *)
(* poll is far finer than a unit, so a read may happen at any point; a unit *)
(* that passes without one is a stall.  A version of the kubelet and the    *)
(* runtime is named by what it does with a Pod that is asked to stop.  The  *)
(* image, the commands, the exit code and the template hash of the key are  *)
(* constants of the build.                                                  *)
(***************************************************************************)
EXTENDS Integers, Sequences, FiniteSets

CONSTANTS DefaultGraces,  \* grace periods the cluster may default to
          MaxCanaries,    \* bound: canaries taken
          MaxChanges,     \* bound: upgrades, roll-outs, replacements
          MaxSkew         \* bound: units the two deletes may take

terminationGraceSec   == 3
canaryPromptWithin    == terminationGraceSec \div 3
canarySurvivesAtLeast == (2 * terminationGraceSec) \div 3
canaryStopSlack       == 3
canaryStopBudgetMax   == 18
honorExitCode         == 143
killExitCode          == 137

Probes == <<"honor", "ignore">>

(* What a runtime does: the contract; SIGKILL one unit after SIGTERM;       *)
(* SIGKILL at once; SIGKILL at the deadline and no SIGTERM; no SIGKILL.     *)
Versions == {"contract", "hasty", "kills", "deaf", "stuck"}
Never    == 1000

(* No watch lasts until Never.                                              *)
ASSUME SkewAssumption ==
    /\ MaxSkew \in Nat /\ MaxSkew + canaryStopBudgetMax < Never
    /\ DefaultGraces \subseteq Nat

VARIABLES machine,  \* the cluster's side: [uid, version, grace, operator]
          note,     \* the qualification the node carries
          canary,   \* the process: [step, at, ok, held, taken, doc, begun]
          probe,    \* probe[i]: the Pod and what was seen of it
          time, changes

kvars == <<machine, note, canary, probe, time, changes>>

NoKey   == [uid |-> -1, version |-> "none", grace |-> 0, operator |-> -1]
NoNote  == [key |-> NoKey, failed |-> TRUE, late |-> FALSE]
NoProbe == [pod |-> "none", grace |-> 0, code |-> 0, told |-> -1, t0 |-> -1, fresh |-> FALSE, after |-> -1]
AtRest  == [step |-> "idle", at |-> 1, ok |-> TRUE, held |-> FALSE, taken |-> 0, doc |-> NoNote, begun |-> 0]

KInit == /\ machine \in [uid : {0}, version : Versions, grace : DefaultGraces, operator : {0}]
         /\ note = NoNote /\ canary = AtRest
         /\ probe = [i \in 1..2 |-> NoProbe]
         /\ time = 0 /\ changes = 0

Terminated(i) == probe[i].after >= 0

Goto(s) == canary' = [canary EXCEPT !.step = s, !.at = 1, !.ok = TRUE, !.begun = 0,
                                    !.doc = IF s \in {"clear", "release"} THEN NoNote ELSE @]

------------------------------------------------------------------------------
(* The cluster.                                                             *)

(* When and how a container stops that was asked to.                        *)
Signals     == machine.version \in {"contract", "hasty", "stuck"}
Stops(i)    == IF Probes[i] = "honor" /\ Signals THEN honorExitCode ELSE killExitCode
Outlasts(i) == IF Probes[i] = "honor" /\ Signals THEN 0
               ELSE CASE machine.version = "kills" -> 0
                      [] machine.version = "hasty" -> 1
                      [] machine.version = "stuck" -> Never
                      [] OTHER -> probe[i].grace
Due(i) == probe[i].pod = "running" /\ probe[i].told >= 0 /\ probe[i].told + Outlasts(i) <= time

StopContainer(i) ==
    /\ Due(i)
    /\ probe' = [probe EXCEPT ![i] = [@ EXCEPT !.pod = "stopped", !.code = Stops(i), !.told = 0, !.fresh = TRUE]]
    /\ UNCHANGED <<machine, note, canary, time, changes>>

StartContainer(i) ==
    /\ probe[i].pod = "pending"
    /\ probe' = [probe EXCEPT ![i].pod = "running"]
    /\ UNCHANGED <<machine, note, canary, time, changes>>

(* A probe that fails by itself before it is asked to stop.                 *)
FailContainer(i) ==
    /\ probe[i].pod \in {"pending", "running"} /\ probe[i].told < 0
    /\ probe' = [probe EXCEPT ![i] = [@ EXCEPT !.pod = "stopped", !.code = 1]]
    /\ UNCHANGED <<machine, note, canary, time, changes>>

(* Somebody strips the canary's finalizer from a stopped probe.             *)
Vanish(i) ==
    /\ probe[i].pod = "stopped" /\ probe[i].told >= 0 /\ ~Terminated(i)
    /\ changes < MaxChanges /\ changes' = changes + 1
    /\ probe' = [probe EXCEPT ![i].pod = "gone"]
    /\ UNCHANGED <<machine, note, canary, time>>

Upgrade(v) ==
    /\ changes < MaxChanges /\ changes' = changes + 1
    /\ v # machine.version /\ machine' = [machine EXCEPT !.version = v]
    /\ UNCHANGED <<note, canary, probe, time>>

RollOut ==
    /\ changes < MaxChanges /\ changes' = changes + 1
    /\ machine' = [machine EXCEPT !.operator = @ + 1]
    /\ UNCHANGED <<note, canary, probe, time>>

(* The node is deleted and another machine of its kind joins under its      *)
(* name; marks, note and Pods go with it.                                   *)
Replace ==
    /\ changes < MaxChanges /\ changes' = changes + 1
    /\ machine' = [machine EXCEPT !.uid = @ + 1]
    /\ note' = NoNote
    /\ canary' = [canary EXCEPT !.held = FALSE]
    /\ probe' = [i \in 1..2 |-> IF probe[i].pod = "none" THEN probe[i] ELSE [probe[i] EXCEPT !.pod = "gone"]]
    /\ UNCHANGED time

Budget == LET b == probe[1].grace + canaryStopSlack
          IN IF b < canaryStopBudgetMax THEN b ELSE canaryStopBudgetMax

Tick ==
    /\ \/ canary.step \in {"ask", "stamp"} /\ probe[1].told >= 0 /\ time < MaxSkew
       \/ canary.step = "watch" /\ time < canary.begun + Budget
    /\ time' = time + 1
    /\ probe' = [i \in 1..2 |-> [probe[i] EXCEPT !.fresh = FALSE]]
    /\ UNCHANGED <<machine, note, canary, changes>>

------------------------------------------------------------------------------
(* terminationCanary.  A return before the probes exist goes to the release *)
(* of the worker, any later one clears the probes first.                    *)

takeWorker ==
    /\ canary.step = "idle" /\ canary.taken < MaxCanaries
    /\ canary' = [AtRest EXCEPT !.step = "key", !.held = TRUE, !.taken = canary.taken + 1]
    /\ probe' = [i \in 1..2 |-> NoProbe] /\ time' = 0
    /\ UNCHANGED <<machine, note, changes>>

(* Read after acquiring; the namespace and both Pods are then made ready.   *)
readNode ==
    /\ canary.step = "key"
    /\ \/ canary' = [canary EXCEPT !.step = "create", !.doc.key.uid = machine.uid,
                                   !.doc.key.version = machine.version]
       \/ Goto("release")
    /\ UNCHANGED <<machine, note, probe, time, changes>>

(* The grace period is the one the answer carries.                          *)
createProbe ==
    /\ canary.step = "create"
    /\ \/ /\ probe' = [probe EXCEPT ![canary.at] = [@ EXCEPT !.pod = "pending", !.grace = machine.grace]]
          /\ IF canary.at = 1 THEN canary' = [canary EXCEPT !.at = 2] ELSE Goto("start")
       \/ Goto("clear") /\ UNCHANGED probe
    /\ UNCHANGED <<machine, note, time, changes>>

(* One read of a round: running, not yet or unreadable, ended too early.    *)
(* A round that did not find both running is followed by another, or by the *)
(* end of the start budget.                                                 *)
awaitProbesRunning ==
    /\ canary.step = "start"
    /\ \E read \in BOOLEAN :
         LET pod == probe[canary.at].pod
             ok  == canary.ok /\ read /\ pod = "running"
         IN CASE read /\ pod = "stopped" -> Goto("clear")
              [] ~(read /\ pod = "stopped") /\ canary.at = 1 -> canary' = [canary EXCEPT !.at = 2, !.ok = ok]
              [] OTHER -> IF ok THEN Goto("ask") ELSE Goto("start") \/ Goto("clear")
    /\ UNCHANGED <<machine, note, probe, time, changes>>

(* deleteProbe: the Pod is told when the delete takes effect ...            *)
deleteProbe ==
    /\ canary.step = "ask"
    /\ \/ /\ probe[canary.at].pod # "gone"
          /\ probe' = [probe EXCEPT ![canary.at].told = time]
          /\ canary' = [canary EXCEPT !.step = "stamp"]
       \/ Goto("clear") /\ UNCHANGED probe
    /\ UNCHANGED <<machine, note, time, changes>>

(* ... and its clock starts when the answer is in.                          *)
stampDeleted ==
    /\ canary.step = "stamp"
    /\ probe' = [probe EXCEPT ![canary.at].t0 = time]
    /\ canary' = IF canary.at = 1 THEN [canary EXCEPT !.step = "ask", !.at = 2]
                 ELSE [canary EXCEPT !.step = "watch", !.at = 1, !.begun = time]
    /\ UNCHANGED <<machine, note, time, changes>>

(* StoppedAfterMs, as far as the thresholds tell it apart.                  *)
StoppedAfter(i) == LET d == time - probe[i].t0
                   IN IF d < canarySurvivesAtLeast THEN d ELSE canarySurvivesAtLeast

(* awaitProbesStopped: a read that succeeds.  The note's late is history:   *)
(* the ignoring probe's end was read a unit or more after it came, and the  *)
(* honouring probe's had been read before that.                             *)
readStopped(i) ==
    /\ canary.step = "watch" /\ ~Terminated(i) /\ probe[i].pod = "stopped"
    /\ probe' = [probe EXCEPT ![i] = [@ EXCEPT !.after = StoppedAfter(i), !.t0 = 0, !.fresh = FALSE]]
    /\ canary' = [canary EXCEPT !.doc.late = i = 2 /\ Terminated(1) /\ ~probe[2].fresh]
    /\ UNCHANGED <<machine, note, time, changes>>

(* Mutant: the honouring probe is judged by its promptness alone. *)
judgeCanaryByTime ==
    /\ \A i \in 1..2 : probe[i].grace = terminationGraceSec /\ Terminated(i)
    /\ probe[1].after <= canaryPromptWithin
    /\ probe[2].after >= canarySurvivesAtLeast /\ probe[2].code = killExitCode

(* No failed claim.                                                         *)
judgeCanary ==
    /\ \A i \in 1..2 : probe[i].grace = terminationGraceSec /\ Terminated(i)
    /\ probe[1].code = honorExitCode /\ probe[1].after <= canaryPromptWithin
    /\ probe[2].after >= canarySurvivesAtLeast /\ probe[2].code = killExitCode

(* operatorImageIDFrom: the digest, or -1 when the managers disagree or     *)
(* cannot be listed.                                                        *)
operatorImageID == {machine.operator, -1}

Key(k, grace, op) == [uid |-> k.uid, version |-> k.version, grace |-> grace, operator |-> op]

(* The watch is over: both ended or gone, the budget spent, or cancelled.   *)
endWatch ==
    /\ canary.step = "watch"
    /\ \E cancelled \in BOOLEAN :
         \/ \A i \in 1..2 : Terminated(i) \/ probe[i].pod = "gone"
         \/ time >= canary.begun + Budget \/ cancelled
    /\ \E op \in operatorImageID :
         canary' = [canary EXCEPT !.step = "record", !.doc.failed = ~judgeCanary,
                                  !.doc.key = Key(canary.doc.key, probe[1].grace, op)]
    /\ probe' = [i \in 1..2 |-> NoProbe] /\ time' = 0
    /\ UNCHANGED <<machine, note, changes>>

(* stampCanary: whatever the verdict; only on a node still held.            *)
stampCanary ==
    /\ canary.step = "record"
    /\ \/ canary.held /\ note' = canary.doc
       \/ UNCHANGED note
    /\ Goto("clear")
    /\ UNCHANGED <<machine, probe, time, changes>>

(* releaseProbes: a probe that could not be cleared is reported.            *)
releaseProbes ==
    /\ canary.step = "clear"
    /\ probe' = [i \in 1..2 |-> NoProbe] /\ time' = 0
    /\ Goto("release")
    /\ UNCHANGED <<machine, note, changes>>

(* releaseOwned, or a release that fails and leaves the node held.          *)
giveBack ==
    /\ canary.step = "release"
    /\ \/ canary' = [AtRest EXCEPT !.taken = canary.taken]
       \/ canary' = [AtRest EXCEPT !.taken = canary.taken, !.step = "left", !.held = canary.held]
    /\ UNCHANGED <<machine, note, probe, time, changes>>

(* The process dies; -inspect-worker is NodeOwnership's.                    *)
Die == /\ canary.step \notin {"idle", "left"}
       /\ canary' = [AtRest EXCEPT !.taken = canary.taken, !.step = "left", !.held = canary.held]
       /\ probe' = [i \in 1..2 |-> NoProbe] /\ time' = 0
       /\ UNCHANGED <<machine, note, changes>>

(* An operator clears the node under the canary.                            *)
LoseNode == /\ canary.held /\ changes < MaxChanges /\ changes' = changes + 1
            /\ canary' = [canary EXCEPT !.held = FALSE]
            /\ UNCHANGED <<machine, note, probe, time>>

(* The kubelet acts within the unit: nothing else moves before it has.      *)
NoneDue == ~Due(1) /\ ~Due(2)

CanarySteps ==
    \/ \E i \in 1..2 : StopContainer(i)
    \/ /\ NoneDue
       /\ \/ takeWorker \/ readNode \/ createProbe \/ awaitProbesRunning \/ deleteProbe \/ stampDeleted
          \/ endWatch \/ stampCanary \/ releaseProbes \/ giveBack \/ Die \/ Tick \/ LoseNode
          \/ \E i \in 1..2 : readStopped(i) \/ StartContainer(i) \/ FailContainer(i) \/ Vanish(i)

MachineChanges == NoneDue /\ (RollOut \/ Replace \/ \E v \in Versions : Upgrade(v))

------------------------------------------------------------------------------
(* The consult of a run: the note is this machine's and names no failure.   *)
checkTerminationCanary(op) ==
    /\ note.key = Key(machine, terminationGraceSec, op)
    /\ ~note.failed

CanarySpec == KInit /\ [][CanarySteps \/ MachineChanges]_kvars

------------------------------------------------------------------------------
(* What canary.go says of a stall: one that reaches both reads trips the    *)
(* honouring probe's bound first, and the exit code closes the case of one  *)
(* that reaches only one of them, so no stall makes a promptly killed probe *)
(* look like a survivor.  The code does not keep this: the loop no longer   *)
(* reads a probe it saw stop (awaitProbesStopped), and a runtime that kills *)
(* soon after the signal leaves the same exit code.                         *)
SurvivorIsReal == \A op \in operatorImageID : checkTerminationCanary(op) => machine.version # "hasty"
==============================================================================
