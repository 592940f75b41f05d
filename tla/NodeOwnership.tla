---------------------------- MODULE NodeOwnership ----------------------------
(***************************************************************************)
(* The ownership transaction of cmd/queuelabrun on one worker Node: runs   *)
(* that acquire, watch and release it, operators that release, force and   *)
(* clear it, and everything that can come between their reads and their    *)
(* writes: other writers of the Node, conflicts, failed reads, patches     *)
(* whose answer is lost and that land late, crashes, a replaced Node.      *)
(*                                                                         *)
(* Every write is one patch preconditioned on the version it was decided   *)
(* on.  "fresh" holds the processes whose last read still is the current   *)
(* version, and "flight" the unanswered patches that would still apply;    *)
(* a write empties both.                                                   *)
(***************************************************************************)
EXTENDS Naturals, FiniteSets

CONSTANTS Tx,               \* transactions of runs, one per process
          Operators,        \* processes that run an operator mode
          RunID,            \* RunID[t], the id the user gave the run
          None,             \* an absent label, annotation or journal
          Odd,              \* a marker value no run installs
          acquireAttempts,  \* Get/Patch rounds of acquire and of release
          resolveAttempts,  \* re-reads after an acquire patch without answer
          MaxEdits,         \* bound: writes by anybody else
          MaxCommands,      \* bound: operator commands
          MaxUID            \* bound: how often the Node is replaced

ASSUME OwnershipAssumption ==
    /\ Tx \cap Operators = {} /\ None \notin Tx \cup Operators
    /\ None # Odd /\ Odd \notin Tx /\ \A t \in Tx : RunID[t] \notin {None, Odd}
    /\ acquireAttempts \in Nat \ {0} /\ resolveAttempts \in Nat \ {0}
    /\ MaxEdits \in Nat /\ MaxCommands \in Nat /\ MaxUID \in Nat

VARIABLES node,     \* the Node's markers
          proc,     \* the state of each process
          fresh,    \* processes whose read is the current version
          flight,   \* patches sent, unanswered and still applicable
          window,   \* each run's ownership sentinel
          taken,    \* runs whose journal left the Node while they relied on it
          edits, commands

vars == <<node, proc, fresh, flight, window, taken, edits, commands>>

Procs   == Tx \cup Operators
Marks   == {RunID[t] : t \in Tx} \cup {Odd}
Journals == [tx : Tx, uid : 0..MaxUID, readable : BOOLEAN]
Quarantines == [id : 1..MaxCommands, uid : 0..MaxUID, prior : Tx \cup {None, Odd}]
(* "installed" is a function of the journal: its run id, twice.            *)
Nodes   == [uid : 0..MaxUID, label : Marks \cup {None}, taints : SUBSET Marks,
            journal : Journals \cup {None},
            quarantine : Quarantines \cup {None},
            residue : Tx \cup {None}]

(* An absent annotation is told from a present one. *)
ASSUME AbsentAssumption == None \notin Journals \cup Quarantines

Fresh(u) == [uid |-> u, label |-> None, taints |-> {}, journal |-> None,
             quarantine |-> None, residue |-> None]

Journal(t, u) == [tx |-> t, uid |-> u, readable |-> TRUE]

------------------------------------------------------------------------------
(* Decisions on one observation n of the Node.                             *)

decideAcquire(n) == /\ n.quarantine = None
                    /\ n.journal = None
                    /\ n.label = None /\ n.taints = {}

Acquired(n, t) == [n EXCEPT !.label = RunID[t], !.taints = {RunID[t]},
                            !.journal = Journal(t, n.uid)]

verifyInstalled(n, j) == /\ n.label = RunID[j.tx]
                         /\ n.taints = {RunID[j.tx]}
                         /\ n.uid = j.uid

verifyObserved(n, j) == n.journal = j /\ verifyInstalled(n, j)

(* "restore", "done" when nothing is there to undo, or "refused".          *)
decideRelease(n, t) ==
    IF n.quarantine = None /\ n.journal = None /\ n.label = None /\ n.taints = {}
      THEN "done"
    ELSE IF /\ n.quarantine = None
            /\ n.journal # None
            /\ n.journal # None => n.journal.readable /\ n.journal.tx = t
            /\ n.journal # None => verifyInstalled(n, n.journal)
      THEN "restore"
    ELSE "refused"

(* Mutant: the residue record outlives the hold it explains. *)
ReleasedKeepingResidue(n) == [n EXCEPT !.label = None, !.taints = {}, !.journal = None]

Released(n) == [n EXCEPT !.label = None, !.taints = {}, !.journal = None,
                         !.residue = None]

(* What a read-back must show before a release counts: this transaction's  *)
(* markers are gone from the same machine, whoever holds it now.           *)
verifyClean(n, j) ==
    /\ n.uid = j.uid
    /\ IF n.journal # None
         THEN n.journal.readable /\ n.journal.tx # j.tx
         ELSE n.label # RunID[j.tx] /\ RunID[j.tx] \notin n.taints

decideForce(n, u) == n.quarantine = None /\ n.uid = u

(* Mutant: a forced Node is free. *)
QuarantinedFree(n, id) == [n EXCEPT !.label = None, !.taints = {}, !.journal = None]

Quarantined(n, id) ==
    [n EXCEPT !.label = None, !.taints = {}, !.journal = None,
       !.quarantine = [id |-> id, uid |-> n.uid,
                       prior |-> IF n.journal = None THEN None
                                 ELSE IF n.journal.readable THEN n.journal.tx
                                 ELSE Odd]]

decideClear(n, id) == /\ n.quarantine # None
                      /\ n.quarantine # None => n.quarantine.id = id /\ n.quarantine.uid = n.uid

Cleared(n) == [n EXCEPT !.quarantine = None, !.residue = None]

Unmarked(n) == n.journal = None /\ n.label = None /\ n.taints = {}

------------------------------------------------------------------------------
Idle == [pc |-> "idle", tries |-> 0, jnl |-> None,
         why |-> "none", arg |-> 0, free |-> TRUE, out |-> "none",
         late |-> FALSE]  \* history: refused with its patch still in flight

Closed == [open |-> FALSE, unseen |-> FALSE, violated |-> FALSE]

Init == /\ node = Fresh(0)
        /\ proc = [x \in Procs |-> Idle]
        /\ fresh = {} /\ flight = {}
        /\ window = [t \in Tx |-> Closed]
        /\ taken = {}
        /\ edits = 0 /\ commands = 0

At(x, pc) == proc[x].pc = pc

(* The run has verified its acquisition and not yet closed its window.     *)
Relies(t) == proc[t].pc \in {"list", "open", "measure"}

Ended(t) == proc[t].pc \in {"end", "dead"}

Become(x, s) == proc' = [proc EXCEPT ![x] = s]
Goto(x, pc)  == Become(x, [proc[x] EXCEPT !.pc = pc])
AtEnd(out)   == [Idle EXCEPT !.pc = "end", !.out = out]

(* A run keeps how it ended; an operator is ready for the next command.    *)
EndOf(x, out) == IF x \in Tx THEN AtEnd(out) ELSE Idle

(* A committed write: stale reads, dead patches, and an event for every    *)
(* open window the new version diverges from.                              *)
Write(n) ==
    /\ node' = n
    /\ fresh' = {} /\ flight' = {}
    /\ window' = [t \in Tx |->
                    [window[t] EXCEPT !.unseen =
                       @ \/ /\ window[t].open
                            /\ ~verifyInstalled(n, proc[t].jnl)]]
    /\ taken' = taken \cup {t \in Tx : Relies(t) /\ n.journal # proc[t].jnl}

Quiet == UNCHANGED <<node, flight, window, taken, edits, commands>>

(* The process read the current version and goes on with it.               *)
ReadTo(x, s) == Become(x, s) /\ fresh' = fresh \cup {x} /\ Quiet

NoRead(x, s) == Become(x, s) /\ fresh' = fresh \ {x} /\ Quiet

(* A patch to n, decided on the version x read, which still is the Node    *)
(* when x is fresh: applied and answered, refused as a conflict, or        *)
(* without an answer, when it may still land.                              *)
PatchAnswered(x, n, s) ==
    x \in fresh /\ Write(n) /\ Become(x, s) /\ UNCHANGED <<edits, commands>>

PatchConflicts(x, s) == x \notin fresh /\ NoRead(x, s)

PatchUnanswered(x, n, s) ==
    /\ Become(x, s)
    /\ \/ x \in fresh /\ flight' = flight \cup {[by |-> x, new |-> n]}
       \/ UNCHANGED flight
    /\ fresh' = fresh \ {x}
    /\ UNCHANGED <<node, window, taken, edits, commands>>

Retry(x, pc, out) ==
    IF proc[x].tries > 1
      THEN [proc[x] EXCEPT !.pc = pc, !.tries = @ - 1]
      ELSE EndOf(x, out)

------------------------------------------------------------------------------
(* Acquisition.                                                            *)

StartRun(t) ==
    /\ At(t, "idle")
    /\ NoRead(t, [proc[t] EXCEPT !.pc = "acquire", !.tries = acquireAttempts])

AcquireGet(t) ==
    /\ At(t, "acquire")
    /\ \/ /\ decideAcquire(node)
          /\ ReadTo(t, [proc[t] EXCEPT !.pc = "patch", !.jnl = Journal(t, node.uid)])
       \/ /\ ~decideAcquire(node)
          /\ NoRead(t, AtEnd("refused"))
       \/ NoRead(t, AtEnd("refused"))  \* Get fails

AcquirePatch(t) ==
    /\ At(t, "patch")
    /\ LET n == Acquired(node, t) IN
         \/ PatchAnswered(t, n, [proc[t] EXCEPT !.pc = "verify"])
         \/ PatchConflicts(t, Retry(t, "acquire", "refused"))
         \/ PatchUnanswered(t, n, [proc[t] EXCEPT !.pc = "resolve", !.free = TRUE,
                                                  !.tries = resolveAttempts])

BeginRelease(x, why) == [proc[x] EXCEPT !.pc = "release", !.why = why,
                                        !.tries = acquireAttempts]

(* A verification that fails, or cannot read, undoes the acquisition.      *)
VerifyAcquired(t) ==
    /\ At(t, "verify")
    /\ \/ verifyObserved(node, proc[t].jnl) /\ NoRead(t, [proc[t] EXCEPT !.pc = "list"])
       \/ ~verifyObserved(node, proc[t].jnl) /\ NoRead(t, BeginRelease(t, "undo"))
       \/ NoRead(t, BeginRelease(t, "undo"))

InFlight(t) == \E f \in flight : f.by = t

(* One re-read of an acquisition without answer; a failed one leaves the   *)
(* window as `unread' says.  The window closes with the last re-read,      *)
(* whether or not the patch can still land.                                *)
ResolveRead(t, unread) ==
    LET last == proc[t].tries = 1
        next(free) ==
          IF ~last THEN [proc[t] EXCEPT !.tries = @ - 1, !.free = free]
          ELSE IF free THEN [AtEnd("refused") EXCEPT !.late = InFlight(t)]
          ELSE AtEnd("unresolved")
    IN /\ At(t, "resolve")
       /\ \/ /\ verifyObserved(node, proc[t].jnl)
             /\ NoRead(t, [proc[t] EXCEPT !.pc = "list"])
          \/ /\ node.journal # None
             /\ node.journal.readable /\ node.journal.tx # t
             /\ NoRead(t, AtEnd("refused"))
          \/ /\ Unmarked(node)
             /\ NoRead(t, next(proc[t].free))
          \/ /\ ~Unmarked(node) /\ ~verifyObserved(node, proc[t].jnl)
             /\ node.journal # None => ~(node.journal.readable /\ node.journal.tx # t)
             /\ NoRead(t, next(FALSE))
          \/ NoRead(t, next(unread))                                \* Get fails
          \/ /\ ~last                                               \* cancelled
             /\ NoRead(t, AtEnd("unresolved"))

(* Mutant: a read that failed does not spoil the window. *)
ResolveUnread(t) == ResolveRead(t, proc[t].free)

Resolve(t) == ResolveRead(t, FALSE)

------------------------------------------------------------------------------
(* The ownership window: a watch from a baseline, then an opening read.    *)

SetWindow(t, w) == window' = [window EXCEPT ![t] = w]

ListBaseline(t) ==
    /\ At(t, "list")
    /\ \/ /\ SetWindow(t, [window[t] EXCEPT !.open = TRUE])
          /\ Goto(t, "open")
          /\ UNCHANGED <<node, fresh, flight, taken, edits, commands>>
       \/ NoRead(t, BeginRelease(t, "abort"))

(* A failed read, a stream that ends or does not establish itself in time, *)
(* and a cancellation all close the window and release the worker.         *)
OpeningRead(t) ==
    /\ At(t, "open")
    /\ \/ /\ Goto(t, "measure")
          /\ SetWindow(t, [window[t] EXCEPT !.violated = @ \/ ~verifyInstalled(node, proc[t].jnl)])
       \/ /\ Become(t, BeginRelease(t, "abort"))
          /\ SetWindow(t, [window[t] EXCEPT !.open = FALSE, !.unseen = FALSE])
    /\ UNCHANGED <<node, fresh, flight, taken, edits, commands>>

(* The consumer sees a version that diverges, or the stream ending.        *)
ObserveDivergence(t) ==
    /\ window[t].open /\ window[t].unseen
    /\ SetWindow(t, [window[t] EXCEPT !.violated = TRUE, !.unseen = FALSE])
    /\ UNCHANGED <<node, proc, fresh, flight, taken, edits, commands>>

StreamLost(t) ==
    /\ window[t].open /\ ~window[t].violated
    /\ SetWindow(t, [window[t] EXCEPT !.violated = TRUE])
    /\ UNCHANGED <<node, proc, fresh, flight, taken, edits, commands>>

(* The run is over: the window closes, dropping what was not delivered,    *)
(* and the teardown decides between releasing and holding the worker.      *)
CloseWindow(t) ==
    /\ At(t, "measure")
    /\ SetWindow(t, [window[t] EXCEPT !.open = FALSE, !.unseen = FALSE])
    /\ \/ Become(t, BeginRelease(t, "finish"))
       \/ Goto(t, "stamp")
    /\ UNCHANGED <<node, fresh, flight, taken, edits, commands>>

StampGet(t) ==
    /\ At(t, "stamp")
    /\ \/ /\ verifyObserved(node, proc[t].jnl)
          /\ ReadTo(t, [proc[t] EXCEPT !.pc = "stamping"])
       \/ /\ ~verifyObserved(node, proc[t].jnl)
          /\ NoRead(t, AtEnd("held"))
       \/ NoRead(t, AtEnd("held"))

StampPatch(t) ==
    LET held == AtEnd("held")
        n == [node EXCEPT !.residue = t]
    IN /\ At(t, "stamping")
       /\ \/ PatchAnswered(t, n, held)
          \/ PatchConflicts(t, held)
          \/ PatchUnanswered(t, n, held)

------------------------------------------------------------------------------
(* Release, by the run itself or by -release-stale.                        *)

Failed(x) == CASE proc[x].why = "undo" -> "unresolved"
               [] proc[x].why = "stale" -> "failed"
               [] OTHER -> "notRestored"

Restored(x) == CASE proc[x].why = "undo" -> "refused"
                 [] proc[x].why = "stale" -> "done"
                 [] proc[x].why = "abort" -> "aborted"
                 [] window[x].violated -> "invalidated"
                 [] OTHER -> "clean"

(* Mutant: nothing to undo counts as restored. *)
AlreadyDoneIsFine(x) == Restored(x)

(* releaseOwned: to the run that holds the worker, "nothing to undo" means *)
(* that its markers were taken from it.                                    *)
AlreadyDone(x) == CASE proc[x].why = "undo" -> "refused"
                    [] proc[x].why = "stale" -> "done"
                    [] OTHER -> "notRestored"

Finish(x, out) == NoRead(x, EndOf(x, out))

ReleaseGet(x) ==
    /\ At(x, "release")
    /\ LET d == decideRelease(node, proc[x].jnl.tx) IN
         \/ d = "restore" /\ ReadTo(x, [proc[x] EXCEPT !.pc = "restore"])
         \/ d = "done" /\ Finish(x, AlreadyDone(x))
         \/ d = "refused" /\ Finish(x, Failed(x))
         \/ Finish(x, Failed(x))                                    \* Get fails

ReleasePatch(x) ==
    /\ At(x, "restore")
    /\ LET n == Released(node) IN
         \/ PatchAnswered(x, n, [proc[x] EXCEPT !.pc = "proveReleased"])
         \/ PatchConflicts(x, Retry(x, "release", Failed(x)))
         \/ PatchUnanswered(x, n, [proc[x] EXCEPT !.pc = "readBack"])

ProveReleased(x) ==
    /\ At(x, "proveReleased")
    /\ \/ verifyClean(node, proc[x].jnl) /\ Finish(x, Restored(x))
       \/ ~verifyClean(node, proc[x].jnl) /\ Finish(x, Failed(x))
       \/ Finish(x, Failed(x))

(* Without an answer only a Node nobody holds counts as restored.          *)
ReadBack(x) ==
    /\ At(x, "readBack")
    /\ \/ /\ verifyClean(node, proc[x].jnl) /\ node.journal = None
          /\ Finish(x, Restored(x))
       \/ /\ ~(verifyClean(node, proc[x].jnl) /\ node.journal = None)
          /\ Finish(x, Failed(x))
       \/ Finish(x, Failed(x))

------------------------------------------------------------------------------
(* Operator modes.  -confirm-owner-dead is the operator's word that the    *)
(* process that holds, or held, the Node is gone; it is given truthfully.  *)

Dead(t) == t = None \/ (t \in Tx /\ Ended(t)) \/ (t = Odd /\ \A u \in Tx : Ended(u) \/ At(u, "idle"))

Command(o, s) ==
    /\ At(o, "idle") /\ commands < MaxCommands
    /\ commands' = commands + 1
    /\ Become(o, s)
    /\ UNCHANGED <<node, fresh, flight, window, taken, edits>>

OrderReleaseStale(o) ==
    \E t \in Tx : Dead(t) /\ Command(o, [Idle EXCEPT !.pc = "stale", !.arg = t])

OrderForce(o) == Command(o, [Idle EXCEPT !.pc = "force", !.arg = node.uid])

OrderClear(o) ==
    /\ node.quarantine # None /\ Dead(node.quarantine.prior)
    /\ Command(o, [Idle EXCEPT !.pc = "clear", !.arg = node.quarantine.id])

StaleGet(o) ==
    /\ At(o, "stale")
    /\ LET d == decideRelease(node, proc[o].arg) IN
         \/ /\ d = "restore"
            /\ NoRead(o, [BeginRelease(o, "stale") EXCEPT !.jnl = node.journal])
         \/ d # "restore" /\ NoRead(o, Idle)
         \/ NoRead(o, Idle)

ForceGet(o) ==
    /\ At(o, "force")
    /\ \/ decideForce(node, proc[o].arg) /\ ReadTo(o, [proc[o] EXCEPT !.pc = "forcing", !.arg = commands])
       \/ NoRead(o, Idle)

ForcePatch(o) ==
    /\ At(o, "forcing")
    /\ LET n == Quarantined(node, proc[o].arg) IN
         \/ PatchAnswered(o, n, Idle)
         \/ PatchConflicts(o, Idle)
         \/ PatchUnanswered(o, n, Idle)

ClearGet(o) ==
    /\ At(o, "clear")
    /\ \/ decideClear(node, proc[o].arg) /\ ReadTo(o, [proc[o] EXCEPT !.pc = "clearing"])
       \/ NoRead(o, Idle)

ClearPatch(o) ==
    /\ At(o, "clearing")
    /\ LET n == Cleared(node) IN
         \/ PatchAnswered(o, n, Idle)
         \/ PatchConflicts(o, Idle)
         \/ PatchUnanswered(o, n, Idle)

------------------------------------------------------------------------------
(* The rest of the world.                                                  *)

Land == \E f \in flight : Write(f.new) /\ UNCHANGED <<proc, edits, commands>>

Vanish == \E f \in flight :
            /\ flight' = flight \ {f}
            /\ UNCHANGED <<node, proc, fresh, window, taken, edits, commands>>

Crash(t) ==
    /\ ~Ended(t) /\ ~At(t, "idle")
    /\ Become(t, [Idle EXCEPT !.pc = "dead"])
    /\ SetWindow(t, Closed)
    /\ fresh' = fresh \ {t}
    /\ UNCHANGED <<node, flight, taken, edits, commands>>

(* Others strip, add and restore markers, or damage the journal.           *)
EditMarkers ==
    /\ edits < MaxEdits /\ edits' = edits + 1
    /\ \E m \in {<<None, node.taints>>, <<node.label, {}>>, <<node.label, node.taints \cup {Odd}>>}
               \cup {<<RunID[t], {RunID[t]}>> : t \in Tx} :
         Write([node EXCEPT !.label = m[1], !.taints = m[2]])
    /\ UNCHANGED <<proc, commands>>

DamageJournal ==
    /\ edits < MaxEdits /\ edits' = edits + 1
    /\ node.journal # None
    /\ Write([node EXCEPT !.journal.readable = FALSE])
    /\ UNCHANGED <<proc, commands>>

(* Deleting the Node and joining another machine under its name.           *)
ReplaceNode ==
    /\ edits < MaxEdits /\ edits' = edits + 1
    /\ node.uid < MaxUID
    /\ Write(Fresh(node.uid + 1))
    /\ UNCHANGED <<proc, commands>>

------------------------------------------------------------------------------
RunStep(t) == \/ StartRun(t) \/ AcquireGet(t) \/ AcquirePatch(t) \/ VerifyAcquired(t)
              \/ Resolve(t) \/ ListBaseline(t) \/ OpeningRead(t)
              \/ ObserveDivergence(t) \/ StreamLost(t) \/ CloseWindow(t)
              \/ StampGet(t) \/ StampPatch(t) \/ Crash(t)

ReleaseStep(x) == ReleaseGet(x) \/ ReleasePatch(x) \/ ProveReleased(x) \/ ReadBack(x)

OperatorStep(o) == \/ OrderReleaseStale(o) \/ OrderForce(o) \/ OrderClear(o)
                   \/ StaleGet(o) \/ ForceGet(o) \/ ForcePatch(o)
                   \/ ClearGet(o) \/ ClearPatch(o)

Next == \/ \E t \in Tx : RunStep(t)
        \/ \E x \in Procs : ReleaseStep(x)
        \/ \E o \in Operators : OperatorStep(o)
        \/ Land \/ Vanish \/ EditMarkers \/ DamageJournal \/ ReplaceNode

Spec == Init /\ [][Next]_vars

------------------------------------------------------------------------------
RunPcs == {"idle", "acquire", "patch", "verify", "resolve", "list", "open", "measure",
           "stamp", "stamping", "release", "restore", "proveReleased", "readBack",
           "end", "dead"}
OperatorPcs == {"idle", "stale", "force", "forcing", "clear", "clearing",
                "release", "restore", "proveReleased", "readBack"}
Outcomes == {"none", "refused", "unresolved", "held", "aborted", "invalidated", "clean",
             "notRestored", "done", "failed"}

States == [pc : RunPcs \cup OperatorPcs, tries : Nat, jnl : Journals \cup {None},
           why : {"none", "undo", "abort", "finish", "stale"},
           arg : Nat \cup Tx, free : BOOLEAN, out : Outcomes,
           late : BOOLEAN]
Patches == [by : Procs, new : Nodes]
Windows == [open : BOOLEAN, unseen : BOOLEAN, violated : BOOLEAN]

TypeOK ==
    /\ node \in Nodes
    /\ proc \in [Procs -> States]
    /\ fresh \subseteq Procs
    /\ flight \subseteq Patches
    /\ window \in [Tx -> Windows]
    /\ taken \subseteq Tx
    /\ edits \in 0..MaxEdits /\ commands \in 0..MaxCommands

(* Two runs never rely on the same machine at the same time, whatever the  *)
(* order of their reads and patches and of the operators' commands         *)
(* (ownership_apply.go, acquireWorker; ownership.go, decideAcquire and     *)
(* decideClear).                                                           *)
Exclusive == \A t, u \in Tx :
    Relies(t) /\ Relies(u) /\ proc[t].jnl.uid = proc[u].jnl.uid => t = u

(* A run that ends clean held the Node from its acquisition to the end of  *)
(* its window: its journal never left it (releaseOwned, auditedRelease).   *)
CleanMeansExclusive == \A t \in Tx : proc[t].out = "clean" => t \notin taken

(* A run that refuses with nothing of its own to undo left no journal      *)
(* behind: not through a patch that landed while it was still looking or   *)
(* between reads that failed, not under another run's journal, nor through *)
(* an acquisition it undid.  The one exception is a patch that was still   *)
(* on its way when the window closed (resolveAmbiguousAcquire).            *)
NothingLeftUnnamed == \A t \in Tx :
    proc[t].out = "refused" =>
        node.journal = None \/ node.journal.tx # t \/ proc[t].late

(* "the node is free or foreign and the run refuses with nothing of ours   *)
(* to undo" (ownership_apply.go:325-326), without that exception.          *)
RefusedLeavesNothing == \A t \in Tx :
    proc[t].out = "refused" => node.journal = None \/ node.journal.tx # t

(* A residue record stands only on a Node that its own transaction holds,  *)
(* or that was taken from it by force (stampResidue, releaseAcquired,      *)
(* clearQuarantine).                                                       *)
ResidueExplainsHold ==
    node.residue # None =>
       \/ node.journal # None /\ node.journal.tx = node.residue
       \/ node.quarantine # None

(* The protocol implements the lease of one machine: the journal is the    *)
(* holder, the quarantine the bar, and the runs between their verified     *)
(* acquisition and the end of their window are its users.                  *)
Owner(n) == IF n.journal = None THEN None ELSE n.journal.tx

holder == Owner(node)
barred == node.quarantine # None
using  == {t \in Tx : Relies(t) /\ proc[t].jnl.uid = node.uid}

Lease == INSTANCE WorkerLease WITH holder <- holder, barred <- barred, using <- using

ImplementsLease == Lease!LSpec
==============================================================================
