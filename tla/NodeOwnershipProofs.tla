------------------------ MODULE NodeOwnershipProofs ------------------------
(***************************************************************************)
(* Proofs about the ownership transaction, for any runs, operators, run    *)
(* ids, bounds and retry counts: type correctness, what a run's outcome    *)
(* says about the Node, exclusive use of a machine, and the refinement of  *)
(* the lease.                                                              *)
(***************************************************************************)
EXTENDS NodeOwnership, TLAPS

Releasing == {"release", "restore", "proveReleased", "readBack"}
Journaled == {"patch", "verify", "resolve", "list", "open", "measure", "stamp", "stamping"}
                \cup Releasing
\* A run that will not rely on the Node any more.
Past == {"stamp", "stamping", "end", "dead"} \cup Releasing

\* The run relies on the machine the Node's name now stands for.
Holding(t) == Relies(t) /\ proc[t].jnl.uid = node.uid

HasJournal(t) == node.journal # None /\ node.journal.tx = t

\* A journal names the machine it is on and rules out a quarantine.
NodeOK ==
    /\ node.journal # None => node.journal.uid = node.uid /\ node.quarantine = None
    /\ node.quarantine # None => node.quarantine.id <= commands
    /\ ResidueExplainsHold

\* What a run knows where it is.
RunOK(t) ==
    /\ proc[t].pc \in RunPcs
    /\ proc[t].pc \in Journaled =>
          /\ proc[t].jnl # None /\ proc[t].jnl.tx = t /\ proc[t].jnl.readable
          /\ proc[t].jnl.uid <= node.uid
    /\ proc[t].pc = "resolve" => proc[t].tries >= 1
    /\ proc[t].out # "none" => proc[t].pc = "end"

RunsOK == \A t \in Tx : RunOK(t)

\* An operator releases only for a run that has ended.
OperatorOK(o) ==
    /\ proc[o].pc \in OperatorPcs
    /\ proc[o].pc # "idle" => commands >= 1
    /\ proc[o].pc = "stale" => proc[o].arg \in Tx /\ Ended(proc[o].arg)
    /\ proc[o].pc \in Releasing => proc[o].jnl # None /\ Ended(proc[o].jnl.tx)
    /\ proc[o].pc = "forcing" => proc[o].arg \in 1..commands

OperatorsOK == \A o \in Operators : OperatorOK(o)

Clearing(o) == proc[o].pc \in {"clear", "clearing"}

\* An operator that clears a quarantine names one nobody lives through.
ClearOK == \A o \in Operators : Clearing(o) =>
    /\ proc[o].arg \in Nat /\ proc[o].arg < commands
    /\ node.quarantine # None /\ node.quarantine.id = proc[o].arg
          => \A t \in Tx : ~Holding(t)

\* A quarantine about to be written has an id no clear under way names.
NewId(id) == \A o \in Operators : Clearing(o) => proc[o].arg < id

\* What the process still knows of the Node when its read is the current version.
Informed(x) ==
    /\ proc[x].pc = "patch" => decideAcquire(node) /\ proc[x].jnl = Journal(x, node.uid)
    /\ proc[x].pc = "stamping" => node.journal = proc[x].jnl
    /\ proc[x].pc = "restore" => HasJournal(proc[x].jnl.tx)
    /\ proc[x].pc = "forcing" => node.quarantine = None /\ NewId(proc[x].arg)
    /\ proc[x].pc = "clearing" => node.quarantine # None /\ node.quarantine.id = proc[x].arg

FreshOK == \A x \in fresh : Informed(x)

\* A run that does not know whether its patch landed, or closed its window while
\* the patch was on its way.
Unsettled(t) == \/ proc[t].pc \in {"resolve", "dead"}
                \/ proc[t].pc = "end" /\ (proc[t].out = "unresolved" \/ proc[t].late)

\* A patch that may still land was decided on the Node as it is: an acquisition
\* of a free Node, a residue record beside its hold, a release nobody relies on,
\* a quarantine with a new id, a clear nobody lives through.
AcquireInFlight(f) == /\ f.by \in Tx /\ f.new = Acquired(node, f.by)
                      /\ decideAcquire(node)
                      /\ Unsettled(f.by) /\ f.by \notin taken
StampInFlight(f) == /\ f.by \in Tx /\ f.new = [node EXCEPT !.residue = f.by]
                    /\ HasJournal(f.by)
ReleaseInFlight(f) == /\ f.new = Released(node)
                      /\ node.journal # None /\ proc[node.journal.tx].pc \in Past
ForceInFlight(f) == /\ node.quarantine = None
                    /\ \E id \in 1..commands : NewId(id) /\ f.new = Quarantined(node, id)
ClearInFlight(f) == /\ f.new = Cleared(node) /\ node.quarantine # None
                    /\ \A t \in Tx : ~Holding(t)

Applicable(f) == \/ AcquireInFlight(f) \/ StampInFlight(f) \/ ReleaseInFlight(f)
                 \/ ForceInFlight(f) \/ ClearInFlight(f)

FlightOK == \A f \in flight : Applicable(f)

\* Who relies on the machine has its journal on it, or was barred from it by a
\* quarantine that names it or cannot tell.
HoldOK == \A t \in Tx :
    /\ Holding(t) => \/ HasJournal(t)
                     \/ node.quarantine # None /\ node.quarantine.prior \in {t, Odd}
    /\ Relies(t) /\ HasJournal(t) => node.journal.uid = proc[t].jnl.uid

\* A run that has not patched yet, or ended as refused with no patch of its own on
\* the way, has no journal there.
Absent(s) == \/ s.pc \in {"idle", "acquire", "patch"}
             \/ s.out = "refused" /\ ~s.late

AbsentOK == \A t \in Tx : Absent(proc[t]) => ~HasJournal(t)

\* A journal that left a run that relied on it never comes back legible.
TakenOK == \A t \in taken :
    /\ proc[t].pc \in {"list", "open", "measure", "stamp", "release", "end", "dead"}
    /\ proc[t].out # "clean"
    /\ HasJournal(t) => ~node.journal.readable

\* What every step is to the lease of the machine.
LeaseStep == [Lease!LNext]_(Lease!lvars)

IInv == /\ TypeOK /\ NodeOK /\ RunsOK /\ OperatorsOK /\ ClearOK
        /\ FreshOK /\ FlightOK /\ HoldOK /\ Exclusive /\ AbsentOK /\ TakenOK

-----------------------------------------------------------------------------
(* Steps of a run that write nothing.                                       *)

\* What a run's next state s has to keep when it moves without a write.
RunMayBecome(t, s) ==
    /\ s \in States /\ s.pc \in RunPcs
    /\ s.pc \in Journaled => /\ s.jnl # None /\ s.jnl.tx = t /\ s.jnl.readable
                             /\ s.jnl.uid <= node.uid
    /\ s.pc = "resolve" => s.tries >= 1
    /\ s.out # "none" => s.pc = "end"
    /\ ~Ended(t)
    /\ proc[t].pc \in Past => s.pc \in Past
    /\ s.pc \in {"list", "open", "measure"} =>
          \/ Relies(t) /\ s.jnl = proc[t].jnl
          \/ verifyObserved(node, s.jnl)
    /\ Absent(s) => ~HasJournal(t)
    /\ t \in taken => /\ s.pc \in {"list", "open", "measure", "stamp", "release", "end", "dead"}
                      /\ s.out # "clean"
    /\ \/ s.pc \in {"resolve", "dead"}
       \/ s.pc = "end" /\ (s.out = "unresolved" \/ s.late)
       \/ \A f \in flight : f.by = t => ~AcquireInFlight(f)

\* What a fresh reader's state has to say about the version it read.
RunMayRead(t, s) ==
    /\ s.pc = "patch" => decideAcquire(node) /\ s.jnl = Journal(t, node.uid)
    /\ s.pc = "stamping" => node.journal = s.jnl
    /\ s.pc = "restore" => HasJournal(s.jnl.tx)

\* The patches in flight afterwards are old ones, or apply to the Node.
FlightMayGrow ==
    \A f \in flight' : f \in flight \/ (f \in Patches /\ Applicable(f)')

\* A move of one run keeps the invariant and is a step of the lease.
LEMMA RunMove ==
    ASSUME IInv, NEW t \in Tx, NEW s, RunMayBecome(t, s), Become(t, s),
           fresh' \subseteq fresh \cup {t}, t \in fresh' => RunMayRead(t, s),
           FlightMayGrow,
           window' \in [Tx -> Windows],
           UNCHANGED <<node, taken, edits, commands>>
    PROVE  IInv' /\ LeaseStep
<1> USE OwnershipAssumption
<1>1. /\ proc' = [proc EXCEPT ![t] = s] /\ t \in Procs
      /\ node' = node /\ taken' = taken /\ commands' = commands /\ edits' = edits
      /\ proc'[t] = s /\ \A x \in Procs : x # t => proc'[x] = proc[x]
  BY DEF Become, IInv, TypeOK, Procs
<1>2. TypeOK'
  <2>1. flight' \subseteq Patches
    BY DEF IInv, TypeOK, FlightMayGrow
  <2> QED
    BY <1>1, <2>1 DEF IInv, TypeOK, RunMayBecome
<1>3. NodeOK'
  BY <1>1 DEF IInv, NodeOK, ResidueExplainsHold
<1>4. RunsOK'
  BY <1>1 DEF IInv, RunsOK, RunOK, RunMayBecome, Procs
<1>5. OperatorsOK'
  <2>1. \A u \in Tx : Ended(u) => Ended(u)' 
    BY <1>1 DEF Ended, RunMayBecome, Procs
  <2>2. \A o \in Operators : proc'[o] = proc[o] /\ (proc[o].jnl # None => proc[o].jnl.tx \in Tx)
    BY <1>1 DEF Procs, IInv, TypeOK, States, Journals
  <2> QED
    BY <1>1, <2>1, <2>2 DEF IInv, OperatorsOK, OperatorOK, Ended
<1>7. \A o \in Operators : Clearing(o)' => Clearing(o) /\ proc'[o] = proc[o]
  BY <1>1 DEF Clearing, Procs
<1>9. \A u \in Tx : Holding(u)' => Holding(u) \/ (u = t /\ s.jnl = node.journal /\ HasJournal(t))
  BY <1>1 DEF Holding, Relies, RunMayBecome, Procs, verifyObserved, HasJournal, Journaled
<1>10. node.quarantine # None => \A u \in Tx : Holding(u)' => Holding(u)
  BY <1>9 DEF IInv, NodeOK, HasJournal
<1>11. ClearOK'
  BY <1>1, <1>7, <1>10 DEF IInv, ClearOK
<1>12. \A id : NewId(id) => NewId(id)'
  BY <1>7 DEF NewId
<1>13. FreshOK'
  <2> SUFFICES ASSUME NEW x \in fresh' PROVE Informed(x)'
    BY DEF FreshOK
  <2>1. CASE x = t
    BY <2>1, <1>1 DEF Informed, RunMayRead, RunMayBecome, RunPcs, HasJournal, decideAcquire
  <2>2. CASE x # t
    <3>1. x \in fresh /\ proc'[x] = proc[x]
      BY <2>2, <1>1 DEF IInv, TypeOK
    <3> QED
      BY <3>1, <1>1, <1>12 DEF IInv, FreshOK, Informed, HasJournal, decideAcquire
  <2> QED
    BY <2>1, <2>2
<1>14. FlightOK'
  <2> SUFFICES ASSUME NEW f \in flight PROVE Applicable(f)'
    BY DEF FlightOK, FlightMayGrow
  <2>1. Applicable(f)
    BY DEF IInv, FlightOK
  <2>2. CASE AcquireInFlight(f)
    <3>1. Unsettled(f.by)'
      BY <2>2, <1>1 DEF AcquireInFlight, Unsettled, RunMayBecome, Procs
    <3> QED
      BY <2>2, <3>1, <1>1 DEF AcquireInFlight, Applicable, decideAcquire, Acquired, Journal
  <2>3. CASE StampInFlight(f)
    BY <2>3, <1>1 DEF StampInFlight, Applicable, HasJournal
  <2>4. CASE ReleaseInFlight(f)
    <3>1. node.journal.tx \in Tx
      BY <2>4 DEF ReleaseInFlight, IInv, TypeOK, Nodes, Journals
    <3>2. proc'[node.journal.tx].pc \in Past
      BY <2>4, <3>1, <1>1 DEF ReleaseInFlight, RunMayBecome, Procs
    <3> QED
      BY <2>4, <3>2, <1>1 DEF ReleaseInFlight, Applicable, Released
  <2>5. CASE ForceInFlight(f)
    BY <2>5, <1>1, <1>12 DEF ForceInFlight, Applicable, Quarantined
  <2>6. CASE ClearInFlight(f)
    BY <2>6, <1>1, <1>10 DEF ClearInFlight, Applicable, Cleared
  <2> QED
    BY <2>1, <2>2, <2>3, <2>4, <2>5, <2>6 DEF Applicable
<1>15. HoldOK'
  BY <1>1, <1>9 DEF IInv, HoldOK, Holding, HasJournal, Relies, RunMayBecome, Procs, verifyObserved
<1>16. Exclusive'
  <2>1. ASSUME NEW v \in Tx, v # t, Relies(v), s.pc \in {"list", "open", "measure"},
               proc[v].jnl.uid = s.jnl.uid
        PROVE  FALSE
    <3>1. CASE Relies(t) /\ s.jnl = proc[t].jnl
      BY <2>1, <3>1 DEF IInv, Exclusive
    <3>2. CASE verifyObserved(node, s.jnl)
      <4>1. node.journal # None /\ node.journal.tx = t /\ s.jnl.uid = node.uid
        BY <2>1, <3>2 DEF verifyObserved, verifyInstalled, RunMayBecome, Journaled
      <4>2. Holding(v) /\ node.quarantine = None
        BY <2>1, <4>1 DEF Holding, IInv, NodeOK
      <4> QED
        BY <2>1, <4>1, <4>2 DEF IInv, HoldOK, HasJournal
    <3> QED
      BY <2>1, <3>1, <3>2 DEF RunMayBecome
  <2> QED
    BY <2>1, <1>1 DEF IInv, Exclusive, Relies, Procs
<1>17. AbsentOK'
  BY <1>1 DEF IInv, AbsentOK, HasJournal, RunMayBecome, Procs
<1>18. TakenOK'
  BY <1>1 DEF IInv, TypeOK, TakenOK, HasJournal, RunMayBecome, Procs
<1>19. LeaseStep
  <2>1. holder' = holder /\ barred' = barred
    BY <1>1 DEF holder, barred, Owner
  <2>2. \A u \in Tx : u # t => (u \in using' <=> u \in using)
    BY <1>1 DEF using, Relies, Procs
  <2>3. t \in using' => t \in using \/ HasJournal(t)
    BY <1>9 DEF using, Holding
  <2>4. using \subseteq Tx /\ using' \subseteq Tx
    BY DEF using
  <2>5. CASE t \in using <=> t \in using'
    <3>1. using' = using
      BY <2>2, <2>4, <2>5
    <3> QED
      BY <2>1, <3>1 DEF LeaseStep, Lease!lvars
  <2>6. CASE t \in using /\ t \notin using'
    <3>1. using' = using \ {t}
      BY <2>2, <2>4, <2>6
    <3>2. Lease!Stop(t)
      BY <2>1, <2>6, <3>1 DEF Lease!Stop
    <3> QED
      BY <3>2 DEF LeaseStep, Lease!LNext
  <2>7. CASE t \notin using /\ t \in using'
    <3>1. HasJournal(t) /\ node.quarantine = None
      BY <2>3, <2>7 DEF IInv, NodeOK, HasJournal
    <3>2. using = {}
      BY <2>7, <3>1 DEF IInv, HoldOK, HasJournal, using, Holding
    <3>3. using' = {t}
      BY <2>2, <2>4, <2>7, <3>2
    <3>4. Lease!Use(t)
      BY <2>1, <3>1, <3>2, <3>3 DEF Lease!Use, holder, Owner, HasJournal
    <3> QED
      BY <3>4 DEF LeaseStep, Lease!LNext
  <2> QED
    BY <2>5, <2>6, <2>7
<1> QED
  BY <1>2, <1>3, <1>4, <1>5, <1>11, <1>13, <1>14, <1>15, <1>16, <1>17, <1>18, <1>19 DEF IInv

\* The two ways to move after a Get: the read is used, or forgotten.
LEMMA RunReads ==
    ASSUME IInv, NEW t \in Tx, NEW s, RunMayBecome(t, s),
           NoRead(t, s) \/ (ReadTo(t, s) /\ RunMayRead(t, s))
    PROVE  IInv' /\ LeaseStep
<1>1. /\ Become(t, s)
      /\ fresh' \subseteq fresh \cup {t}
      /\ t \in fresh' => RunMayRead(t, s)
      /\ UNCHANGED <<node, flight, window, taken, edits, commands>>
  BY DEF NoRead, ReadTo, Quiet
<1>2. window' \in [Tx -> Windows]
  BY <1>1 DEF IInv, TypeOK
<1>3. FlightMayGrow
  BY <1>1 DEF FlightMayGrow
<1>4. UNCHANGED <<node, taken, edits, commands>>
  BY <1>1
<1> QED
  BY <1>1, <1>2, <1>3, <1>4, RunMove

\* What the invariant says of one run and its state.
LEMMA RunFacts ==
    ASSUME IInv, NEW t \in Tx
    PROVE  /\ proc[t] \in States /\ proc[t].pc \in RunPcs /\ t \in Procs
           /\ proc[t].pc \in Journaled =>
                /\ proc[t].jnl # None /\ proc[t].jnl.tx = t /\ proc[t].jnl.readable
                /\ proc[t].jnl.uid <= node.uid /\ proc[t].jnl \in Journals
           /\ proc[t].out # "none" => proc[t].pc = "end"
           /\ node \in Nodes
           /\ t \in taken => proc[t].pc \in {"list", "open", "measure", "stamp", "release", "end", "dead"}
           /\ proc[t].pc \notin {"resolve", "dead", "end"} =>
                \A f \in flight : f.by = t => ~AcquireInFlight(f)
           /\ proc[t].pc \in {"idle", "acquire", "patch"} => ~HasJournal(t)
BY DEF IInv, TypeOK, RunsOK, RunOK, States, Procs, TakenOK, AbsentOK, AcquireInFlight, Unsettled, Absent

\* The zero state and a final one are states.
LEMMA EndTypes ==
    /\ Idle \in States
    /\ \A out \in Outcomes : AtEnd(out) \in States /\ AtEnd(out).pc = "end" /\ AtEnd(out).out = out
          /\ ~AtEnd(out).late
<1>1. Idle \in States
  BY DEF Idle, States, RunPcs, OperatorPcs, Outcomes
<1>2. ASSUME NEW out \in Outcomes
      PROVE  AtEnd(out) \in States /\ AtEnd(out).pc = "end" /\ AtEnd(out).out = out
          /\ ~AtEnd(out).late
  BY <1>1 DEF AtEnd, Idle, States, RunPcs
<1> QED
  BY <1>1, <1>2

\* A run may end, as "refused" only when its journal is not on the Node and no
\* acquisition of it is under way, as "clean" only when it held the Node throughout.
LEMMA MayEnd ==
    ASSUME IInv, NEW t \in Tx, NEW out \in Outcomes \ {"none"}, ~Ended(t),
           out = "refused" => ~HasJournal(t),
           out = "clean" => t \notin taken,
           \/ out = "unresolved"
           \/ \A f \in flight : f.by = t => ~AcquireInFlight(f)
    PROVE  RunMayBecome(t, AtEnd(out))
BY EndTypes DEF RunMayBecome, RunPcs, Journaled, Releasing, Past, Absent

\* acquireWorker begins.
LEMMA StartRunKeeps ==
    ASSUME IInv, NEW t \in Tx, StartRun(t) PROVE IInv' /\ LeaseStep
<1> DEFINE s == [proc[t] EXCEPT !.pc = "acquire", !.tries = acquireAttempts]
<1>1. proc[t] \in States /\ acquireAttempts \in Nat
  BY RunFacts, OwnershipAssumption
<1>2. s \in States /\ s.pc = "acquire" /\ s.jnl = proc[t].jnl /\ s.out = proc[t].out
  BY <1>1 DEF States, RunPcs
<1>3. RunMayBecome(t, s)
  BY <1>2, RunFacts DEF StartRun, At, RunMayBecome, RunPcs, Journaled, Releasing, Past, Ended
<1> QED
  BY <1>3, RunReads DEF StartRun

\* The Get of an acquisition: refused, or the free Node is remembered.
LEMMA AcquireGetKeeps ==
    ASSUME IInv, NEW t \in Tx, AcquireGet(t) PROVE IInv' /\ LeaseStep
<1> DEFINE s == [proc[t] EXCEPT !.pc = "patch", !.jnl = Journal(t, node.uid)]
<1>1. CASE decideAcquire(node) /\ ReadTo(t, s)
  <2>1. node.uid \in 0..MaxUID /\ proc[t] \in States /\ proc[t].pc = "acquire"
    BY RunFacts DEF Nodes, AcquireGet, At
  <2>2. Journal(t, node.uid) \in Journals /\ Journal(t, node.uid).tx = t
        /\ Journal(t, node.uid).readable /\ Journal(t, node.uid).uid = node.uid
    BY <2>1 DEF Journal, Journals
  <2>3. s \in States /\ s.pc = "patch" /\ s.jnl = Journal(t, node.uid) /\ s.out = proc[t].out
    BY <2>1, <2>2 DEF States, RunPcs
  <2>4. RunMayBecome(t, s)
    BY <2>1, <2>2, <2>3, RunFacts, AbsentAssumption
       DEF RunMayBecome, RunPcs, Journaled, Releasing, Past, Ended
  <2>5. RunMayRead(t, s)
    BY <1>1, <2>3 DEF RunMayRead
  <2> QED
    BY <1>1, <2>4, <2>5, RunReads
<1>2. CASE NoRead(t, AtEnd("refused"))
  <2>1. RunMayBecome(t, AtEnd("refused"))
    BY RunFacts, MayEnd DEF AcquireGet, At, Ended, Outcomes
  <2> QED
    BY <1>2, <2>1, RunReads
<1> QED
  BY <1>1, <1>2 DEF AcquireGet

\* A run may go on with the journal it has.
LEMMA MayGoOn ==
    ASSUME IInv, NEW t \in Tx, NEW s \in States, s.jnl = proc[t].jnl, s.out = proc[t].out,
           proc[t].pc \in Journaled, s.pc \in Journaled \ {"patch"},
           s.pc = "resolve" => s.tries >= 1,
           proc[t].pc \in Past => s.pc \in Past,
           s.pc \in {"list", "open", "measure"} => Relies(t) \/ verifyObserved(node, proc[t].jnl),
           t \in taken => s.pc \in {"list", "open", "measure", "stamp", "release"},
           proc[t].pc = "resolve" => s.pc = "resolve" \/ node.journal # None
    PROVE  RunMayBecome(t, s)
<1>1. s.pc \in RunPcs /\ s.pc \notin {"idle", "acquire", "patch"}
  BY DEF RunPcs, Journaled, Releasing
<1>2. ~Ended(t) /\ s.out = "none"
  BY RunFacts DEF Ended, Journaled, Releasing
<1>3. \/ s.pc = "resolve"
      \/ \A f \in flight : f.by = t => ~AcquireInFlight(f)
  BY RunFacts DEF AcquireInFlight, decideAcquire, Journaled, Releasing
<1> QED
  BY <1>1, <1>2, <1>3, RunFacts DEF RunMayBecome, Absent

\* BeginRelease changes where a run is, and why.
LEMMA BeginReleaseType ==
    ASSUME IInv, NEW x \in Procs, NEW why \in {"undo", "abort", "finish", "stale"}
    PROVE  LET s == BeginRelease(x, why) IN
             s \in States /\ s.pc = "release" /\ s.jnl = proc[x].jnl /\ s.out = proc[x].out
<1>1. proc[x] \in States /\ acquireAttempts \in Nat
  BY OwnershipAssumption DEF IInv, TypeOK
<1> QED
  BY <1>1 DEF BeginRelease, States, RunPcs

\* A run whose acquisition stands, or has to be undone, starts its release.
LEMMA MayBeginRelease ==
    ASSUME IInv, NEW t \in Tx, NEW why \in {"undo", "abort", "finish"},
           proc[t].pc \in {"verify", "list", "open", "measure"}
    PROVE  RunMayBecome(t, BeginRelease(t, why))
<1>1. LET s == BeginRelease(t, why) IN
        s \in States /\ s.pc = "release" /\ s.jnl = proc[t].jnl /\ s.out = proc[t].out
  BY BeginReleaseType DEF Procs
<1> QED
  BY <1>1, MayGoOn DEF Journaled, Releasing, Past

\* A change of place is a change of state.
LEMMA PcType ==
    ASSUME IInv, NEW x \in Procs, NEW pc \in RunPcs \cup OperatorPcs
    PROVE  LET s == [proc[x] EXCEPT !.pc = pc] IN
             s \in States /\ s.pc = pc /\ s.jnl = proc[x].jnl /\ s.out = proc[x].out
               /\ s.arg = proc[x].arg
<1>1. proc[x] \in States
  BY DEF IInv, TypeOK
<1> QED
  BY <1>1 DEF States

\* verifyAcquired: the run relies on the worker, or undoes what it did.
LEMMA VerifyAcquiredKeeps ==
    ASSUME IInv, NEW t \in Tx, VerifyAcquired(t) PROVE IInv' /\ LeaseStep
<1> DEFINE s == [proc[t] EXCEPT !.pc = "list"]
<1>1. proc[t].pc = "verify"
  BY DEF VerifyAcquired, At
<1>2. CASE verifyObserved(node, proc[t].jnl) /\ NoRead(t, s)
  <2>1. s \in States /\ s.pc = "list" /\ s.jnl = proc[t].jnl /\ s.out = proc[t].out
    BY PcType DEF Procs, RunPcs
  <2>2. RunMayBecome(t, s)
    BY <1>1, <1>2, <2>1, MayGoOn DEF Journaled, Past, Releasing
  <2> QED
    BY <1>2, <2>2, RunReads
<1>3. CASE NoRead(t, BeginRelease(t, "undo"))
  BY <1>1, <1>3, MayBeginRelease, RunReads
<1> QED
  BY <1>2, <1>3 DEF VerifyAcquired

\* resolveAmbiguousAcquire, one re-read.
LEMMA ResolveKeeps ==
    ASSUME IInv, NEW t \in Tx, Resolve(t) PROVE IInv' /\ LeaseStep
<1> DEFINE s == [proc[t] EXCEPT !.pc = "list"]
           again(free) == [proc[t] EXCEPT !.tries = @ - 1, !.free = free]
<1>1. /\ proc[t].pc = "resolve" /\ proc[t] \in States /\ ~Ended(t) /\ t \notin taken
      /\ proc[t].tries \in Nat /\ proc[t].tries >= 1 /\ proc[t].free \in BOOLEAN
  <2>1. proc[t].pc = "resolve" /\ proc[t] \in States
    BY RunFacts DEF Resolve, ResolveRead, At
  <2> QED
    BY <2>1, RunFacts DEF IInv, RunsOK, RunOK, Ended, States
<1>2. CASE verifyObserved(node, proc[t].jnl) /\ NoRead(t, s)
  <2>1. s \in States /\ s.pc = "list" /\ s.jnl = proc[t].jnl /\ s.out = proc[t].out
    BY PcType DEF Procs, RunPcs
  <2>2. node.journal # None
    BY <1>1, <1>2, RunFacts DEF verifyObserved, Journaled
  <2>3. RunMayBecome(t, s)
    BY <1>1, <1>2, <2>1, <2>2, MayGoOn DEF Journaled, Past, Releasing
  <2> QED
    BY <1>2, <2>3, RunReads
<1>3. CASE node.journal # None /\ node.journal.tx # t /\ NoRead(t, AtEnd("refused"))
  <2>1. \A f \in flight : ~AcquireInFlight(f)
    BY <1>3 DEF AcquireInFlight, decideAcquire
  <2>2. RunMayBecome(t, AtEnd("refused"))
    BY <1>1, <1>3, <2>1, MayEnd DEF Outcomes, HasJournal
  <2> QED
    BY <1>3, <2>2, RunReads
<1>4. CASE NoRead(t, AtEnd("unresolved"))
  <2>1. RunMayBecome(t, AtEnd("unresolved"))
    BY <1>1, MayEnd DEF Outcomes
  <2> QED
    BY <1>4, <2>1, RunReads
<1>5. ASSUME NEW late \in BOOLEAN, late = InFlight(t), Unmarked(node),
             NoRead(t, [AtEnd("refused") EXCEPT !.late = late])
      PROVE  IInv' /\ LeaseStep
  <2> DEFINE e == [AtEnd("refused") EXCEPT !.late = late]
  <2>1. /\ e \in States /\ e.pc = "end" /\ e.out = "refused" /\ e.late = late
    BY EndTypes DEF States, Outcomes
  <2>2. ~late => \A f \in flight : f.by # t
    BY <1>5 DEF InFlight
  <2>3. RunMayBecome(t, e)
    <3> HIDE DEF e
    <3> QED
      BY <1>1, <1>5, <2>1, <2>2
         DEF RunMayBecome, RunPcs, Journaled, Releasing, Past, HasJournal, Unmarked
  <2> QED
    BY <1>5, <2>3, RunReads
<1>6. ASSUME NEW free \in BOOLEAN, proc[t].tries # 1, NoRead(t, again(free))
      PROVE  IInv' /\ LeaseStep
  <2>1. /\ again(free) \in States /\ again(free).pc = "resolve" /\ again(free).jnl = proc[t].jnl
        /\ again(free).out = proc[t].out /\ again(free).tries >= 1
    <3>1. proc[t].tries - 1 \in Nat /\ proc[t].tries - 1 >= 1
      BY <1>1, <1>6
    <3> QED
      BY <1>1, <3>1 DEF States
  <2>2. RunMayBecome(t, again(free))
    BY <1>1, <2>1, MayGoOn DEF Journaled, Past, Releasing
  <2> QED
    BY <1>6, <2>2, RunReads
<1>7. InFlight(t) \in BOOLEAN
  BY DEF InFlight
<1> QED
  BY <1>1, <1>2, <1>3, <1>4, <1>5, <1>6, <1>7 DEF Resolve, ResolveRead

\* The steps of the window change the run's place and its own sentinel.
LEMMA RunWatches ==
    ASSUME IInv, NEW t \in Tx, NEW s, RunMayBecome(t, s), Become(t, s),
           s.pc \notin {"patch", "stamping", "restore"},
           NEW w \in Windows, SetWindow(t, w),
           fresh' \subseteq fresh, UNCHANGED <<node, flight, taken, edits, commands>>
    PROVE  IInv' /\ LeaseStep
<1>1. window' \in [Tx -> Windows]
  BY DEF IInv, TypeOK, SetWindow
<1>2. FlightMayGrow
  BY DEF FlightMayGrow
<1>3. RunMayRead(t, s)
  BY DEF RunMayRead
<1>4. UNCHANGED <<node, taken, edits, commands>> /\ fresh' \subseteq fresh \cup {t}
  OBVIOUS
<1> QED
  BY <1>1, <1>2, <1>3, <1>4, RunMove

\* A window that is opened, closed or found violated is a window.
LEMMA WindowTypes ==
    ASSUME IInv, NEW t \in Tx, NEW b \in BOOLEAN
    PROVE  /\ window[t] \in Windows /\ Closed \in Windows
           /\ [window[t] EXCEPT !.open = TRUE] \in Windows
           /\ [window[t] EXCEPT !.violated = @ \/ b] \in Windows
           /\ [window[t] EXCEPT !.violated = TRUE] \in Windows
           /\ [window[t] EXCEPT !.violated = TRUE, !.unseen = FALSE] \in Windows
           /\ [window[t] EXCEPT !.open = FALSE, !.unseen = FALSE] \in Windows
<1>1. window[t] \in Windows
  BY DEF IInv, TypeOK
<1> QED
  BY <1>1 DEF Windows, Closed

\* The window opens on a baseline.
LEMMA ListBaselineKeeps ==
    ASSUME IInv, NEW t \in Tx, ListBaseline(t) PROVE IInv' /\ LeaseStep
<1> DEFINE s == [proc[t] EXCEPT !.pc = "open"]
           w == [window[t] EXCEPT !.open = TRUE]
<1>1. proc[t].pc = "list"
  BY DEF ListBaseline, At
<1>2. CASE /\ SetWindow(t, w) /\ Goto(t, "open")
           /\ UNCHANGED <<node, fresh, flight, taken, edits, commands>>
  <2>1. s \in States /\ s.pc = "open" /\ s.jnl = proc[t].jnl /\ s.out = proc[t].out
    BY PcType DEF Procs, RunPcs
  <2>2. RunMayBecome(t, s)
    BY <1>1, <2>1, MayGoOn DEF Journaled, Past, Releasing, Relies
  <2>3. w \in Windows
    BY WindowTypes
  <2>4. fresh' \subseteq fresh /\ UNCHANGED <<node, flight, taken, edits, commands>>
    BY <1>2
  <2> HIDE DEF s, w
  <2> QED
    BY <1>2, <2>1, <2>2, <2>3, <2>4, RunWatches DEF Goto, s, w
<1>3. CASE NoRead(t, BeginRelease(t, "abort"))
  BY <1>1, <1>3, MayBeginRelease, RunReads
<1> QED
  BY <1>2, <1>3 DEF ListBaseline

\* The opening read of the window.
LEMMA OpeningReadKeeps ==
    ASSUME IInv, NEW t \in Tx, OpeningRead(t) PROVE IInv' /\ LeaseStep
<1> DEFINE s == [proc[t] EXCEPT !.pc = "measure"]
           b == ~verifyInstalled(node, proc[t].jnl)
<1>1. /\ proc[t].pc = "open" /\ fresh' \subseteq fresh
      /\ UNCHANGED <<node, flight, taken, edits, commands>>
  BY DEF OpeningRead, At
<1>2. CASE Goto(t, "measure") /\ SetWindow(t, [window[t] EXCEPT !.violated = @ \/ b])
  <2>1. s \in States /\ s.pc = "measure" /\ s.jnl = proc[t].jnl /\ s.out = proc[t].out
    BY PcType DEF Procs, RunPcs
  <2>2. RunMayBecome(t, s)
    BY <1>1, <2>1, MayGoOn DEF Journaled, Past, Releasing, Relies
  <2>3. [window[t] EXCEPT !.violated = @ \/ b] \in Windows
    BY WindowTypes
  <2> QED
    BY <1>1, <1>2, <2>1, <2>2, <2>3, RunWatches DEF Goto
<1>3. CASE /\ Become(t, BeginRelease(t, "abort"))
           /\ SetWindow(t, [window[t] EXCEPT !.open = FALSE, !.unseen = FALSE])
  <2>1. BeginRelease(t, "abort").pc = "release"
    BY BeginReleaseType DEF Procs
  <2> QED
    BY <1>1, <1>3, <2>1, MayBeginRelease, WindowTypes, RunWatches
<1> QED
  BY <1>2, <1>3 DEF OpeningRead

\* The window closes: the worker is released or held.
LEMMA CloseWindowKeeps ==
    ASSUME IInv, NEW t \in Tx, CloseWindow(t) PROVE IInv' /\ LeaseStep
<1> DEFINE s == [proc[t] EXCEPT !.pc = "stamp"]
           w == [window[t] EXCEPT !.open = FALSE, !.unseen = FALSE]
<1>1. /\ proc[t].pc = "measure" /\ fresh' \subseteq fresh /\ SetWindow(t, w) /\ w \in Windows
      /\ UNCHANGED <<node, flight, taken, edits, commands>>
  BY WindowTypes DEF CloseWindow, At
<1>2. CASE Goto(t, "stamp")
  <2>1. s \in States /\ s.pc = "stamp" /\ s.jnl = proc[t].jnl /\ s.out = proc[t].out
    BY PcType DEF Procs, RunPcs
  <2>2. RunMayBecome(t, s)
    BY <1>1, <2>1, MayGoOn DEF Journaled, Past, Releasing, Relies
  <2> QED
    BY <1>1, <1>2, <2>1, <2>2, RunWatches DEF Goto
<1>3. CASE Become(t, BeginRelease(t, "finish"))
  <2>1. BeginRelease(t, "finish").pc = "release"
    BY BeginReleaseType DEF Procs
  <2> QED
    BY <1>1, <1>3, <2>1, MayBeginRelease, RunWatches
<1> QED
  BY <1>2, <1>3 DEF CloseWindow

\* A run dies and keeps nothing but its markers on the Node.
LEMMA CrashKeeps ==
    ASSUME IInv, NEW t \in Tx, Crash(t) PROVE IInv' /\ LeaseStep
<1> DEFINE s == [Idle EXCEPT !.pc = "dead"]
<1>1. s \in States /\ s.pc = "dead" /\ s.out = "none"
  BY EndTypes DEF Idle, States, RunPcs
<1>2. RunMayBecome(t, s)
  BY <1>1 DEF Crash, RunMayBecome, RunPcs, Journaled, Releasing, Past, Absent
<1>3. /\ Become(t, s) /\ SetWindow(t, Closed) /\ fresh' \subseteq fresh
      /\ UNCHANGED <<node, flight, taken, edits, commands>>
  BY DEF Crash
<1> QED
  BY <1>1, <1>2, <1>3, WindowTypes, RunWatches

\* stampResidue: the Get.
LEMMA StampGetKeeps ==
    ASSUME IInv, NEW t \in Tx, StampGet(t) PROVE IInv' /\ LeaseStep
<1> DEFINE s == [proc[t] EXCEPT !.pc = "stamping"]
<1>1. proc[t].pc = "stamp" /\ ~Ended(t) /\ (t \in taken => ~verifyObserved(node, proc[t].jnl))
  BY RunFacts DEF StampGet, At, Ended, IInv, TakenOK, HasJournal, verifyObserved, Journaled
<1>2. CASE verifyObserved(node, proc[t].jnl) /\ ReadTo(t, s)
  <2>1. s \in States /\ s.pc = "stamping" /\ s.jnl = proc[t].jnl /\ s.out = proc[t].out
    BY PcType DEF Procs, RunPcs
  <2>2. RunMayBecome(t, s)
    BY <1>1, <1>2, <2>1, MayGoOn DEF Journaled, Past, Releasing
  <2>3. RunMayRead(t, s)
    BY <1>2, <2>1 DEF RunMayRead, verifyObserved
  <2> QED
    BY <1>2, <2>2, <2>3, RunReads
<1>3. CASE NoRead(t, AtEnd("held"))
  <2>1. RunMayBecome(t, AtEnd("held"))
    BY <1>1, RunFacts, MayEnd DEF Outcomes
  <2> QED
    BY <1>3, <2>1, RunReads
<1> QED
  BY <1>2, <1>3 DEF StampGet

-----------------------------------------------------------------------------
(* Writes.                                                                  *)

\* The ways a write may move the lease of the machine.
LeaseAllows(n) ==
    \/ n.uid > node.uid /\ Owner(n) = None /\ n.quarantine = None
    \/ /\ n.uid = node.uid
       /\ \/ /\ Owner(n) = Owner(node)
             /\ n.quarantine # None <=> node.quarantine # None
          \/ /\ Owner(node) = None /\ Owner(n) \in Tx
             /\ node.quarantine = None /\ n.quarantine = None
          \/ /\ Owner(n) = None /\ Owner(node) \in Tx /\ ~Relies(Owner(node))
             /\ node.quarantine = None /\ n.quarantine = None
          \/ /\ Owner(n) = None
             /\ node.quarantine = None /\ n.quarantine # None
          \/ /\ Owner(n) = Owner(node) /\ \A t \in Tx : ~Holding(t)
             /\ node.quarantine # None /\ n.quarantine = None

\* What a committed version n has to keep of the Node it replaces.
NodeMayBecome(n) ==
    /\ LeaseAllows(n)
    /\ n \in Nodes /\ n.uid >= node.uid
    /\ n.journal # None => n.journal.uid = n.uid /\ n.quarantine = None
    /\ n.residue # None => \/ n.journal # None /\ n.journal.tx = n.residue
                           \/ n.quarantine # None
    /\ n.quarantine # None => /\ n.quarantine.id <= commands
                              /\ \/ n.quarantine = node.quarantine /\ n.uid = node.uid
                                 \/ NewId(n.quarantine.id)
    /\ \A t \in Tx : Relies(t) /\ proc[t].jnl.uid = n.uid =>
          \/ n.journal # None /\ n.journal.tx = t
          \/ n.quarantine # None /\ n.quarantine.prior \in {t, Odd}

\* The journal of n is the one that was there, perhaps damaged since.
JournalStays(n) ==
    /\ node.journal # None
    /\ n.journal.tx = node.journal.tx /\ n.journal.uid = node.journal.uid
    /\ n.journal.readable => node.journal.readable

\* Or a run that was waiting to get one has it now.
JournalArrives(n) ==
    LET u == n.journal.tx IN
    /\ u \notin taken /\ ~Relies(u)
    /\ ~Absent(proc'[u])

\* The process whose patch was answered goes on, past using the Node.
MayGetAnswer(x, s) ==
    /\ s \in States
    /\ x \in Tx =>
          /\ s.pc \in RunPcs \ {"resolve", "list", "open", "measure", "idle", "acquire", "patch"}
          /\ s.pc \in Journaled => s.jnl = proc[x].jnl
          /\ s.out \in {"none", "held"} /\ (s.out # "none" => s.pc = "end")
          /\ proc[x].pc \in Journaled /\ ~Relies(x) /\ x \notin taken
    /\ x \in Operators =>
          \/ s = Idle
          \/ s.pc = "proveReleased" /\ s.jnl = proc[x].jnl /\ proc[x].pc = "restore"

\* A committed write keeps the invariant and is a step of the lease.
LEMMA WriteMove ==
    ASSUME IInv, NEW n, NodeMayBecome(n), Write(n),
           n.journal # None => JournalStays(n) \/ JournalArrives(n),
           \/ UNCHANGED proc
           \/ \E x \in Procs : \E s : MayGetAnswer(x, s) /\ Become(x, s),
           edits' \in 0..MaxEdits, UNCHANGED commands
    PROVE  IInv' /\ LeaseStep
<1> USE OwnershipAssumption
<1>1. /\ node' = n /\ fresh' = {} /\ flight' = {} /\ commands' = commands /\ n \in Nodes
      /\ taken' = taken \cup {t \in Tx : Relies(t) /\ n.journal # proc[t].jnl}
  BY DEF Write, NodeMayBecome
<1>2. window' \in [Tx -> Windows]
  <2> DEFINE b(t) == window[t].open /\ ~verifyInstalled(n, proc[t].jnl)
  <2>1. ASSUME NEW t \in Tx PROVE [window[t] EXCEPT !.unseen = @ \/ b(t)] \in Windows
    <3>1. window[t] \in Windows
      BY DEF IInv, TypeOK
    <3> QED
      BY <3>1 DEF Windows
  <2> QED
    BY <2>1 DEF Write
<1>3. proc' \in [Procs -> States]
  BY DEF IInv, TypeOK, MayGetAnswer, Become
<1>4. TypeOK'
  BY <1>1, <1>2, <1>3 DEF IInv, TypeOK
<1>5. \A t \in Tx : \/ proc'[t] = proc[t]
                    \/ MayGetAnswer(t, proc'[t])
  BY DEF Become, IInv, TypeOK, Procs
<1>6. \A o \in Operators : proc'[o] = proc[o] \/ MayGetAnswer(o, proc'[o])
  BY DEF Become, IInv, TypeOK, Procs
<1>7. \A t \in Tx : /\ Relies(t)' <=> Relies(t)
                    /\ Relies(t) => proc'[t] = proc[t]
                    /\ Ended(t) => proc'[t] = proc[t]
  BY <1>5 DEF Relies, Ended, MayGetAnswer, Journaled, Releasing
<1>8. \A o \in Operators : Clearing(o)' => Clearing(o) /\ proc'[o] = proc[o]
  BY <1>6 DEF Clearing, MayGetAnswer, Idle
<1>9. NodeOK'
  BY <1>1 DEF NodeMayBecome, NodeOK, ResidueExplainsHold
<1>10. RunsOK'
  <2> SUFFICES ASSUME NEW t \in Tx PROVE RunOK(t)'
    BY DEF RunsOK
  <2>1. RunOK(t)
    BY DEF IInv, RunsOK
  <2>2. proc[t].pc \in Journaled => proc[t].jnl.uid <= n.uid
    <3>1. node.uid \in Nat /\ n.uid \in Nat /\ node.uid <= n.uid
      BY DEF NodeMayBecome, Nodes, IInv, TypeOK
    <3>2. proc[t].pc \in Journaled => proc[t].jnl.uid \in Nat /\ proc[t].jnl.uid <= node.uid
      BY RunFacts DEF Journals
    <3> QED
      BY <3>1, <3>2
  <2> QED
    BY <1>1, <1>5, <2>1, <2>2 DEF RunOK, MayGetAnswer
<1>11. OperatorsOK'
  <2> SUFFICES ASSUME NEW o \in Operators PROVE OperatorOK(o)'
    BY DEF OperatorsOK
  <2>1. OperatorOK(o) /\ (proc[o].jnl # None => proc[o].jnl.tx \in Tx)
    BY DEF IInv, OperatorsOK, TypeOK, Procs, States, Journals
  <2>2. CASE proc'[o] = proc[o]
    BY <1>1, <1>7, <2>1, <2>2 DEF OperatorOK, Ended
  <2>3. CASE proc'[o] = Idle
    BY <2>3 DEF OperatorOK, Idle, OperatorPcs, Releasing
  <2>4. CASE /\ proc'[o].pc = "proveReleased" /\ proc'[o].jnl = proc[o].jnl
             /\ proc[o].pc = "restore"
    BY <1>1, <1>7, <2>1, <2>4 DEF OperatorOK, Ended, OperatorPcs, Releasing
  <2> QED
    BY <1>6, <2>2, <2>3, <2>4 DEF MayGetAnswer
<1>12. ClearOK'
  <2> SUFFICES ASSUME NEW o \in Operators, Clearing(o)'
               PROVE  /\ proc'[o].arg \in Nat /\ proc'[o].arg < commands
                      /\ n.quarantine # None /\ n.quarantine.id = proc'[o].arg
                           => \A t \in Tx : ~Holding(t)'
    BY <1>1 DEF ClearOK
  <2>1. Clearing(o) /\ proc'[o] = proc[o] /\ proc[o].arg \in Nat /\ proc[o].arg < commands
    BY <1>8 DEF IInv, ClearOK
  <2>2. ASSUME n.quarantine # None, n.quarantine.id = proc[o].arg
        PROVE  n.quarantine = node.quarantine /\ n.uid = node.uid
    <3>1. ~NewId(n.quarantine.id)
      BY <2>1, <2>2 DEF NewId
    <3> QED
      BY <2>2, <3>1 DEF NodeMayBecome
  <2>3. n.uid = node.uid => \A t \in Tx : Holding(t)' => Holding(t)
    BY <1>1, <1>7 DEF Holding
  <2> QED
    BY <2>1, <2>2, <2>3 DEF IInv, ClearOK
<1>13. FreshOK' /\ FlightOK'
  BY <1>1 DEF FreshOK, FlightOK
<1>14. HoldOK'
  <2> SUFFICES ASSUME NEW t \in Tx, Relies(t)
               PROVE  /\ Holding(t)' => \/ HasJournal(t)'
                                        \/ n.quarantine # None /\ n.quarantine.prior \in {t, Odd}
                      /\ HasJournal(t)' => n.journal.uid = proc[t].jnl.uid
    BY <1>1, <1>7 DEF HoldOK, Holding
  <2>1. Holding(t)' => \/ HasJournal(t)'
                       \/ n.quarantine # None /\ n.quarantine.prior \in {t, Odd}
    BY <1>1, <1>7 DEF NodeMayBecome, Holding, HasJournal
  <2>2. HasJournal(t)' => n.journal.uid = proc[t].jnl.uid
    BY <1>1 DEF HasJournal, IInv, HoldOK, JournalStays, JournalArrives
  <2> QED
    BY <2>1, <2>2
<1>15. Exclusive'
  BY <1>7 DEF IInv, Exclusive
<1>16. \A t \in Tx : HasJournal(t)' => \/ HasJournal(t) /\ JournalStays(n)
                                       \/ t = n.journal.tx /\ JournalArrives(n)
  BY <1>1 DEF HasJournal, JournalStays
<1>17. AbsentOK'
  <2> SUFFICES ASSUME NEW t \in Tx,
                      Absent(proc'[t]),
                      HasJournal(t)'
               PROVE  FALSE
    BY DEF AbsentOK
  <2>1. HasJournal(t)
    BY <1>16 DEF JournalArrives
  <2>2. proc'[t] = proc[t]
    BY <1>5 DEF MayGetAnswer, Absent
  <2> QED
    BY <2>1, <2>2 DEF IInv, AbsentOK
<1>18. TakenOK'
  <2> SUFFICES ASSUME NEW t \in taken'
               PROVE  /\ proc'[t].pc \in {"list", "open", "measure", "stamp", "release", "end", "dead"}
                      /\ proc'[t].out # "clean"
                      /\ HasJournal(t)' => ~n.journal.readable
    BY <1>1 DEF TakenOK
  <2>1. CASE t \in taken
    <3>1. t \in Tx /\ proc'[t] = proc[t]
      BY <2>1, <1>5 DEF IInv, TypeOK, MayGetAnswer
    <3> QED
      BY <2>1, <3>1, <1>16 DEF IInv, TakenOK, JournalStays, JournalArrives
  <2>2. CASE t \in Tx /\ Relies(t) /\ n.journal # proc[t].jnl
    <3>1. proc'[t] = proc[t] /\ proc[t].out = "none"
      BY <2>2, <1>7, RunFacts DEF Relies
    <3>2. ASSUME HasJournal(t)', n.journal.readable PROVE FALSE
      <4>1. HasJournal(t) /\ JournalStays(n) /\ n.journal # None /\ n.journal.tx = t
        BY <2>2, <3>2, <1>1, <1>16 DEF JournalArrives, HasJournal
      <4>2. n.journal.uid = proc[t].jnl.uid
        BY <2>2, <4>1 DEF IInv, HoldOK, JournalStays
      <4>3. n.journal \in Journals /\ proc[t].jnl \in Journals
            /\ proc[t].jnl.tx = t /\ proc[t].jnl.readable
        <5>1. n.journal \in Journals
          BY <4>1, <1>1 DEF Nodes
        <5> QED
          BY <5>1, <2>2, RunFacts DEF Relies, Journaled
      <4>4. n.journal = proc[t].jnl
        BY <3>2, <4>1, <4>2, <4>3 DEF Journals
      <4> QED
        BY <2>2, <4>4
    <3> QED
      BY <2>2, <3>1, <3>2 DEF Relies
  <2> QED
    BY <1>1, <2>1, <2>2
<1>19. LeaseStep
  <2>1. holder' = Owner(n) /\ (barred' <=> n.quarantine # None)
    BY <1>1 DEF holder, barred, Owner
  <2>2. n.uid = node.uid => using' = using
    BY <1>1, <1>7 DEF using
  <2>3. \A t \in Tx : t \in using <=> Holding(t)
    BY DEF using, Holding
  <2>4. CASE n.uid > node.uid /\ Owner(n) = None /\ n.quarantine = None
    <3>1. using' = {}
      <4> SUFFICES ASSUME NEW t \in Tx, Relies(t) PROVE proc[t].jnl.uid # n.uid
        BY <1>1, <1>7 DEF using
      <4>1. proc[t].jnl.uid \in Nat /\ proc[t].jnl.uid <= node.uid
        BY RunFacts DEF Relies, Journaled, Journals
      <4>2. node.uid \in Nat /\ n.uid \in Nat
        BY DEF NodeMayBecome, Nodes, IInv, TypeOK
      <4> QED
        BY <2>4, <4>1, <4>2
    <3>2. Lease!Replace
      BY <2>1, <2>4, <3>1 DEF Lease!Replace, barred
    <3> QED
      BY <3>2 DEF LeaseStep, Lease!LNext
  <2>5. CASE /\ n.uid = node.uid /\ Owner(n) = Owner(node)
             /\ n.quarantine # None <=> node.quarantine # None
    BY <2>1, <2>2, <2>5 DEF LeaseStep, Lease!lvars, holder, barred
  <2>6. CASE /\ n.uid = node.uid /\ Owner(node) = None /\ Owner(n) \in Tx
             /\ node.quarantine = None /\ n.quarantine = None
    <3>1. Lease!Take(Owner(n))
      BY <2>1, <2>2, <2>6 DEF Lease!Take, holder, barred
    <3> QED
      BY <2>6, <3>1 DEF LeaseStep, Lease!LNext
  <2>7. CASE /\ n.uid = node.uid /\ Owner(n) = None /\ Owner(node) \in Tx
             /\ ~Relies(Owner(node)) /\ node.quarantine = None /\ n.quarantine = None
    <3>1. Lease!GiveBack(Owner(node))
      BY <2>1, <2>2, <2>7 DEF Lease!GiveBack, holder, barred, using
    <3> QED
      BY <2>7, <3>1 DEF LeaseStep, Lease!LNext
  <2>8. CASE /\ n.uid = node.uid /\ Owner(n) = None
             /\ node.quarantine = None /\ n.quarantine # None
    <3>1. Lease!Break
      BY <2>1, <2>2, <2>8 DEF Lease!Break, barred
    <3> QED
      BY <3>1 DEF LeaseStep, Lease!LNext
  <2>9. CASE /\ n.uid = node.uid /\ Owner(n) = Owner(node) /\ \A t \in Tx : ~Holding(t)
             /\ node.quarantine # None /\ n.quarantine = None
    <3>1. using = {}
      BY <2>9 DEF using, Holding
    <3>2. Lease!Unbar
      BY <2>1, <2>2, <2>9, <3>1 DEF Lease!Unbar, holder, barred
    <3> QED
      BY <3>2 DEF LeaseStep, Lease!LNext
  <2> QED
    BY <2>4, <2>5, <2>6, <2>7, <2>8, <2>9 DEF NodeMayBecome, LeaseAllows
<1> QED
  BY <1>4, <1>9, <1>10, <1>11, <1>12, <1>13, <1>14, <1>15, <1>17, <1>18, <1>19 DEF IInv

\* The versions the patches and the other writers produce, field by field.
LEMMA AcquiredFields ==
    ASSUME node \in Nodes, NEW t \in Tx
    PROVE  LET n == Acquired(node, t) IN
             /\ n \in Nodes /\ n.uid = node.uid /\ n.quarantine = node.quarantine
             /\ n.residue = node.residue /\ n.journal # None
             /\ n.journal.tx = t /\ n.journal.uid = node.uid
<1>1. node.uid \in 0..MaxUID /\ RunID[t] \in Marks
  BY DEF Nodes, Marks
<1>2. Journal(t, node.uid) \in Journals /\ Journal(t, node.uid).tx = t
      /\ Journal(t, node.uid).uid = node.uid
  BY <1>1 DEF Journal, Journals
<1>3. Journal(t, node.uid) # None
  BY <1>2, AbsentAssumption
<1> QED
  BY <1>1, <1>2, <1>3 DEF Acquired, Nodes

\* Released takes every marker of the transaction off.
LEMMA ReleasedFields ==
    ASSUME node \in Nodes
    PROVE  LET n == Released(node) IN
             /\ n \in Nodes /\ n.uid = node.uid /\ n.quarantine = node.quarantine
             /\ n.residue = None /\ n.journal = None
BY DEF Released, Nodes

\* Quarantined remembers whose journal it took.
LEMMA QuarantinedFields ==
    ASSUME node \in Nodes, NEW id \in 1..MaxCommands
    PROVE  LET n == Quarantined(node, id) IN
             /\ n \in Nodes /\ n.uid = node.uid /\ n.journal = None
             /\ n.quarantine # None /\ n.quarantine.id = id
             /\ node.journal = None => n.quarantine.prior = None
             /\ node.journal # None => n.quarantine.prior \in {node.journal.tx, Odd}
<1> DEFINE q == [id |-> id, uid |-> node.uid,
                 prior |-> IF node.journal = None THEN None
                           ELSE IF node.journal.readable THEN node.journal.tx
                           ELSE Odd]
<1>1. node.uid \in 0..MaxUID /\ (node.journal # None => node.journal.tx \in Tx)
  BY DEF Nodes, Journals
<1>2. q \in Quarantines /\ q.id = id
  BY <1>1 DEF Quarantines
<1>3. q # None
  BY <1>2, AbsentAssumption
<1>4. /\ node.journal = None => q.prior = None
      /\ node.journal # None => q.prior \in {node.journal.tx, Odd}
  OBVIOUS
<1> HIDE DEF q
<1>5. Quarantined(node, id) = [node EXCEPT !.label = None, !.taints = {}, !.journal = None,
                                           !.quarantine = q]
  BY DEF Quarantined, q
<1> QED
  BY <1>2, <1>3, <1>4, <1>5 DEF Nodes

\* Cleared lifts the bar and the residue it explained.
LEMMA ClearedFields ==
    ASSUME node \in Nodes
    PROVE  LET n == Cleared(node) IN
             /\ n \in Nodes /\ n.uid = node.uid /\ n.journal = node.journal
             /\ n.residue = None /\ n.quarantine = None
BY DEF Cleared, Nodes

\* The residue patch adds one annotation.
LEMMA StampedFields ==
    ASSUME node \in Nodes, NEW t \in Tx
    PROVE  LET n == [node EXCEPT !.residue = t] IN
             /\ n \in Nodes /\ n.uid = node.uid /\ n.journal = node.journal
             /\ n.residue = t /\ n.quarantine = node.quarantine
BY DEF Nodes

\* Nobody who relies on a machine loses it by these writes.
LEMMA AcquiredKept ==
    ASSUME IInv, NEW t \in Tx, decideAcquire(node)
    PROVE  NodeMayBecome(Acquired(node, t))
<1> DEFINE n == Acquired(node, t)
<1>1. /\ n \in Nodes /\ n.uid = node.uid /\ n.quarantine = node.quarantine
      /\ n.residue = node.residue /\ n.journal # None
      /\ n.journal.tx = t /\ n.journal.uid = node.uid /\ node \in Nodes
  BY AcquiredFields DEF IInv, TypeOK
<1>2. node.quarantine = None /\ node.journal = None /\ node.residue = None
  BY DEF decideAcquire, IInv, NodeOK, ResidueExplainsHold
<1>3. \A u \in Tx : ~Holding(u)
  BY <1>2 DEF IInv, HoldOK, HasJournal
<1>4. n.uid >= node.uid
  BY <1>1 DEF Nodes
<1>5. LeaseAllows(n)
  BY <1>1, <1>2 DEF LeaseAllows, Owner
<1> HIDE DEF n
<1> QED
  BY <1>1, <1>2, <1>3, <1>4, <1>5 DEF NodeMayBecome, Holding, n

\* ... a release, because its owner is past using the Node,
LEMMA ReleasedKept ==
    ASSUME IInv, node.journal # None, proc[node.journal.tx].pc \in Past
    PROVE  NodeMayBecome(Released(node))
<1> DEFINE n == Released(node)
<1>1. /\ n \in Nodes /\ n.uid = node.uid /\ n.quarantine = node.quarantine
      /\ n.residue = None /\ n.journal = None /\ node \in Nodes
  BY ReleasedFields DEF IInv, TypeOK
<1>2. node.quarantine = None
  BY DEF IInv, NodeOK
<1>3. \A u \in Tx : ~Holding(u)
  BY <1>2 DEF IInv, HoldOK, HasJournal, Holding, Relies, Past, Releasing
<1>4. n.uid >= node.uid
  BY <1>1 DEF Nodes
<1>5. node.journal.tx \in Tx /\ ~Relies(node.journal.tx)
  BY <1>1 DEF Nodes, Journals, Relies, Past, Releasing
<1> HIDE DEF n
<1>6. LeaseAllows(n)
  BY <1>1, <1>2, <1>5 DEF LeaseAllows, Owner
<1> QED
  BY <1>1, <1>2, <1>3, <1>4, <1>6 DEF NodeMayBecome, Holding, n

\* ... a quarantine, because it names the owner it barred,
LEMMA QuarantinedKept ==
    ASSUME IInv, NEW id \in 1..commands, node.quarantine = None, NewId(id)
    PROVE  NodeMayBecome(Quarantined(node, id))
<1> DEFINE n == Quarantined(node, id)
<1>1. node \in Nodes /\ id \in 1..MaxCommands /\ id <= commands
  BY OwnershipAssumption DEF IInv, TypeOK
<1>2. /\ n \in Nodes /\ n.uid = node.uid /\ n.journal = None
      /\ n.quarantine # None /\ n.quarantine.id = id
      /\ node.journal # None => n.quarantine.prior \in {node.journal.tx, Odd}
  BY <1>1, QuarantinedFields
<1>3. \A u \in Tx : Holding(u) => n.quarantine.prior \in {u, Odd}
  BY <1>2 DEF IInv, HoldOK, HasJournal
<1>4. n.uid >= node.uid
  BY <1>1, <1>2 DEF Nodes
<1> HIDE DEF n
<1>5. LeaseAllows(n)
  BY <1>2 DEF LeaseAllows, Owner
<1> QED
  BY <1>1, <1>2, <1>3, <1>4, <1>5 DEF NodeMayBecome, Holding, n

\* ... a clear, because nobody lives through the quarantine,
LEMMA ClearedKept ==
    ASSUME IInv, node.quarantine # None, \A t \in Tx : ~Holding(t)
    PROVE  NodeMayBecome(Cleared(node)) /\ Cleared(node).journal = None
<1> DEFINE n == Cleared(node)
<1>1. /\ n \in Nodes /\ n.uid = node.uid /\ n.journal = node.journal
      /\ n.residue = None /\ n.quarantine = None /\ node \in Nodes
  BY ClearedFields DEF IInv, TypeOK
<1>2. n.journal = None
  BY <1>1 DEF IInv, NodeOK
<1>3. n.uid >= node.uid
  BY <1>1 DEF Nodes
<1> HIDE DEF n
<1>4. LeaseAllows(n)
  BY <1>1 DEF LeaseAllows, Owner
<1> QED
  BY <1>1, <1>2, <1>3, <1>4 DEF NodeMayBecome, Holding, n

\* ... and a residue record, which leaves the hold alone.
LEMMA StampedKept ==
    ASSUME IInv, NEW t \in Tx, HasJournal(t)
    PROVE  LET n == [node EXCEPT !.residue = t] IN NodeMayBecome(n) /\ JournalStays(n)
<1> DEFINE n == [node EXCEPT !.residue = t]
<1>1. /\ n \in Nodes /\ n.uid = node.uid /\ n.journal = node.journal
      /\ n.residue = t /\ n.quarantine = node.quarantine /\ node \in Nodes
  BY StampedFields DEF IInv, TypeOK
<1>2. n.uid >= node.uid
  BY <1>1 DEF Nodes
<1> HIDE DEF n
<1>3. LeaseAllows(n)
  BY <1>1 DEF LeaseAllows, Owner
<1>4. NodeMayBecome(n)
  BY <1>1, <1>2, <1>3 DEF NodeMayBecome, Holding, IInv, NodeOK, HoldOK, HasJournal
<1>5. JournalStays(n)
  BY <1>1 DEF JournalStays, HasJournal
<1> QED
  BY <1>4, <1>5 DEF n

-----------------------------------------------------------------------------
(* Steps of an operator that write nothing.                                 *)

OperatorMayBecome(o, s) ==
    /\ s \in States /\ s.pc \in OperatorPcs
    /\ s.pc # "idle" => commands' >= 1
    /\ s.pc = "stale" => s.arg \in Tx /\ Ended(s.arg)
    /\ s.pc \in Releasing => s.jnl # None /\ Ended(s.jnl.tx)
    /\ s.pc = "forcing" => s.arg \in 1..commands
    /\ s.pc \in {"clear", "clearing"} =>
          /\ s.arg \in Nat /\ s.arg < commands'
          /\ node.quarantine # None /\ node.quarantine.id = s.arg => \A t \in Tx : ~Holding(t)
          /\ \/ Clearing(o) /\ s.arg = proc[o].arg
             \/ node.quarantine # None

OperatorMayRead(o, s) ==
    /\ s.pc = "restore" => HasJournal(s.jnl.tx)
    /\ s.pc = "forcing" => node.quarantine = None /\ NewId(s.arg)
    /\ s.pc = "clearing" => node.quarantine # None /\ node.quarantine.id = s.arg

\* A move of one operator keeps the invariant and changes no lease.
LEMMA OperatorMove ==
    ASSUME IInv, NEW o \in Operators, NEW s, OperatorMayBecome(o, s), Become(o, s),
           fresh' \subseteq fresh \cup {o}, o \in fresh' => OperatorMayRead(o, s),
           FlightMayGrow,
           commands' \in {commands, commands + 1}, commands' <= MaxCommands,
           UNCHANGED <<node, window, taken, edits>>
    PROVE  IInv' /\ LeaseStep
<1> USE OwnershipAssumption
<1>1. /\ proc' = [proc EXCEPT ![o] = s] /\ o \in Procs /\ o \notin Tx
      /\ node' = node /\ taken' = taken /\ window' = window /\ edits' = edits
      /\ proc'[o] = s
  BY DEF Become, IInv, TypeOK, Procs
<1>2. \A x \in Procs : x # o => proc'[x] = proc[x]
  BY <1>1 DEF IInv, TypeOK
<1>3. \A t \in Tx : proc'[t] = proc[t]
  BY <1>1, <1>2 DEF Procs
<1>4. commands \in 0..MaxCommands /\ commands' \in 0..MaxCommands /\ commands <= commands'
  BY DEF IInv, TypeOK
<1>5. TypeOK'
  <2>1. flight' \subseteq Patches
    BY DEF IInv, TypeOK, FlightMayGrow
  <2> QED
    BY <1>1, <1>4, <2>1 DEF IInv, TypeOK, OperatorMayBecome
<1>6. NodeOK'
  <2>1. node.quarantine # None => node.quarantine.id \in Nat
    BY DEF IInv, TypeOK, Nodes, Quarantines
  <2> QED
    BY <1>1, <1>4, <2>1 DEF IInv, NodeOK, ResidueExplainsHold
<1>7. RunsOK'
  BY <1>1, <1>3 DEF IInv, RunsOK, RunOK
<1>8. \A t \in Tx : /\ Relies(t)' <=> Relies(t)
                    /\ Holding(t)' <=> Holding(t)
                    /\ Ended(t)' <=> Ended(t)
  BY <1>1, <1>3 DEF Relies, Holding, Ended
<1>9. OperatorsOK'
  <2> SUFFICES ASSUME NEW p \in Operators PROVE OperatorOK(p)'
    BY DEF OperatorsOK
  <2>1. OperatorOK(p) /\ proc[p] \in States /\ p \in Procs
    BY DEF IInv, OperatorsOK, TypeOK, Procs
  <2>2. CASE p # o
    <3>1. proc'[p] = proc[p] /\ (proc[p].jnl # None => proc[p].jnl.tx \in Tx)
      BY <1>2, <2>1, <2>2 DEF States, Journals
    <3> QED
      BY <1>4, <1>8, <2>1, <3>1 DEF OperatorOK, Ended
  <2>3. CASE p = o
    <3>1. s.jnl # None => s.jnl.tx \in Tx
      BY DEF OperatorMayBecome, States, Journals
    <3> QED
      BY <1>1, <1>4, <1>8, <2>3, <3>1 DEF OperatorOK, OperatorMayBecome, Ended
  <2> QED
    BY <2>2, <2>3
<1>10. ClearOK'
  <2> SUFFICES ASSUME NEW p \in Operators, Clearing(p)'
               PROVE  /\ proc'[p].arg \in Nat /\ proc'[p].arg < commands'
                      /\ node.quarantine # None /\ node.quarantine.id = proc'[p].arg
                           => \A t \in Tx : ~Holding(t)
    BY <1>1, <1>8 DEF ClearOK
  <2>1. CASE p = o
    BY <1>1, <2>1 DEF OperatorMayBecome, Clearing
  <2>2. CASE p # o
    <3>1. Clearing(p) /\ proc'[p] = proc[p]
      BY <1>2, <2>2 DEF Clearing, Procs
    <3> QED
      BY <1>4, <3>1 DEF IInv, ClearOK
  <2> QED
    BY <2>1, <2>2
<1>11. ASSUME NEW id, node.quarantine = None, NewId(id) PROVE NewId(id)'
  <2> SUFFICES ASSUME NEW p \in Operators, Clearing(p)' PROVE proc'[p].arg < id
    BY DEF NewId
  <2>1. CASE p = o
    BY <1>1, <1>11, <2>1 DEF OperatorMayBecome, Clearing, NewId
  <2>2. CASE p # o
    BY <1>2, <1>11, <2>2 DEF Clearing, Procs, NewId
  <2> QED
    BY <2>1, <2>2
<1>12. FreshOK'
  <2> SUFFICES ASSUME NEW x \in fresh' PROVE Informed(x)'
    BY DEF FreshOK
  <2>1. CASE x = o
    BY <1>1, <1>11, <2>1 DEF OperatorMayRead, OperatorMayBecome, OperatorPcs, Informed, HasJournal
  <2>2. CASE x # o
    <3>1. x \in fresh /\ proc'[x] = proc[x] /\ Informed(x)
      BY <2>2, <1>2 DEF IInv, TypeOK, FreshOK
    <3> QED
      BY <1>1, <1>11, <3>1 DEF Informed, HasJournal, decideAcquire
  <2> QED
    BY <2>1, <2>2
<1>13. FlightOK'
  <2> SUFFICES ASSUME NEW f \in flight PROVE Applicable(f)'
    BY DEF FlightOK, FlightMayGrow
  <2>1. Applicable(f)
    BY DEF IInv, FlightOK
  <2>2. CASE AcquireInFlight(f)
    BY <2>2, <1>1, <1>3 DEF AcquireInFlight, Unsettled, Applicable, decideAcquire, Acquired, Journal
  <2>3. CASE StampInFlight(f)
    BY <2>3, <1>1 DEF StampInFlight, Applicable, HasJournal
  <2>4. CASE ReleaseInFlight(f)
    <3>1. node.journal.tx \in Tx
      BY <2>4 DEF ReleaseInFlight, IInv, TypeOK, Nodes, Journals
    <3> QED
      BY <2>4, <3>1, <1>1, <1>3 DEF ReleaseInFlight, Applicable, Released
  <2>5. CASE ForceInFlight(f)
    <3>1. PICK id \in 1..commands : NewId(id) /\ f.new = Quarantined(node, id)
      BY <2>5 DEF ForceInFlight
    <3>2. id \in 1..commands' /\ NewId(id)' /\ node.quarantine = None
      BY <2>5, <3>1, <1>4, <1>11 DEF ForceInFlight
    <3>3. f.new = Quarantined(node', id)
      BY <3>1, <1>1
    <3>4. ForceInFlight(f)'
      BY <3>2, <3>3, <1>1 DEF ForceInFlight, Quarantined
    <3> QED
      BY <3>4 DEF Applicable
  <2>6. CASE ClearInFlight(f)
    BY <2>6, <1>1, <1>8 DEF ClearInFlight, Applicable, Cleared
  <2> QED
    BY <2>1, <2>2, <2>3, <2>4, <2>5, <2>6 DEF Applicable
<1>14. HoldOK' /\ Exclusive' /\ AbsentOK' /\ TakenOK'
  <2>1. HoldOK'
    BY <1>1, <1>3, <1>8 DEF IInv, HoldOK, HasJournal
  <2>2. Exclusive'
    BY <1>3, <1>8 DEF IInv, Exclusive
  <2>3. AbsentOK' /\ TakenOK'
    BY <1>1, <1>3 DEF IInv, TypeOK, AbsentOK, TakenOK, HasJournal
  <2> QED
    BY <2>1, <2>2, <2>3
<1>15. LeaseStep
  <2>1. holder' = holder /\ barred' = barred
    BY <1>1 DEF holder, barred, Owner
  <2>2. using' = using
    BY <1>8 DEF using, Holding
  <2> QED
    BY <2>1, <2>2 DEF LeaseStep, Lease!lvars
<1> QED
  BY <1>5, <1>6, <1>7, <1>9, <1>10, <1>12, <1>13, <1>14, <1>15 DEF IInv

-----------------------------------------------------------------------------
(* The patches of a run.                                                    *)

\* A run's patch whose answer is lost.
LEMMA RunUnanswered ==
    ASSUME IInv, NEW t \in Tx, NEW s, NEW n, RunMayBecome(t, s), PatchUnanswered(t, n, s),
           t \in fresh => n \in Nodes /\ Applicable([by |-> t, new |-> n])'
    PROVE  IInv' /\ LeaseStep
<1>1. /\ Become(t, s) /\ fresh' \subseteq fresh /\ t \notin fresh'
      /\ UNCHANGED <<node, taken, edits, commands>> /\ window' \in [Tx -> Windows]
  BY DEF PatchUnanswered, IInv, TypeOK
<1>2. FlightMayGrow
  <2>1. CASE flight' = flight
    BY <2>1 DEF FlightMayGrow
  <2>2. CASE t \in fresh /\ flight' = flight \cup {[by |-> t, new |-> n]}
    <3>1. [by |-> t, new |-> n] \in Patches
      BY <2>2 DEF Patches, Procs
    <3> QED
      BY <2>2, <3>1 DEF FlightMayGrow
  <2> QED
    BY <2>1, <2>2 DEF PatchUnanswered
<1> QED
  BY <1>1, <1>2, RunMove

\* The Patch of an acquisition.
LEMMA AcquirePatchKeeps ==
    ASSUME IInv, NEW t \in Tx, AcquirePatch(t) PROVE IInv' /\ LeaseStep
<1> DEFINE n == Acquired(node, t)
<1>1. /\ proc[t] \in States /\ proc[t].pc = "patch" /\ t \in Procs /\ ~Ended(t)
      /\ ~HasJournal(t) /\ t \notin taken /\ proc[t].tries \in Nat
      /\ \A f \in flight : f.by = t => ~AcquireInFlight(f)
  <2>1. proc[t].pc = "patch"
    BY DEF AcquirePatch, At
  <2> QED
    BY <2>1, RunFacts DEF Ended, States
<1>2. t \in fresh => decideAcquire(node)
  BY <1>1 DEF IInv, FreshOK, Informed
<1>3. CASE PatchAnswered(t, n, [proc[t] EXCEPT !.pc = "verify"])
  <2> DEFINE s == [proc[t] EXCEPT !.pc = "verify"]
  <2>1. decideAcquire(node) /\ Write(n) /\ Become(t, s) /\ UNCHANGED <<edits, commands>>
    BY <1>2, <1>3 DEF PatchAnswered
  <2>2. s \in States /\ s.pc = "verify" /\ s.jnl = proc[t].jnl /\ s.out = proc[t].out
    BY PcType DEF Procs, RunPcs
  <2>3. s.out = "none" /\ proc'[t] = s
    BY <1>1, <2>1, <2>2, RunFacts DEF Become, IInv, TypeOK
  <2>4. MayGetAnswer(t, s)
    BY <1>1, <2>2, <2>3, OwnershipAssumption DEF MayGetAnswer, RunPcs, Journaled, Relies
  <2>5. NodeMayBecome(n)
    BY <2>1, AcquiredKept
  <2>6. JournalArrives(n)
    BY <1>1, <2>2, <2>3, AcquiredFields DEF JournalArrives, Relies, IInv, TypeOK, Absent
  <2>7. edits' \in 0..MaxEdits /\ UNCHANGED commands
    BY <2>1 DEF IInv, TypeOK
  <2> HIDE DEF n, s
  <2> QED
    BY <1>1, <2>1, <2>4, <2>5, <2>6, <2>7, WriteMove
<1>4. CASE PatchConflicts(t, Retry(t, "acquire", "refused"))
  <2>1. RunMayBecome(t, Retry(t, "acquire", "refused"))
    <3>1. CASE proc[t].tries > 1
      <4> DEFINE s == [proc[t] EXCEPT !.pc = "acquire", !.tries = @ - 1]
      <4>1. Retry(t, "acquire", "refused") = s
        BY <3>1 DEF Retry
      <4>2. proc[t].tries - 1 \in Nat
        BY <1>1, <3>1
      <4>3. s \in States /\ s.pc = "acquire" /\ s.out = proc[t].out
        BY <1>1, <4>2 DEF States, RunPcs
      <4>4. RunMayBecome(t, s)
        BY <1>1, <4>3, RunFacts DEF RunMayBecome, RunPcs, Journaled, Releasing, Past
      <4> QED
        BY <4>1, <4>4
    <3>2. CASE ~(proc[t].tries > 1)
      <4>1. Retry(t, "acquire", "refused") = AtEnd("refused")
        BY <3>2 DEF Retry, EndOf
      <4> QED
        BY <1>1, <4>1, MayEnd DEF Outcomes
    <3> QED
      BY <3>1, <3>2
  <2> QED
    BY <1>4, <2>1, RunReads DEF PatchConflicts
<1>5. CASE PatchUnanswered(t, n, [proc[t] EXCEPT !.pc = "resolve", !.free = TRUE,
                                                 !.tries = resolveAttempts])
  <2> DEFINE s == [proc[t] EXCEPT !.pc = "resolve", !.free = TRUE, !.tries = resolveAttempts]
  <2>1. resolveAttempts \in Nat /\ resolveAttempts >= 1
    BY OwnershipAssumption
  <2>2. /\ s \in States /\ s.pc = "resolve" /\ s.jnl = proc[t].jnl /\ s.out = proc[t].out
        /\ s.tries >= 1
    BY <1>1, <2>1 DEF States, RunPcs
  <2>3. RunMayBecome(t, s)
    BY <1>1, <2>2, MayGoOn DEF Journaled, Past, Releasing
  <2>4. proc'[t] = s /\ node' = node /\ taken' = taken
    BY <1>1, <1>5 DEF PatchUnanswered, Become, IInv, TypeOK
  <2>5. PICK m : m = n
    OBVIOUS
  <2>6. ASSUME t \in fresh PROVE m \in Nodes /\ Applicable([by |-> t, new |-> m])'
    <3>1. m \in Nodes
      BY <2>5, AcquiredFields DEF IInv, TypeOK
    <3>2. Unsettled(t)' /\ decideAcquire(node)' /\ t \notin taken'
      BY <1>1, <1>2, <2>2, <2>4, <2>6 DEF Unsettled, decideAcquire
    <3>3. m = Acquired(node', t)
      BY <2>4, <2>5
    <3>4. AcquireInFlight([by |-> t, new |-> m])'
      BY <3>2, <3>3 DEF AcquireInFlight
    <3> QED
      BY <3>1, <3>4 DEF Applicable
  <2>7. PatchUnanswered(t, m, s)
    BY <1>5, <2>5
  <2> HIDE DEF s
  <2> QED
    BY <2>3, <2>6, <2>7, RunUnanswered
<1> QED
  BY <1>3, <1>4, <1>5 DEF AcquirePatch

\* stampResidue: the Patch.
LEMMA StampPatchKeeps ==
    ASSUME IInv, NEW t \in Tx, StampPatch(t) PROVE IInv' /\ LeaseStep
<1> DEFINE n == [node EXCEPT !.residue = t]
           held == AtEnd("held")
<1>1. /\ proc[t].pc = "stamping" /\ t \in Procs /\ ~Ended(t) /\ t \notin taken
      /\ \A f \in flight : f.by = t => ~AcquireInFlight(f)
  <2>1. proc[t].pc = "stamping"
    BY DEF StampPatch, At
  <2> QED
    BY <2>1, RunFacts DEF Ended
<1>2. t \in fresh => HasJournal(t)
  <2>1. proc[t].jnl # None /\ proc[t].jnl.tx = t
    BY <1>1, RunFacts DEF Journaled
  <2> QED
    BY <1>1, <2>1 DEF IInv, FreshOK, Informed, HasJournal
<1>3. RunMayBecome(t, held) /\ held \in States /\ held.pc = "end" /\ held.out = "held"
  BY <1>1, MayEnd, EndTypes DEF Outcomes
<1>4. CASE PatchAnswered(t, n, held)
  <2>1. HasJournal(t) /\ Write(n) /\ Become(t, held) /\ UNCHANGED <<edits, commands>>
    BY <1>2, <1>4 DEF PatchAnswered
  <2>2. MayGetAnswer(t, held)
    BY <1>1, <1>3, OwnershipAssumption DEF MayGetAnswer, RunPcs, Journaled, Releasing, Relies
  <2>3. NodeMayBecome(n) /\ JournalStays(n)
    BY <2>1, StampedKept
  <2>4. edits' \in 0..MaxEdits /\ UNCHANGED commands
    BY <2>1 DEF IInv, TypeOK
  <2> HIDE DEF n, held
  <2> QED
    BY <1>1, <2>1, <2>2, <2>3, <2>4, WriteMove
<1>5. CASE PatchConflicts(t, held)
  BY <1>3, <1>5, RunReads DEF PatchConflicts
<1>6. CASE PatchUnanswered(t, n, held)
  <2>1. node' = node
    BY <1>6 DEF PatchUnanswered
  <2>2. PICK m : m = n
    OBVIOUS
  <2>3. ASSUME t \in fresh PROVE m \in Nodes /\ Applicable([by |-> t, new |-> m])'
    <3>1. m \in Nodes
      BY <2>2, StampedFields DEF IInv, TypeOK
    <3>2. StampInFlight([by |-> t, new |-> m])'
      BY <1>2, <2>1, <2>2, <2>3 DEF StampInFlight, HasJournal
    <3> QED
      BY <3>1, <3>2 DEF Applicable
  <2>4. PatchUnanswered(t, m, held)
    BY <1>6, <2>2
  <2> HIDE DEF held
  <2> QED
    BY <1>3, <2>3, <2>4, RunUnanswered
<1> QED
  BY <1>4, <1>5, <1>6 DEF StampPatch

-----------------------------------------------------------------------------
(* Release.                                                                 *)

\* An operator that reads, or gives up, and goes on.
LEMMA OperatorReads ==
    ASSUME IInv, NEW o \in Operators, NEW s, OperatorMayBecome(o, s),
           NoRead(o, s) \/ (ReadTo(o, s) /\ OperatorMayRead(o, s))
    PROVE  IInv' /\ LeaseStep
<1>1. /\ Become(o, s)
      /\ fresh' \subseteq fresh \cup {o}
      /\ o \in fresh' => OperatorMayRead(o, s)
      /\ UNCHANGED <<node, flight, window, taken, edits, commands>>
  BY DEF NoRead, ReadTo, Quiet
<1>2. FlightMayGrow
  BY <1>1 DEF FlightMayGrow
<1>3. commands' \in {commands, commands + 1} /\ commands' <= MaxCommands
  BY <1>1, OwnershipAssumption DEF IInv, TypeOK
<1>4. UNCHANGED <<node, window, taken, edits>>
  BY <1>1
<1> QED
  BY <1>1, <1>2, <1>3, <1>4, OperatorMove

\* An operator's patch whose answer is lost.
LEMMA OperatorUnanswered ==
    ASSUME IInv, NEW o \in Operators, NEW s, NEW n, OperatorMayBecome(o, s),
           PatchUnanswered(o, n, s),
           o \in fresh => n \in Nodes /\ Applicable([by |-> o, new |-> n])'
    PROVE  IInv' /\ LeaseStep
<1>1. /\ Become(o, s) /\ fresh' \subseteq fresh /\ o \notin fresh'
      /\ UNCHANGED <<node, window, taken, edits>>
      /\ commands' \in {commands, commands + 1} /\ commands' <= MaxCommands
  BY OwnershipAssumption DEF PatchUnanswered, IInv, TypeOK
<1>2. FlightMayGrow
  <2>1. CASE flight' = flight
    BY <2>1 DEF FlightMayGrow
  <2>2. CASE o \in fresh /\ flight' = flight \cup {[by |-> o, new |-> n]}
    <3>1. [by |-> o, new |-> n] \in Patches
      BY <2>2 DEF Patches, Procs
    <3> QED
      BY <2>2, <3>1 DEF FlightMayGrow
  <2> QED
    BY <2>1, <2>2 DEF PatchUnanswered
<1> QED
  BY <1>1, <1>2, OperatorMove

\* An operator may always drop what it is doing.
LEMMA MayIdle ==
    ASSUME NEW o \in Operators PROVE OperatorMayBecome(o, Idle) /\ OperatorMayRead(o, Idle)
BY EndTypes DEF OperatorMayBecome, OperatorMayRead, Idle, OperatorPcs, Releasing

\* Whoever releases has a journal, and its run relies on the Node no more.
LEMMA ReleaseFacts ==
    ASSUME IInv, NEW x \in Procs, proc[x].pc \in Releasing
    PROVE  /\ proc[x] \in States /\ (x \in Tx \/ x \in Operators)
           /\ proc[x].jnl \in Journals /\ proc[x].jnl.tx \in Tx
           /\ proc[proc[x].jnl.tx].pc \in Past
           /\ x \in Tx => proc[x].jnl.tx = x
           /\ x \in Operators => commands >= 1 /\ Ended(proc[x].jnl.tx)
<1>1. proc[x] \in States /\ (x \in Tx \/ x \in Operators)
  BY DEF IInv, TypeOK, Procs
<1>2. CASE x \in Tx
  BY <1>1, <1>2, RunFacts, OwnershipAssumption DEF Journaled, Past, Journals
<1>3. CASE x \in Operators
  <2>1. proc[x].jnl # None /\ Ended(proc[x].jnl.tx) /\ commands >= 1
    BY <1>3 DEF IInv, OperatorsOK, OperatorOK, Releasing
  <2>2. proc[x].jnl \in Journals
    BY <1>1, <2>1 DEF States
  <2> QED
    BY <1>1, <1>3, <2>1, <2>2, OwnershipAssumption DEF Journals, Ended, Past
<1> QED
  BY <1>1, <1>2, <1>3

\* A release ends, with an outcome the Node bears out.
LEMMA FinishKeeps ==
    ASSUME IInv, NEW x \in Procs, proc[x].pc \in Releasing,
           NEW out \in Outcomes \ {"none"},
           x \in Tx /\ out = "refused" => ~HasJournal(x),
           x \in Tx /\ out = "clean" => x \notin taken,
           NoRead(x, EndOf(x, out))
    PROVE  IInv' /\ LeaseStep
<1>1. CASE x \in Tx
  <2>1. ~Ended(x) /\ \A f \in flight : f.by = x => ~AcquireInFlight(f)
    BY <1>1, RunFacts DEF Ended, Releasing
  <2>2. RunMayBecome(x, AtEnd(out))
    BY <1>1, <2>1, MayEnd
  <2> QED
    BY <1>1, <2>2, RunReads DEF EndOf
<1>2. CASE x \in Operators /\ x \notin Tx
  BY <1>2, MayIdle, OperatorReads DEF EndOf
<1> QED
  BY <1>1, <1>2 DEF Procs

\* The ways a release may end.
LEMMA OutcomesOfRelease ==
    ASSUME NEW x
    PROVE  /\ Failed(x) \in Outcomes \ {"none", "refused", "clean"}
           /\ Restored(x) \in Outcomes \ {"none"}
           /\ AlreadyDone(x) \in Outcomes \ {"none", "clean"}
BY DEF Failed, Restored, AlreadyDone, Outcomes

\* A process may go on with its release.
LEMMA ReleaseGoesOn ==
    ASSUME IInv, NEW x \in Procs, proc[x].pc \in Releasing,
           NEW s \in States, s.pc \in Releasing, s.jnl = proc[x].jnl, s.out = proc[x].out,
           x \in taken => s.pc = "release"
    PROVE  /\ x \in Tx => RunMayBecome(x, s)
           /\ x \in Operators /\ UNCHANGED commands => OperatorMayBecome(x, s)
<1>1. ASSUME x \in Tx PROVE RunMayBecome(x, s)
  BY <1>1, MayGoOn DEF Journaled, Past, Releasing
<1>2. ASSUME x \in Operators, UNCHANGED commands PROVE OperatorMayBecome(x, s)
  BY <1>2, ReleaseFacts, AbsentAssumption DEF OperatorMayBecome, OperatorPcs, Releasing
<1> QED
  BY <1>1, <1>2

\* The Get of a release.
LEMMA ReleaseGetKeeps ==
    ASSUME IInv, NEW x \in Procs, ReleaseGet(x) PROVE IInv' /\ LeaseStep
<1> DEFINE s == [proc[x] EXCEPT !.pc = "restore"]
           d == decideRelease(node, proc[x].jnl.tx)
<1>1. proc[x].pc = "release"
  BY DEF ReleaseGet, At
<1>2. CASE d = "restore" /\ ReadTo(x, s)
  <2>1. /\ node.journal # None /\ node.journal.readable /\ node.journal.tx = proc[x].jnl.tx
        /\ proc[x].jnl.tx \in Tx
    BY <1>1, <1>2, ReleaseFacts DEF decideRelease, Releasing
  <2>2. s \in States /\ s.pc = "restore" /\ s.jnl = proc[x].jnl /\ s.out = proc[x].out
    BY PcType DEF RunPcs
  <2>3. x \notin taken
    BY <1>1, <2>1, ReleaseFacts DEF IInv, TypeOK, TakenOK, HasJournal, Releasing
  <2>4. UNCHANGED commands
    BY <1>2 DEF ReadTo, Quiet
  <2>5. /\ x \in Tx => RunMayBecome(x, s) /\ RunMayRead(x, s)
        /\ x \in Operators => OperatorMayBecome(x, s) /\ OperatorMayRead(x, s)
    BY <1>1, <2>1, <2>2, <2>3, <2>4, ReleaseGoesOn
       DEF RunMayRead, OperatorMayRead, HasJournal, Releasing
  <2> HIDE DEF s
  <2> QED
    BY <1>2, <2>5, RunReads, OperatorReads DEF Procs
<1>3. CASE d = "done" /\ Finish(x, AlreadyDone(x))
  <2>1. node.journal = None
    BY <1>3 DEF decideRelease
  <2> QED
    BY <1>1, <1>3, <2>1, OutcomesOfRelease, FinishKeeps DEF Finish, HasJournal, Releasing
<1>4. CASE Finish(x, Failed(x))
  BY <1>1, <1>4, OutcomesOfRelease, FinishKeeps DEF Finish, Releasing
<1> QED
  BY <1>2, <1>3, <1>4 DEF ReleaseGet

\* The Patch of a release.
LEMMA ReleasePatchKeeps ==
    ASSUME IInv, NEW x \in Procs, ReleasePatch(x) PROVE IInv' /\ LeaseStep
<1> DEFINE n == Released(node)
<1>1. /\ proc[x].pc = "restore" /\ proc[x] \in States /\ proc[x].pc \in Releasing
      /\ proc[x].tries \in Nat /\ x \notin taken
  <2>1. proc[x].pc = "restore"
    BY DEF ReleasePatch, At
  <2> QED
    BY <2>1 DEF IInv, TypeOK, TakenOK, States, Releasing
<1>2. x \in fresh => node.journal # None /\ node.journal.tx = proc[x].jnl.tx
  BY <1>1 DEF IInv, FreshOK, Informed, HasJournal
<1>3. CASE PatchAnswered(x, n, [proc[x] EXCEPT !.pc = "proveReleased"])
  <2> DEFINE s == [proc[x] EXCEPT !.pc = "proveReleased"]
  <2>1. x \in fresh /\ Write(n) /\ Become(x, s) /\ UNCHANGED <<edits, commands>>
    BY <1>3 DEF PatchAnswered
  <2>2. s \in States /\ s.pc = "proveReleased" /\ s.jnl = proc[x].jnl /\ s.out = proc[x].out
    BY PcType DEF RunPcs
  <2>3. x \in Tx => s.out = "none"
    BY <1>1, <2>2, RunFacts
  <2>4. MayGetAnswer(x, s)
    BY <1>1, <2>2, <2>3 DEF MayGetAnswer, RunPcs, Journaled, Releasing, Relies
  <2>5. NodeMayBecome(n) /\ n.journal = None
    BY <1>1, <1>2, <2>1, ReleaseFacts, ReleasedKept, ReleasedFields DEF IInv, TypeOK
  <2>6. edits' \in 0..MaxEdits /\ UNCHANGED commands
    BY <2>1 DEF IInv, TypeOK
  <2> HIDE DEF n, s
  <2> QED
    BY <2>1, <2>4, <2>5, <2>6, WriteMove
<1>4. CASE PatchConflicts(x, Retry(x, "release", Failed(x)))
  <2>1. CASE proc[x].tries > 1
    <3> DEFINE s == [proc[x] EXCEPT !.pc = "release", !.tries = @ - 1]
    <3>1. Retry(x, "release", Failed(x)) = s
      BY <2>1 DEF Retry
    <3>2. proc[x].tries - 1 \in Nat
      BY <1>1, <2>1
    <3>3. s \in States /\ s.pc = "release" /\ s.jnl = proc[x].jnl /\ s.out = proc[x].out
      BY <1>1, <3>2 DEF States, RunPcs
    <3>4. NoRead(x, s) /\ UNCHANGED commands
      BY <1>4, <3>1 DEF PatchConflicts, NoRead, Quiet
    <3>5. (x \in Tx => RunMayBecome(x, s)) /\ (x \in Operators => OperatorMayBecome(x, s))
      BY <1>1, <3>3, <3>4, ReleaseGoesOn DEF Releasing
    <3> HIDE DEF s
    <3> QED
      BY <3>4, <3>5, RunReads, OperatorReads DEF Procs
  <2>2. CASE ~(proc[x].tries > 1)
    <3>1. NoRead(x, EndOf(x, Failed(x)))
      BY <1>4, <2>2 DEF PatchConflicts, Retry
    <3> QED
      BY <1>1, <3>1, OutcomesOfRelease, FinishKeeps
  <2> QED
    BY <2>1, <2>2
<1>5. CASE PatchUnanswered(x, n, [proc[x] EXCEPT !.pc = "readBack"])
  <2> DEFINE s == [proc[x] EXCEPT !.pc = "readBack"]
  <2>1. s \in States /\ s.pc = "readBack" /\ s.jnl = proc[x].jnl /\ s.out = proc[x].out
    BY PcType DEF RunPcs
  <2>2. /\ Become(x, s) /\ node' = node /\ UNCHANGED <<window, taken, edits, commands>>
        /\ fresh' \subseteq fresh /\ x \notin fresh'
    BY <1>5 DEF PatchUnanswered
  <2>3. (x \in Tx => RunMayBecome(x, s)) /\ (x \in Operators => OperatorMayBecome(x, s))
    BY <1>1, <2>1, <2>2, ReleaseGoesOn DEF Releasing
  <2>4. PICK m : m = n
    OBVIOUS
  <2>5. ASSUME x \in fresh PROVE m \in Nodes /\ Applicable([by |-> x, new |-> m])'
    <3>1. m \in Nodes
      BY <2>4, ReleasedFields DEF IInv, TypeOK
    <3>2. proc'[node.journal.tx].pc \in Past
      <4>1. proc[node.journal.tx].pc \in Past /\ node.journal.tx \in Tx
        BY <1>1, <1>2, <2>5, ReleaseFacts
      <4>2. proc' = [proc EXCEPT ![x] = s] /\ "readBack" \in Past
        BY <2>2 DEF Become, Past, Releasing
      <4> QED
        BY <2>1, <4>1, <4>2 DEF IInv, TypeOK, Procs
    <3>3. ReleaseInFlight([by |-> x, new |-> m])'
      BY <1>2, <2>2, <2>4, <2>5, <3>2 DEF ReleaseInFlight, Released
    <3> QED
      BY <3>1, <3>3 DEF Applicable
  <2>6. PatchUnanswered(x, m, s)
    BY <1>5, <2>4
  <2> HIDE DEF s
  <2>7. CASE x \in Tx
    BY <2>3, <2>5, <2>6, <2>7, RunUnanswered
  <2>8. CASE x \in Operators
    <3>1. OperatorMayBecome(x, s)
      BY <2>3, <2>8
    <3> QED
      BY <2>5, <2>6, <2>8, <3>1, OperatorUnanswered
  <2> QED
    BY <2>7, <2>8 DEF Procs
<1> QED
  BY <1>3, <1>4, <1>5 DEF ReleasePatch

\* What the read-back shows: the journal of this transaction is gone.
LEMMA CleanShows ==
    ASSUME IInv, NEW x \in Procs, proc[x].pc \in Releasing, verifyClean(node, proc[x].jnl)
    PROVE  ~HasJournal(proc[x].jnl.tx)
BY DEF verifyClean, HasJournal

\* The read after an answered release.
LEMMA ProveReleasedKeeps ==
    ASSUME IInv, NEW x \in Procs, ProveReleased(x) PROVE IInv' /\ LeaseStep
<1>1. proc[x].pc = "proveReleased" /\ proc[x].pc \in Releasing /\ x \notin taken
  BY DEF ProveReleased, At, Releasing, IInv, TakenOK
<1>2. CASE verifyClean(node, proc[x].jnl) /\ Finish(x, Restored(x))
  <2>1. x \in Tx => ~HasJournal(x)
    BY <1>1, <1>2, CleanShows, ReleaseFacts
  <2> QED
    BY <1>1, <1>2, <2>1, OutcomesOfRelease, FinishKeeps DEF Finish
<1>3. CASE Finish(x, Failed(x))
  BY <1>1, <1>3, OutcomesOfRelease, FinishKeeps DEF Finish
<1> QED
  BY <1>2, <1>3 DEF ProveReleased

\* The read after a release without answer.
LEMMA ReadBackKeeps ==
    ASSUME IInv, NEW x \in Procs, ReadBack(x) PROVE IInv' /\ LeaseStep
<1>1. proc[x].pc = "readBack" /\ proc[x].pc \in Releasing /\ x \notin taken
  BY DEF ReadBack, At, Releasing, IInv, TakenOK
<1>2. CASE verifyClean(node, proc[x].jnl) /\ Finish(x, Restored(x))
  <2>1. x \in Tx => ~HasJournal(x)
    BY <1>1, <1>2, CleanShows, ReleaseFacts
  <2> QED
    BY <1>1, <1>2, <2>1, OutcomesOfRelease, FinishKeeps DEF Finish
<1>3. CASE Finish(x, Failed(x))
  BY <1>1, <1>3, OutcomesOfRelease, FinishKeeps DEF Finish
<1> QED
  BY <1>2, <1>3 DEF ReadBack

-----------------------------------------------------------------------------
(* Operator modes.                                                          *)

\* An operator is given a command.
LEMMA CommandKeeps ==
    ASSUME IInv, NEW o \in Operators, NEW s, Command(o, s),
           commands' = commands + 1 => OperatorMayBecome(o, s), OperatorMayRead(o, s)
    PROVE  IInv' /\ LeaseStep
<1>1. /\ Become(o, s) /\ commands' = commands + 1 /\ commands < MaxCommands
      /\ UNCHANGED <<edits, node, fresh, flight, window, taken>>
  BY DEF Command
<1>2. FlightMayGrow
  BY <1>1 DEF FlightMayGrow
<1>3. commands' \in {commands, commands + 1} /\ commands' <= MaxCommands
  BY <1>1, OwnershipAssumption DEF IInv, TypeOK
<1>4. UNCHANGED <<node, window, taken, edits>> /\ fresh' \subseteq fresh \cup {o}
  BY <1>1
<1> QED
  BY <1>1, <1>2, <1>3, <1>4, OperatorMove

\* An order is a state with a mode and its argument.
LEMMA OrderTypes ==
    ASSUME NEW pc \in {"stale", "force", "clear"}, NEW arg \in Nat \cup Tx
    PROVE  LET s == [Idle EXCEPT !.pc = pc, !.arg = arg] IN
             s \in States /\ s.pc = pc /\ s.arg = arg
<1>1. pc \in RunPcs \cup OperatorPcs
  BY DEF OperatorPcs
<1> QED
  BY <1>1, EndTypes DEF Idle, States

\* -release-stale, -force-quarantine and -clear-quarantine are ordered.
LEMMA OrdersKeep ==
    ASSUME IInv, NEW o \in Operators, OrderReleaseStale(o) \/ OrderForce(o) \/ OrderClear(o)
    PROVE  IInv' /\ LeaseStep
<1>1. commands \in Nat
  BY DEF IInv, TypeOK
<1>2. ASSUME NEW t \in Tx, Dead(t), Command(o, [Idle EXCEPT !.pc = "stale", !.arg = t])
      PROVE  IInv' /\ LeaseStep
  <2> DEFINE s == [Idle EXCEPT !.pc = "stale", !.arg = t]
  <2>1. Ended(t)
    BY <1>2, OwnershipAssumption DEF Dead
  <2>2. s \in States /\ s.pc = "stale" /\ s.arg = t
    BY OrderTypes
  <2> HIDE DEF s
  <2>3. commands' = commands + 1 => OperatorMayBecome(o, s)
    BY <1>1, <2>1, <2>2 DEF OperatorMayBecome, OperatorPcs, Releasing
  <2>4. OperatorMayRead(o, s)
    BY <2>2 DEF OperatorMayRead
  <2> QED
    BY <1>2, <2>3, <2>4, CommandKeeps DEF s
<1>3. CASE OrderForce(o)
  <2> DEFINE s == [Idle EXCEPT !.pc = "force", !.arg = node.uid]
  <2>1. node.uid \in Nat
    BY DEF IInv, TypeOK, Nodes
  <2>2. s \in States /\ s.pc = "force" /\ s.arg = node.uid
    BY <2>1, OrderTypes
  <2> HIDE DEF s
  <2>3. commands' = commands + 1 => OperatorMayBecome(o, s)
    BY <1>1, <2>2 DEF OperatorMayBecome, OperatorPcs, Releasing
  <2>4. OperatorMayRead(o, s)
    BY <2>2 DEF OperatorMayRead
  <2>5. Command(o, s)
    BY <1>3 DEF OrderForce, s
  <2> QED
    BY <2>3, <2>4, <2>5, CommandKeeps
<1>4. CASE OrderClear(o)
  <2> DEFINE s == [Idle EXCEPT !.pc = "clear", !.arg = node.quarantine.id]
  <2>1. node.quarantine # None /\ Dead(node.quarantine.prior)
    BY <1>4 DEF OrderClear
  <2>2. node.quarantine.id \in Nat /\ node.quarantine.id <= commands
    BY <2>1 DEF IInv, TypeOK, NodeOK, Nodes, Quarantines
  <2>3. s \in States /\ s.pc = "clear" /\ s.arg = node.quarantine.id
    BY <2>2, OrderTypes
  <2> HIDE DEF s
  <2>4. ASSUME NEW t \in Tx, Holding(t) PROVE FALSE
    <3>1. node.quarantine.prior \in {t, Odd}
      BY <2>1, <2>4 DEF IInv, HoldOK, NodeOK, HasJournal
    <3>2. ~(Ended(t) \/ At(t, "idle"))
      BY <2>4 DEF Holding, Relies, Ended, At
    <3> QED
      BY <2>1, <3>1, <3>2, OwnershipAssumption DEF Dead
  <2>5. commands' = commands + 1 => OperatorMayBecome(o, s)
    BY <1>1, <2>1, <2>2, <2>3, <2>4 DEF OperatorMayBecome, OperatorPcs, Releasing
  <2>6. OperatorMayRead(o, s)
    BY <2>3 DEF OperatorMayRead
  <2>7. Command(o, s)
    BY <1>4 DEF OrderClear, s
  <2> QED
    BY <2>5, <2>6, <2>7, CommandKeeps
<1> QED
  BY <1>2, <1>3, <1>4 DEF OrderReleaseStale

\* What the invariant says of one operator and its state.
LEMMA OperatorFacts ==
    ASSUME IInv, NEW o \in Operators
    PROVE  /\ o \in Procs /\ proc[o] \in States /\ OperatorOK(o)
           /\ node \in Nodes /\ commands \in 0..MaxCommands
BY DEF IInv, TypeOK, OperatorsOK, Procs

\* -release-stale reads the Node.
LEMMA StaleGetKeeps ==
    ASSUME IInv, NEW o \in Operators, StaleGet(o) PROVE IInv' /\ LeaseStep
<1> DEFINE b == BeginRelease(o, "stale")
           s == [b EXCEPT !.jnl = node.journal]
<1>1. proc[o].pc = "stale" /\ Ended(proc[o].arg) /\ commands >= 1
  BY OperatorFacts DEF StaleGet, At, OperatorOK
<1>2. CASE decideRelease(node, proc[o].arg) = "restore" /\ NoRead(o, s)
  <2>1. node.journal # None /\ node.journal.tx = proc[o].arg /\ node.journal \in Journals
    BY <1>2, OperatorFacts DEF decideRelease, Nodes
  <2>2. b \in States /\ b.pc = "release"
    BY BeginReleaseType DEF Procs
  <2> HIDE DEF b
  <2>3. s \in States /\ s.pc = "release" /\ s.jnl = node.journal
    BY <2>1, <2>2 DEF States
  <2>4. UNCHANGED commands
    BY <1>2 DEF NoRead, Quiet
  <2> HIDE DEF s
  <2>5. OperatorMayBecome(o, s)
    BY <1>1, <2>1, <2>3, <2>4 DEF OperatorMayBecome, OperatorPcs, Releasing
  <2> QED
    BY <1>2, <2>5, OperatorReads
<1>3. CASE NoRead(o, Idle)
  BY <1>3, MayIdle, OperatorReads
<1> QED
  BY <1>2, <1>3 DEF StaleGet

\* The force reads the Node; its id is newer than any clear under way.
LEMMA ForceGetKeeps ==
    ASSUME IInv, NEW o \in Operators, ForceGet(o) PROVE IInv' /\ LeaseStep
<1> DEFINE s == [proc[o] EXCEPT !.pc = "forcing", !.arg = commands]
<1>1. proc[o].pc = "force" /\ commands >= 1 /\ commands \in Nat
  BY OperatorFacts DEF ForceGet, At, OperatorOK
<1>2. CASE decideForce(node, proc[o].arg) /\ ReadTo(o, s)
  <2>1. node.quarantine = None /\ UNCHANGED commands
    BY <1>2 DEF decideForce, ReadTo, Quiet
  <2>2. proc[o] \in States /\ "forcing" \in OperatorPcs
    BY OperatorFacts DEF OperatorPcs
  <2>3. s \in States /\ s.pc = "forcing" /\ s.arg = commands
    BY <1>1, <2>2 DEF States
  <2> HIDE DEF s
  <2>4. OperatorMayBecome(o, s)
    BY <1>1, <2>1, <2>2, <2>3 DEF OperatorMayBecome, Releasing
  <2>5. OperatorMayRead(o, s)
    BY <2>1, <2>3 DEF OperatorMayRead, NewId, IInv, ClearOK
  <2> QED
    BY <1>2, <2>4, <2>5, OperatorReads
<1>3. CASE NoRead(o, Idle)
  BY <1>3, MayIdle, OperatorReads
<1> QED
  BY <1>2, <1>3 DEF ForceGet

\* The clear reads the Node.
LEMMA ClearGetKeeps ==
    ASSUME IInv, NEW o \in Operators, ClearGet(o) PROVE IInv' /\ LeaseStep
<1> DEFINE s == [proc[o] EXCEPT !.pc = "clearing"]
<1>1. proc[o].pc = "clear" /\ commands >= 1 /\ Clearing(o)
  BY OperatorFacts DEF ClearGet, At, OperatorOK, Clearing
<1>2. CASE decideClear(node, proc[o].arg) /\ ReadTo(o, s)
  <2>1. node.quarantine # None /\ node.quarantine.id = proc[o].arg /\ UNCHANGED commands
    BY <1>2 DEF decideClear, ReadTo, Quiet
  <2>2. s \in States /\ s.pc = "clearing" /\ s.arg = proc[o].arg
    BY PcType DEF Procs, OperatorPcs
  <2> HIDE DEF s
  <2>3. OperatorMayBecome(o, s)
    BY <1>1, <2>1, <2>2 DEF OperatorMayBecome, OperatorPcs, Releasing, IInv, ClearOK
  <2>4. OperatorMayRead(o, s)
    BY <2>1, <2>2 DEF OperatorMayRead
  <2> QED
    BY <1>2, <2>3, <2>4, OperatorReads
<1>3. CASE NoRead(o, Idle)
  BY <1>3, MayIdle, OperatorReads
<1> QED
  BY <1>2, <1>3 DEF ClearGet

\* Nothing else moves while an operator sends its patch and goes idle.
NoneNew(o) == /\ commands' = commands
              /\ \A t \in Tx : proc'[t] = proc[t]
              /\ \A p \in Operators : proc'[p] = IF p = o THEN Idle ELSE proc[p]

\* An operator's patch: applied, refused, or on its way.
LEMMA OperatorPatches ==
    ASSUME IInv, NEW o \in Operators, NEW n,
           o \in fresh => NodeMayBecome(n) /\ n.journal = None,
           o \in fresh /\ node' = node /\ NoneNew(o) => Applicable([by |-> o, new |-> n])',
           \/ PatchAnswered(o, n, Idle)
           \/ PatchConflicts(o, Idle)
           \/ PatchUnanswered(o, n, Idle)
    PROVE  IInv' /\ LeaseStep
<1>1. CASE PatchAnswered(o, n, Idle)
  <2>1. /\ NodeMayBecome(n) /\ n.journal = None /\ Write(n) /\ Become(o, Idle)
        /\ UNCHANGED <<edits, commands>>
    BY <1>1 DEF PatchAnswered
  <2>2. MayGetAnswer(o, Idle) /\ o \in Procs
    BY EndTypes, OwnershipAssumption DEF MayGetAnswer, Procs
  <2>3. edits' \in 0..MaxEdits /\ UNCHANGED commands
    BY <2>1 DEF IInv, TypeOK
  <2> QED
    BY <2>1, <2>2, <2>3, WriteMove
<1>2. CASE PatchConflicts(o, Idle)
  BY <1>2, MayIdle, OperatorReads DEF PatchConflicts
<1>3. CASE PatchUnanswered(o, n, Idle)
  <2>1. node' = node /\ NoneNew(o)
    BY <1>3, OwnershipAssumption DEF PatchUnanswered, NoneNew, Become, IInv, TypeOK, Procs
  <2>2. o \in fresh => n \in Nodes /\ Applicable([by |-> o, new |-> n])'
    BY <2>1 DEF NodeMayBecome
  <2> QED
    BY <1>3, <2>2, MayIdle, OperatorUnanswered
<1> QED
  BY <1>1, <1>2, <1>3

\* The force writes the quarantine.
LEMMA ForcePatchKeeps ==
    ASSUME IInv, NEW o \in Operators, ForcePatch(o) PROVE IInv' /\ LeaseStep
<1>1. proc[o].pc = "forcing" /\ proc[o].arg \in 1..commands
  BY OperatorFacts DEF ForcePatch, At, OperatorOK
<1>2. PICK n : n = Quarantined(node, proc[o].arg)
  OBVIOUS
<1>3. o \in fresh => node.quarantine = None /\ NewId(proc[o].arg)
  BY <1>1 DEF IInv, FreshOK, Informed
<1>4. o \in fresh => NodeMayBecome(n) /\ n.journal = None
  <2>1. node \in Nodes /\ proc[o].arg \in 1..MaxCommands
    BY <1>1, OperatorFacts, OwnershipAssumption
  <2> QED
    BY <1>1, <1>2, <1>3, <2>1, QuarantinedKept, QuarantinedFields
<1>5. ASSUME o \in fresh, node' = node, NoneNew(o) PROVE Applicable([by |-> o, new |-> n])'
  <2>1. PICK id \in 1..commands : id = proc[o].arg
    BY <1>1
  <2>2. NewId(id)' /\ n = Quarantined(node', id) /\ id \in 1..commands'
    BY <1>2, <1>3, <1>5, <2>1 DEF NewId, NoneNew, Clearing, Idle
  <2>3. ForceInFlight([by |-> o, new |-> n])'
    BY <1>3, <1>5, <2>2 DEF ForceInFlight
  <2> QED
    BY <2>3 DEF Applicable
<1>6. \/ PatchAnswered(o, n, Idle)
      \/ PatchConflicts(o, Idle)
      \/ PatchUnanswered(o, n, Idle)
  BY <1>2 DEF ForcePatch
<1> QED
  BY <1>4, <1>5, <1>6, OperatorPatches

\* The clear takes the quarantine off.
LEMMA ClearPatchKeeps ==
    ASSUME IInv, NEW o \in Operators, ClearPatch(o) PROVE IInv' /\ LeaseStep
<1>1. proc[o].pc = "clearing" /\ Clearing(o)
  BY DEF ClearPatch, At, Clearing
<1>2. PICK n : n = Cleared(node)
  OBVIOUS
<1>3. o \in fresh => node.quarantine # None /\ \A t \in Tx : ~Holding(t)
  BY <1>1 DEF IInv, FreshOK, Informed, ClearOK
<1>4. o \in fresh => NodeMayBecome(n) /\ n.journal = None
  BY <1>2, <1>3, ClearedKept
<1>5. ASSUME o \in fresh, node' = node, NoneNew(o) PROVE Applicable([by |-> o, new |-> n])'
  <2>1. n = Cleared(node') /\ \A t \in Tx : Holding(t)' => Holding(t)
    BY <1>2, <1>5 DEF NoneNew, Holding, Relies
  <2>2. ClearInFlight([by |-> o, new |-> n])'
    BY <1>3, <1>5, <2>1 DEF ClearInFlight
  <2> QED
    BY <2>2 DEF Applicable
<1>6. \/ PatchAnswered(o, n, Idle)
      \/ PatchConflicts(o, Idle)
      \/ PatchUnanswered(o, n, Idle)
  BY <1>2 DEF ClearPatch
<1> QED
  BY <1>4, <1>5, <1>6, OperatorPatches

-----------------------------------------------------------------------------
(* The rest of the world.                                                   *)

\* Events, lost streams and lost patches touch neither the Node nor a process.
LEMMA StillKeeps ==
    ASSUME IInv, flight' \subseteq flight, window' \in [Tx -> Windows],
           UNCHANGED <<node, proc, fresh, taken, edits, commands>>
    PROVE  IInv' /\ LeaseStep
<1>1. /\ node' = node /\ proc' = proc /\ fresh' = fresh /\ taken' = taken
      /\ edits' = edits /\ commands' = commands
  OBVIOUS
<1>2. TypeOK'
  BY <1>1 DEF IInv, TypeOK
<1>3. NodeOK' /\ RunsOK' /\ OperatorsOK'
  BY <1>1 DEF IInv, NodeOK, ResidueExplainsHold, RunsOK, RunOK, OperatorsOK, OperatorOK, Ended
<1>4. \A t \in Tx : /\ Relies(t)' <=> Relies(t)
                    /\ Holding(t)' <=> Holding(t)
                    /\ HasJournal(t)' <=> HasJournal(t)
  BY <1>1 DEF Relies, Holding, HasJournal
<1>5. \A id : NewId(id)' <=> NewId(id)
  BY <1>1 DEF NewId, Clearing
<1>6. ClearOK'
  BY <1>1, <1>4 DEF IInv, ClearOK, Clearing
<1>7. FreshOK'
  BY <1>1, <1>5 DEF IInv, FreshOK, Informed, decideAcquire, HasJournal
<1>8. FlightOK'
  <2> SUFFICES ASSUME NEW f \in flight PROVE Applicable(f)'
    BY DEF FlightOK
  <2>1. Applicable(f)
    BY DEF IInv, FlightOK
  <2>2. AcquireInFlight(f) => AcquireInFlight(f)'
    BY <1>1 DEF AcquireInFlight, Acquired, Journal, decideAcquire, Unsettled
  <2>3. StampInFlight(f) => StampInFlight(f)'
    BY <1>1 DEF StampInFlight, HasJournal
  <2>4. ReleaseInFlight(f) => ReleaseInFlight(f)'
    BY <1>1 DEF ReleaseInFlight, Released
  <2>5. ASSUME ForceInFlight(f) PROVE ForceInFlight(f)'
    <3>1. PICK id \in 1..commands : NewId(id) /\ f.new = Quarantined(node, id)
      BY <2>5 DEF ForceInFlight
    <3>2. NewId(id)' /\ f.new = Quarantined(node', id)
      BY <1>1, <1>5, <3>1
    <3> QED
      BY <1>1, <2>5, <3>2 DEF ForceInFlight, Quarantined
  <2>6. ClearInFlight(f) => ClearInFlight(f)'
    BY <1>1, <1>4 DEF ClearInFlight, Cleared
  <2> QED
    BY <2>1, <2>2, <2>3, <2>4, <2>5, <2>6 DEF Applicable
<1>9. HoldOK' /\ Exclusive' /\ AbsentOK' /\ TakenOK'
  <2>1. HoldOK' /\ Exclusive'
    BY <1>1, <1>4 DEF IInv, HoldOK, Exclusive
  <2>2. AbsentOK' /\ TakenOK'
    BY <1>1, <1>4 DEF IInv, TypeOK, AbsentOK, TakenOK
  <2> QED
    BY <2>1, <2>2
<1>10. LeaseStep
  BY <1>1 DEF LeaseStep, Lease!lvars, holder, barred, using, Owner, Relies
<1> QED
  BY <1>2, <1>3, <1>6, <1>7, <1>8, <1>9, <1>10 DEF IInv

\* The consumer of the watch sees a divergence, or its stream ends.
LEMMA ObservationKeeps ==
    ASSUME IInv, NEW t \in Tx, ObserveDivergence(t) \/ StreamLost(t)
    PROVE  IInv' /\ LeaseStep
<1>1. window' \in [Tx -> Windows]
  BY WindowTypes DEF ObserveDivergence, StreamLost, SetWindow, IInv, TypeOK
<1>2. flight' = flight /\ UNCHANGED <<node, proc, fresh, taken, edits, commands>>
  BY DEF ObserveDivergence, StreamLost
<1> QED
  BY <1>1, <1>2, StillKeeps

\* A patch without answer never lands.
LEMMA VanishKeeps ==
    ASSUME IInv, Vanish PROVE IInv' /\ LeaseStep
<1>1. flight' \subseteq flight /\ UNCHANGED <<node, proc, fresh, window, taken, edits, commands>>
  BY DEF Vanish
<1>2. window' \in [Tx -> Windows]
  BY <1>1 DEF IInv, TypeOK
<1> QED
  BY <1>1, <1>2, StillKeeps

\* A patch whose answer was lost applies late.
LEMMA LandKeeps ==
    ASSUME IInv, Land PROVE IInv' /\ LeaseStep
<1>1. PICK f \in flight : Write(f.new) /\ UNCHANGED <<proc, edits, commands>>
  BY DEF Land
<1> DEFINE n == f.new
<1>2. /\ UNCHANGED proc /\ UNCHANGED commands /\ edits' \in 0..MaxEdits
      /\ node \in Nodes /\ commands \in Nat
  BY <1>1 DEF IInv, TypeOK
<1>3. SUFFICES NodeMayBecome(n) /\ (n.journal # None => JournalStays(n) \/ JournalArrives(n))
  <2> HIDE DEF n
  <2> QED
    BY <1>1, <1>2, WriteMove DEF n
<1>4. CASE AcquireInFlight(f)
  <2>1. /\ f.by \in Tx /\ n = Acquired(node, f.by) /\ decideAcquire(node)
        /\ Unsettled(f.by) /\ f.by \notin taken
    BY <1>4 DEF AcquireInFlight
  <2>2. NodeMayBecome(n)
    BY <2>1, AcquiredKept
  <2>3. n.journal.tx = f.by
    BY <1>2, <2>1, AcquiredFields
  <2>4. JournalArrives(n)
    BY <1>2, <2>1, <2>3, RunFacts DEF JournalArrives, Relies, Unsettled, Absent
  <2> QED
    BY <2>2, <2>4
<1>5. CASE StampInFlight(f)
  BY <1>5, StampedKept DEF StampInFlight
<1>6. CASE ReleaseInFlight(f)
  <2>1. NodeMayBecome(n) /\ n.journal = None
    BY <1>2, <1>6, ReleasedKept, ReleasedFields DEF ReleaseInFlight
  <2> QED
    BY <2>1
<1>7. CASE ForceInFlight(f)
  <2>1. PICK id \in 1..commands : NewId(id) /\ n = Quarantined(node, id)
    BY <1>7 DEF ForceInFlight
  <2>2. id \in 1..MaxCommands /\ node.quarantine = None
    BY <1>7, OwnershipAssumption DEF IInv, TypeOK, ForceInFlight
  <2>3. NodeMayBecome(n) /\ n.journal = None
    BY <1>2, <2>1, <2>2, QuarantinedKept, QuarantinedFields
  <2> QED
    BY <2>3
<1>8. CASE ClearInFlight(f)
  <2>1. NodeMayBecome(n) /\ n.journal = None
    BY <1>8, ClearedKept DEF ClearInFlight
  <2> QED
    BY <2>1
<1> QED
  BY <1>4, <1>5, <1>6, <1>7, <1>8 DEF IInv, FlightOK, Applicable

\* Somebody else edits the label and the taints.
LEMMA EditMarkersKeeps ==
    ASSUME IInv, EditMarkers PROVE IInv' /\ LeaseStep
<1>1. PICK m \in {<<None, node.taints>>, <<node.label, {}>>, <<node.label, node.taints \cup {Odd}>>}
               \cup {<<RunID[t], {RunID[t]}>> : t \in Tx} :
         Write([node EXCEPT !.label = m[1], !.taints = m[2]])
  BY DEF EditMarkers
<1> DEFINE n == [node EXCEPT !.label = m[1], !.taints = m[2]]
<1>2. node \in Nodes /\ node.uid \in Nat
  BY DEF IInv, TypeOK, Nodes
<1>3. m[1] \in Marks \cup {None} /\ m[2] \in SUBSET Marks
  BY <1>2 DEF Nodes, Marks
<1>4. /\ n \in Nodes /\ n.uid = node.uid /\ n.journal = node.journal
      /\ n.quarantine = node.quarantine /\ n.residue = node.residue
  BY <1>2, <1>3 DEF Nodes
<1>5. UNCHANGED proc /\ UNCHANGED commands /\ edits' \in 0..MaxEdits
  BY OwnershipAssumption DEF EditMarkers, IInv, TypeOK
<1> HIDE DEF n
<1>6. NodeMayBecome(n) /\ (n.journal # None => JournalStays(n))
  BY <1>2, <1>4 DEF NodeMayBecome, LeaseAllows, Owner, JournalStays, Holding, HasJournal,
       IInv, NodeOK, ResidueExplainsHold, HoldOK
<1>7. Write(n)
  BY <1>1 DEF n
<1> QED
  BY <1>5, <1>6, <1>7, WriteMove

\* Somebody damages the journal.
LEMMA DamageJournalKeeps ==
    ASSUME IInv, DamageJournal PROVE IInv' /\ LeaseStep
<1> DEFINE j == [node.journal EXCEPT !.readable = FALSE]
           n == [node EXCEPT !.journal = j]
<1>1. node \in Nodes /\ node.uid \in Nat /\ node.journal # None /\ node.journal \in Journals
  BY DEF DamageJournal, IInv, TypeOK, Nodes
<1>2. j \in Journals /\ j.tx = node.journal.tx /\ j.uid = node.journal.uid /\ ~j.readable
  BY <1>1 DEF Journals
<1>3. j # None
  BY <1>2, AbsentAssumption
<1> HIDE DEF j
<1>4. /\ n \in Nodes /\ n.uid = node.uid /\ n.journal = j
      /\ n.quarantine = node.quarantine /\ n.residue = node.residue
  BY <1>1, <1>2 DEF Nodes
<1>5. UNCHANGED proc /\ UNCHANGED commands /\ edits' \in 0..MaxEdits /\ Write(n)
  BY OwnershipAssumption DEF DamageJournal, IInv, TypeOK, j
<1> HIDE DEF n
<1>6. NodeMayBecome(n) /\ JournalStays(n)
  BY <1>1, <1>2, <1>3, <1>4 DEF NodeMayBecome, LeaseAllows, Owner, JournalStays, Holding,
       HasJournal, IInv, NodeOK, ResidueExplainsHold, HoldOK
<1> QED
  BY <1>5, <1>6, WriteMove

\* Another machine joins under the Node's name.
LEMMA ReplaceNodeKeeps ==
    ASSUME IInv, ReplaceNode PROVE IInv' /\ LeaseStep
<1> DEFINE n == Fresh(node.uid + 1)
<1>1. node.uid \in Nat /\ node.uid + 1 \in 0..MaxUID
  BY OwnershipAssumption DEF ReplaceNode, IInv, TypeOK, Nodes
<1>2. /\ n \in Nodes /\ n.uid = node.uid + 1 /\ n.journal = None /\ n.quarantine = None
      /\ n.residue = None
  BY <1>1 DEF Fresh, Nodes
<1>3. UNCHANGED proc /\ UNCHANGED commands /\ edits' \in 0..MaxEdits /\ Write(n)
  BY OwnershipAssumption DEF ReplaceNode, IInv, TypeOK
<1> HIDE DEF n
<1>4. \A t \in Tx : Relies(t) => proc[t].jnl.uid # n.uid
  <2> SUFFICES ASSUME NEW t \in Tx, Relies(t) PROVE proc[t].jnl.uid # n.uid
    OBVIOUS
  <2>1. proc[t].jnl.uid \in Nat /\ proc[t].jnl.uid <= node.uid
    BY RunFacts DEF Relies, Journaled, Journals
  <2> QED
    BY <1>1, <1>2, <2>1
<1>5. NodeMayBecome(n)
  BY <1>1, <1>2, <1>4 DEF NodeMayBecome, LeaseAllows, Owner
<1> QED
  BY <1>2, <1>3, <1>5, WriteMove

-----------------------------------------------------------------------------
(* The theorems.                                                            *)

\* The invariant holds at first, and the machine is unleased.
LEMMA InitOK == Init => IInv /\ Lease!LInit
<1> SUFFICES ASSUME Init PROVE IInv /\ Lease!LInit
  OBVIOUS
<1> USE OwnershipAssumption
<1>1. /\ node = Fresh(0) /\ Fresh(0) \in Nodes /\ node.uid = 0 /\ node.journal = None
      /\ node.quarantine = None /\ node.residue = None
  BY DEF Init, Fresh, Nodes
<1>2. /\ fresh = {} /\ flight = {} /\ taken = {} /\ edits = 0 /\ commands = 0
      /\ \A x \in Procs : proc[x] = Idle
  BY DEF Init
<1>3. TypeOK
  <2>1. window \in [Tx -> Windows]
    BY DEF Init, Closed, Windows
  <2>2. proc \in [Procs -> States]
    BY EndTypes DEF Init
  <2> QED
    BY <1>1, <1>2, <2>1, <2>2 DEF TypeOK
<1>4. \A t \in Tx : proc[t].pc = "idle" /\ proc[t].out = "none" /\ ~Relies(t) /\ ~Holding(t)
  BY <1>2 DEF Procs, Idle, Relies, Holding
<1>5. NodeOK /\ RunsOK
  BY <1>1, <1>4 DEF NodeOK, ResidueExplainsHold, RunsOK, RunOK, RunPcs, Journaled, Releasing
<1>6. OperatorsOK /\ ClearOK
  BY <1>2 DEF Procs, OperatorsOK, OperatorOK, OperatorPcs, Releasing, ClearOK, Clearing, Idle
<1>7. FreshOK /\ FlightOK /\ TakenOK
  BY <1>2 DEF FreshOK, FlightOK, TakenOK
<1>8. HoldOK /\ Exclusive /\ AbsentOK
  BY <1>1, <1>4 DEF HoldOK, Exclusive, AbsentOK, HasJournal
<1>9. Lease!LInit
  BY <1>1, <1>4 DEF Lease!LInit, holder, barred, using, Owner
<1> QED
  BY <1>3, <1>5, <1>6, <1>7, <1>8, <1>9 DEF IInv

\* Every step keeps the invariant and is a step of the lease.
LEMMA NextOK == IInv /\ [Next]_vars => IInv' /\ LeaseStep
<1> SUFFICES ASSUME IInv, [Next]_vars PROVE IInv' /\ LeaseStep
  OBVIOUS
<1>1. ASSUME NEW t \in Tx, RunStep(t) PROVE IInv' /\ LeaseStep
  BY <1>1, StartRunKeeps, AcquireGetKeeps, AcquirePatchKeeps, VerifyAcquiredKeeps,
     ResolveKeeps, ListBaselineKeeps, OpeningReadKeeps, ObservationKeeps, CloseWindowKeeps,
     StampGetKeeps, StampPatchKeeps, CrashKeeps DEF RunStep
<1>2. ASSUME NEW x \in Procs, ReleaseStep(x) PROVE IInv' /\ LeaseStep
  BY <1>2, ReleaseGetKeeps, ReleasePatchKeeps, ProveReleasedKeeps, ReadBackKeeps DEF ReleaseStep
<1>3. ASSUME NEW o \in Operators, OperatorStep(o) PROVE IInv' /\ LeaseStep
  BY <1>3, OrdersKeep, StaleGetKeeps, ForceGetKeeps, ForcePatchKeeps, ClearGetKeeps,
     ClearPatchKeeps DEF OperatorStep
<1>4. CASE Land \/ Vanish \/ EditMarkers \/ DamageJournal \/ ReplaceNode
  BY <1>4, LandKeeps, VanishKeeps, EditMarkersKeeps, DamageJournalKeeps, ReplaceNodeKeeps
<1>5. CASE UNCHANGED vars
  <2>1. /\ flight' \subseteq flight /\ window' = window
        /\ UNCHANGED <<node, proc, fresh, taken, edits, commands>>
    BY <1>5 DEF vars
  <2> QED
    BY <2>1, StillKeeps DEF IInv, TypeOK
<1> QED
  BY <1>1, <1>2, <1>3, <1>4, <1>5 DEF Next

(* The invariant below the results holds throughout. *)
LEMMA InvariantHolds == Spec => []IInv
BY InitOK, NextOK, PTL DEF Spec

\* Every variable keeps its type: an operator never enters a run's states, a run
\* that goes on holds a journal, and a retry count never falls below its range.
THEOREM TypeCorrect == Spec => []TypeOK
BY InvariantHolds, PTL DEF IInv

\* Two runs never rely on the same machine at the same time: not the one the Node
\* stands for now, and not one it has replaced (acquireWorker, decideClear).
THEOREM OneRunPerMachine == Spec => []Exclusive
BY InvariantHolds, PTL DEF IInv

\* A run that ends clean kept its journal on the Node until its window closed
\* (releaseOwned, auditedRelease).
THEOREM CleanRunsWereAlone == Spec => []CleanMeansExclusive
<1>1. IInv => CleanMeansExclusive
  BY DEF IInv, TakenOK, CleanMeansExclusive
<1> QED
  BY <1>1, InvariantHolds, PTL

\* A run that refuses with nothing of its own to undo left no journal behind,
\* except through a patch that was still on its way when its window closed
\* (resolveAmbiguousAcquire).
THEOREM RefusedRunsLeaveNothing == Spec => []NothingLeftUnnamed
<1>1. IInv => NothingLeftUnnamed
  BY DEF IInv, AbsentOK, Absent, HasJournal, NothingLeftUnnamed
<1> QED
  BY <1>1, InvariantHolds, PTL

\* A residue record stands only beside the hold it explains, or a quarantine
\* (stampResidue, releaseAcquired, clearQuarantine).
THEOREM ResidueIsExplained == Spec => []ResidueExplainsHold
BY InvariantHolds, PTL DEF IInv, NodeOK

\* The protocol implements the lease of one machine: initial states and steps of
\* the Node, the runs and the operators are initial states and steps of the lease.
THEOREM LeaseImplemented == Spec => ImplementsLease
BY InitOK, NextOK, InvariantHolds, PTL DEF Spec, LeaseStep, ImplementsLease, Lease!LSpec
=============================================================================
