------------------------------ MODULE LabProofs ------------------------------
(***************************************************************************)
(* Proofs about the lab run (LabRun) for any schedule, arms, quotas and    *)
(* machines: whom a preemption is charged to, what the teardown may touch, *)
(* what a released worker holds, what the record of a run says, and what a *)
(* termination canary shows.                                               *)
(***************************************************************************)
EXTENDS CollectorProofs

------------------------------------------------------------------------------
(* The Pods of a row trail each other: the preemption is charged to the   *)
(* first.                                                                  *)

(* An event of u is among those before the i-th.                           *)
HoldsOf(s, m, u, i) == \E n \in (m + 1)..(i - 1) : Named(s[n]) /\ s[n].uid = u

(* What the ledger holds of u begins with its first event.                 *)
Known(L, u) == \E j \in DOMAIN L : L[j].uid = u /\ Nth(L, j) = 1

(* What is recorded happened, past the deadline too.                       *)
Sourced(H, L) == \A i \in DOMAIN L : L[i].type # "Submitted" =>
    \E j \in DOMAIN H : /\ H[j].uid = L[i].uid /\ H[j].row = L[i].job
                        /\ H[j].type = L[i].type /\ H[j].reason = L[i].reason

(* So did what is pending.                                                 *)
Happened(H, pen) == \A i \in DOMAIN pen : Named(pen[i]) => \E r : Matched(H, pen[i], r)

(* Once u has an event, those of w trail it: in the ledger,                *)
LedgerTrails(h, L, u, w) == \A i \in DOMAIN L :
    L[i].uid = w /\ InWindow(h, L[i]) =>
      \E j \in DOMAIN L : L[j].uid = u /\ Nth(L, j) = 1 /\ L[j].at < L[i].at

(* in what is pending,                                                     *)
PenTrails(h, L, pen, m, u, w) == \A i \in (m + 1)..Len(pen) :
    Named(pen[i]) /\ pen[i].uid = w /\ InWindow(h, pen[i]) /\ CleanTo(pen, m, i) =>
      Known(L, u) \/ HoldsOf(pen, m, u, i)

(* and in what the Pod stream still holds.                                 *)
QueTrails(h, O, L, pen, m, que, u, w) ==
    h = -1 /\ "Pod" \in O /\ CleanTo(pen, m, Len(pen) + 1) => \A i \in DOMAIN que["Pod"] :
      Named(que["Pod"][i]) /\ que["Pod"][i].uid = w /\ CleanTo(que["Pod"], 0, i) =>
        Known(L, u) \/ HoldsOf(pen, m, u, Len(pen) + 1) \/ HoldsOf(que["Pod"], 0, u, i)

(* All that is told of w trails u.                                         *)
Trails(h, O, H, L, v, pen, m, que, u, w) == Recorded(H, u) # 0 /\ ~v =>
    /\ LedgerTrails(h, L, u, w)
    /\ PenTrails(h, L, pen, m, u, w)
    /\ QueTrails(h, O, L, pen, m, que, u, w)

(* An object of which something is recorded has a first event there.       *)
LEMMA FirstIsThere ==
    ASSUME NEW S, NEW s \in Seq(S), NEW u, Kindred(s, u) # {}
    PROVE  Known(s, u)
<1> DEFINE K == Kindred(s, u)
           k == Min(K)
<1>1. K \in SUBSET (1..Len(s)) /\ K \in SUBSET Nat /\ K # {}
  <2>1. Kindred(s, u) \in SUBSET (1..Len(s)) /\ Len(s) \in Nat
    BY KindredAre
  <2> QED BY <2>1
<1>2. k \in K /\ \A y \in K : k <= y
  <2> HIDE DEF K
  <2> QED BY <1>1, MinIsLeast
<1>3. k \in DOMAIN s /\ s[k].uid = u /\ k \in Nat
  BY <1>1, <1>2 DEF Kindred
<1> HIDE DEF k
<1>4. {j \in 1..k : s[j].uid = s[k].uid} = {k}
  <2>1. ASSUME NEW j \in 1..k, s[j].uid = u PROVE j = k
    <3>1. j \in DOMAIN s
      BY <1>3
    <3>2. j \in K
      BY <2>1, <3>1 DEF Kindred
    <3> QED BY <1>2, <1>3, <3>2
  <2> QED BY <1>3, <2>1
<1>5. Nth(s, k) = 1
  BY <1>4, FS_Singleton DEF Nth
<1> QED BY <1>3, <1>5 DEF Known

(* The first event stays the first.                                        *)
LEMMA KnownStays ==
    ASSUME NEW S, NEW s \in Seq(S), NEW e \in S, NEW j \in DOMAIN s
    PROVE  LET M == Append(s, e)
           IN j \in DOMAIN M /\ M[j] = s[j] /\ Nth(M, j) = Nth(s, j)
<1>1. Nth(Append(s, e), j) = Nth(s, j)
  BY NthAppend
<1>2. j \in DOMAIN Append(s, e) /\ Append(s, e)[j] = s[j]
  OBVIOUS
<1> QED BY <1>1, <1>2

(* What Observe makes of a ledger, and what it tells of the event.         *)
Takes(L, M, e) ==
    \/ M = L
    \/ /\ e.type # "none"
       /\ \E x \in Entries : M = Append(L, x) /\ x.type = e.type /\ x.job = e.row /\ x.uid = e.uid
                             /\ x.at = e.at /\ x.reason = e.reason

(* A ledger that stays valid knows the object of the event.                *)
LEMMA ObserveTakes ==
    ASSUME NEW L \in Seq(Entries), NEW v \in BOOLEAN, NEW e \in Observed,
           NEW b, b = Observe([ledger |-> L, invalid |-> v], e)
    PROVE  /\ b = [ledger |-> b.ledger, invalid |-> b.invalid] /\ b.invalid \in BOOLEAN
           /\ Takes(L, b.ledger, e)
           /\ ~b.invalid => ~v /\ ~e.bad /\ (e.type # "none" => Known(b.ledger, e.uid))
<1> DEFINE u == e.uid
           b0 == [ledger |-> L, invalid |-> v]
           new == [type |-> e.type, job |-> e.row, uid |-> u, at |-> e.at, reason |-> e.reason]
           last == LastOf(b0, u)
           old == e.type \in {"none", last}
           c == [b0 EXCEPT !.ledger = Append(@, new)]
<1>1. e.at \in Nat /\ u \in Uids /\ e.bad \in BOOLEAN
  BY EntriesAre
<1>2. CASE v \/ e.bad
  <2>1. b = [ledger |-> L, invalid |-> TRUE]
    BY <1>2 DEF Observe
  <2>2. b.ledger = L /\ b.invalid = TRUE
    BY <2>1
  <2> QED BY <2>1, <2>2 DEF Takes
<1>3. CASE ~v /\ ~e.bad /\ old
  <2>1. b = [ledger |-> L, invalid |-> e.delta = "Delete" /\ last = "PodReady"]
    BY <1>3 DEF Observe
  <2>4. b.ledger = L /\ b.invalid = (e.delta = "Delete" /\ last = "PodReady")
    BY <2>1
  <2>2. e.type # "none" => Kindred(L, u) # {}
    <3>1. Kindred(L, u) = {i \in DOMAIN b0.ledger : b0.ledger[i].uid = u}
      BY DEF Kindred
    <3>2. Kindred(L, u) = {} => last = "none"
      BY <3>1 DEF LastOf
    <3> QED BY <1>3, <3>2
  <2>3. e.type # "none" => Known(L, u)
    BY <2>2, FirstIsThere
  <2> HIDE DEF last
  <2> QED BY <1>3, <2>1, <2>3, <2>4 DEF Takes
<1>4. CASE ~v /\ ~e.bad /\ ~old
  <2>1. new \in Entries
    <3>1. new \in [type : Types \cup {"none"}, job : Rows \cup {"stray"}, uid : Uids, at : Nat, reason : Reasons]
      BY <1>1, EntriesAre
    <3> QED BY <1>4, <3>1 DEF Entries
  <2>2. c = [ledger |-> Append(L, new), invalid |-> v]
    <3> HIDE DEF new
    <3> QED BY Zenon, LedgerExtended
  <2>3. b = [c EXCEPT !.invalid = e.delta = "Delete" /\ LastOf(c, u) = "PodReady"]
    BY <1>4 DEF Observe
  <2>4. b = [ledger |-> Append(L, new), invalid |-> e.delta = "Delete" /\ LastOf(c, u) = "PodReady"]
    <3> HIDE DEF c, new
    <3> QED BY <2>2, <2>3
  <2>9. b.ledger = Append(L, new) /\ b.invalid \in BOOLEAN /\ b = [ledger |-> b.ledger, invalid |-> b.invalid]
    <3> DEFINE gone == e.delta = "Delete" /\ LastOf(c, u) = "PodReady"
    <3>1. b = [ledger |-> Append(L, new), invalid |-> gone] /\ gone \in BOOLEAN
      BY <2>4
    <3> HIDE DEF gone, new
    <3> QED BY <3>1
  <2>5. new.uid = u /\ new.type = e.type /\ new.job = e.row /\ new.at = e.at /\ new.reason = e.reason
    OBVIOUS
  <2> HIDE DEF new
  <2>6. Kindred(b.ledger, u) # {} /\ b.ledger \in Seq(Entries)
    <3>1. Len(L) + 1 \in DOMAIN Append(L, new) /\ Append(L, new)[Len(L) + 1] = new
      BY <2>1
    <3>2. Append(L, new) \in Seq(Entries)
      BY <2>1
    <3> QED BY <2>5, <2>9, <3>1, <3>2 DEF Kindred
  <2>7. Known(b.ledger, u)
    BY <2>6, FirstIsThere
  <2>8. Takes(L, b.ledger, e)
    BY <1>4, <2>1, <2>5, <2>9 DEF Takes
  <2> QED BY <1>4, <2>7, <2>8, <2>9
<1> QED BY <1>1, <1>2, <1>3, <1>4

(* One more event is dealt with,                                           *)
Grows(L, v, e, M, x) ==
    /\ Takes(L, M, e)
    /\ ~x => ~v /\ ~e.bad /\ (e.type # "none" => Known(M, e.uid))

(* which loses nothing of the ledger,                                      *)
LEMMA TakesExtends ==
    ASSUME NEW L \in Seq(Entries), NEW e \in Observed, NEW M, Takes(L, M, e)
    PROVE  /\ M \in Seq(Entries)
           /\ \A j \in DOMAIN L : j \in DOMAIN M /\ M[j] = L[j] /\ Nth(M, j) = Nth(L, j)
           /\ \A u : Known(L, u) => Known(M, u)
           /\ \A i \in DOMAIN M : i \in DOMAIN L \/ (/\ e.type # "none"
                /\ M[i].type = e.type /\ M[i].job = e.row /\ M[i].uid = e.uid /\ M[i].at = e.at /\ M[i].reason = e.reason)
<1>1. CASE M = L
  BY <1>1
<1>2. ASSUME NEW x \in Entries, M = Append(L, x), e.type # "none", x.type = e.type, x.job = e.row, x.uid = e.uid,
             x.at = e.at, x.reason = e.reason
      PROVE  /\ M \in Seq(Entries)
             /\ \A j \in DOMAIN L : j \in DOMAIN M /\ M[j] = L[j] /\ Nth(M, j) = Nth(L, j)
             /\ \A u : Known(L, u) => Known(M, u)
             /\ \A i \in DOMAIN M : i \in DOMAIN L \/ (/\ e.type # "none"
                  /\ M[i].type = e.type /\ M[i].job = e.row /\ M[i].uid = e.uid /\ M[i].at = e.at /\ M[i].reason = e.reason)
  <2>1. M \in Seq(Entries)
    BY <1>2
  <2>2. \A j \in DOMAIN L : j \in DOMAIN M /\ M[j] = L[j] /\ Nth(M, j) = Nth(L, j)
    BY <1>2, KnownStays
  <2>3. \A u : Known(L, u) => Known(M, u)
    BY <2>2 DEF Known
  <2>4. \A i \in DOMAIN M : i \in DOMAIN L \/ (i = Len(L) + 1 /\ M[i] = x)
    BY <1>2
  <2> QED BY <1>2, <2>1, <2>2, <2>3, <2>4
<1> QED BY <1>1, <1>2 DEF Takes

(* keeps the instants growing,                                             *)
LEMMA TakesInOrder ==
    ASSUME NEW L \in Seq(Entries), NEW pen \in Seq(Observed), NEW m \in Nat, m < Len(pen),
           AtOK(L, pen, m), NEW M, Takes(L, M, pen[m + 1])
    PROVE  AtOK(M, pen, m + 1)
<1>1. m + 1 \in DOMAIN pen /\ Len(pen) \in Nat /\ pen[m + 1] \in Observed
  OBVIOUS
<1>2. ASSUME NEW i \in DOMAIN M, NEW j \in (m + 1 + 1)..Len(pen), M[i].type # "Submitted"
      PROVE  M[i].at < pen[j].at
  <2>1. j \in (m + 1)..Len(pen) /\ j \in DOMAIN pen /\ m + 1 < j
    BY <1>1
  <2>2. CASE i \in DOMAIN L
    <3>1. M[i] = L[i]
      BY <1>1, <2>2, TakesExtends
    <3> QED BY <1>2, <2>1, <2>2, <3>1 DEF AtOK
  <2>3. CASE i \notin DOMAIN L
    <3>1. M[i].at = pen[m + 1].at
      BY <1>1, <2>3, TakesExtends
    <3>2. pen[m + 1].at < pen[j].at
      BY <1>1, <2>1 DEF AtOK
    <3> QED BY <3>1, <3>2
  <2> QED BY <2>2, <2>3
<1> QED BY <1>2 DEF AtOK

(* records only what happened,                                             *)
LEMMA TakesWhatHappened ==
    ASSUME NEW H, NEW L \in Seq(Entries), NEW pen \in Seq(Observed), NEW m \in Nat, m < Len(pen),
           Sourced(H, L), Happened(H, pen), pen[m + 1].uid # Stray, NEW M, Takes(L, M, pen[m + 1])
    PROVE  Sourced(H, M)
<1> DEFINE e == pen[m + 1]
<1>1. m + 1 \in DOMAIN pen /\ e \in Observed
  OBVIOUS
<1> SUFFICES ASSUME NEW i \in DOMAIN M, M[i].type # "Submitted"
             PROVE  \E j \in DOMAIN H : /\ H[j].uid = M[i].uid /\ H[j].row = M[i].job
                                        /\ H[j].type = M[i].type /\ H[j].reason = M[i].reason
  BY DEF Sourced
<1>2. CASE i \in DOMAIN L
  <2>1. M[i] = L[i]
    BY <1>1, <1>2, TakesExtends
  <2> QED BY <1>2, <2>1 DEF Sourced
<1>3. CASE i \notin DOMAIN L
  <2>1. e.type # "none" /\ M[i].type = e.type /\ M[i].job = e.row /\ M[i].uid = e.uid /\ M[i].reason = e.reason
    BY <1>1, <1>3, TakesExtends
  <2>2. Named(e)
    BY <2>1 DEF Named
  <2>3. PICK r : Matched(H, e, r)
    BY <1>1, <2>2 DEF Happened
  <2> QED BY <2>1, <2>3 DEF Matched
<1> QED BY <1>2, <1>3

(* and leaves w behind u.                                                  *)
LEMMA TrailGrows ==
    ASSUME NEW h \in Int, NEW O, NEW H, NEW L \in Seq(Entries), NEW v, NEW pen \in Seq(Observed),
           NEW m \in Nat, m < Len(pen), NEW que, NEW u \in Uids, NEW w \in Uids, w # Stray,
           Trails(h, O, H, L, v, pen, m, que, u, w), AtOK(L, pen, m),
           NEW M, NEW x, Grows(L, v, pen[m + 1], M, x)
    PROVE  Trails(h, O, H, M, x, pen, m + 1, que, u, w)
<1> DEFINE e == pen[m + 1]
<1>1. m + 1 \in DOMAIN pen /\ Len(pen) \in Nat /\ e \in Observed /\ m + 1 \in (m + 1)..Len(pen)
  OBVIOUS
<1> SUFFICES ASSUME Recorded(H, u) # 0, ~x
             PROVE  /\ LedgerTrails(h, M, u, w)
                    /\ PenTrails(h, M, pen, m + 1, u, w)
                    /\ QueTrails(h, O, M, pen, m + 1, que, u, w)
  BY DEF Trails
<1>2. /\ Takes(L, M, e) /\ ~v /\ ~e.bad /\ (e.type # "none" => Known(M, e.uid))
      /\ LedgerTrails(h, L, u, w) /\ PenTrails(h, L, pen, m, u, w) /\ QueTrails(h, O, L, pen, m, que, u, w)
  BY DEF Grows, Trails
<1>3. ASSUME NEW i \in Int, CleanTo(pen, m + 1, i) PROVE CleanTo(pen, m, i)
  BY <1>2, <1>3 DEF CleanTo
<1>4. ASSUME NEW i \in Int, Known(L, u) \/ HoldsOf(pen, m, u, i)
      PROVE  Known(M, u) \/ HoldsOf(pen, m + 1, u, i)
  <2>1. CASE Known(L, u)
    BY <1>1, <1>2, <2>1, TakesExtends
  <2>2. CASE HoldsOf(pen, m, u, i)
    <3>1. PICK n \in (m + 1)..(i - 1) : Named(pen[n]) /\ pen[n].uid = u
      BY <2>2 DEF HoldsOf
    <3>2. CASE n = m + 1
      BY <1>2, <3>1, <3>2 DEF Named
    <3>3. CASE n # m + 1
      <4>1. n \in (m + 1 + 1)..(i - 1)
        BY <3>1, <3>3
      <4> QED BY <3>1, <4>1 DEF HoldsOf
    <3> QED BY <3>2, <3>3
  <2> QED BY <1>4, <2>1, <2>2
<1>5. LedgerTrails(h, M, u, w)
  <2> SUFFICES ASSUME NEW i \in DOMAIN M, M[i].uid = w, InWindow(h, M[i])
               PROVE  \E j \in DOMAIN M : M[j].uid = u /\ Nth(M, j) = 1 /\ M[j].at < M[i].at
    BY DEF LedgerTrails
  <2>1. CASE i \in DOMAIN L
    <3>1. M[i] = L[i]
      BY <1>1, <1>2, <2>1, TakesExtends
    <3>2. PICK j \in DOMAIN L : L[j].uid = u /\ Nth(L, j) = 1 /\ L[j].at < L[i].at
      BY <1>2, <2>1, <3>1 DEF LedgerTrails
    <3>3. j \in DOMAIN M /\ M[j] = L[j] /\ Nth(M, j) = Nth(L, j)
      BY <1>1, <1>2, TakesExtends
    <3> QED BY <3>1, <3>2, <3>3
  <2>2. CASE i \notin DOMAIN L
    <3>1. e.type # "none" /\ M[i].uid = e.uid /\ M[i].at = e.at
      BY <1>1, <1>2, <2>2, TakesExtends
    <3>2. Named(e) /\ e.uid = w /\ InWindow(h, e)
      BY <3>1 DEF Named, InWindow
    <3>3. CleanTo(pen, m, m + 1) /\ ~HoldsOf(pen, m, u, m + 1)
      BY DEF CleanTo, HoldsOf
    <3>4. Known(L, u)
      BY <1>1, <1>2, <3>2, <3>3 DEF PenTrails
    <3>5. PICK j \in DOMAIN L : L[j].uid = u /\ Nth(L, j) = 1
      BY <3>4 DEF Known
    <3>6. L[j].type # "Submitted"
      BY <3>5, EntriesAre
    <3>7. L[j].at < e.at
      BY <1>1, <3>6 DEF AtOK
    <3>8. j \in DOMAIN M /\ M[j] = L[j] /\ Nth(M, j) = Nth(L, j)
      BY <1>1, <1>2, TakesExtends
    <3> QED BY <3>1, <3>5, <3>7, <3>8
  <2> QED BY <2>1, <2>2
<1>6. PenTrails(h, M, pen, m + 1, u, w)
  <2> SUFFICES ASSUME NEW i \in (m + 1 + 1)..Len(pen), Named(pen[i]), pen[i].uid = w, InWindow(h, pen[i]),
                      CleanTo(pen, m + 1, i)
               PROVE  Known(M, u) \/ HoldsOf(pen, m + 1, u, i)
    BY DEF PenTrails
  <2>1. i \in (m + 1)..Len(pen) /\ i \in Int
    BY <1>1
  <2>2. CleanTo(pen, m, i)
    BY <1>3, <2>1
  <2>3. Known(L, u) \/ HoldsOf(pen, m, u, i)
    BY <1>2, <2>1, <2>2 DEF PenTrails
  <2> QED BY <1>4, <2>1, <2>3
<1>7. QueTrails(h, O, M, pen, m + 1, que, u, w)
  <2> SUFFICES ASSUME h = -1, "Pod" \in O, CleanTo(pen, m + 1, Len(pen) + 1), NEW i \in DOMAIN que["Pod"],
                      Named(que["Pod"][i]), que["Pod"][i].uid = w, CleanTo(que["Pod"], 0, i)
               PROVE  Known(M, u) \/ HoldsOf(pen, m + 1, u, Len(pen) + 1) \/ HoldsOf(que["Pod"], 0, u, i)
    BY DEF QueTrails
  <2>1. Len(pen) + 1 \in Int /\ CleanTo(pen, m, Len(pen) + 1)
    BY <1>1, <1>3
  <2>2. Known(L, u) \/ HoldsOf(pen, m, u, Len(pen) + 1) \/ HoldsOf(que["Pod"], 0, u, i)
    BY <1>2, <2>1 DEF QueTrails
  <2> QED BY <1>4, <2>1, <2>2
<1> QED BY <1>5, <1>6, <1>7

(* So it is once the builder has dealt with all that is pending.           *)
LEMMA TrailBuilt ==
    ASSUME NEW h \in Int, NEW O, NEW H, NEW L \in Seq(Entries), NEW v \in BOOLEAN, NEW pen \in Seq(Observed),
           NEW que, NEW u \in Uids, NEW w \in Uids, w # Stray,
           Trails(h, O, H, L, v, pen, 0, que, u, w), AtOK(L, pen, 0), Sourced(H, L), Happened(H, pen), NoStray(pen),
           NEW b, Flushes(L, v, pen, b)
    PROVE  Sourced(H, b.ledger) /\ Trails(h, O, H, b.ledger, b.invalid, pen, Len(pen), que, u, w)
<1> DEFINE b0 == [ledger |-> L, invalid |-> v]
           c(m) == Built(b0, pen)[m]
           Good(d, m) == /\ d = [ledger |-> d.ledger, invalid |-> d.invalid]
                         /\ d.ledger \in Seq(Entries) /\ d.invalid \in BOOLEAN
                         /\ AtOK(d.ledger, pen, m) /\ Sourced(H, d.ledger)
                         /\ Trails(h, O, H, d.ledger, d.invalid, pen, m, que, u, w)
           T == {m \in Nat : Good(c(m), m)}
<1>1. 0 \in T
  <2>1. c(0) = b0
    BY BuiltSteps
  <2>2. Good(b0, 0)
    OBVIOUS
  <2> HIDE DEF b0, Good
  <2> QED BY <2>1, <2>2
<1>2. ASSUME NEW m \in 0..(Len(pen) - 1), m \in T PROVE m + 1 \in T
  <2>1. m \in Nat /\ m < Len(pen) /\ m + 1 \in DOMAIN pen /\ pen[m + 1] \in Observed
    OBVIOUS
  <2>2. PICK M, x : c(m) = [ledger |-> M, invalid |-> x] /\ c(m).ledger = M /\ c(m).invalid = x
    BY <1>2
  <2>3. /\ M \in Seq(Entries) /\ x \in BOOLEAN /\ AtOK(M, pen, m) /\ Sourced(H, M)
        /\ Trails(h, O, H, M, x, pen, m, que, u, w)
    BY <1>2, <2>2
  <2>4. PICK d : d = Observe([ledger |-> M, invalid |-> x], pen[m + 1])
    OBVIOUS
  <2>5. c(m + 1) = d
    BY <2>2, <2>4, BuiltSteps
  <2>6. Takes(M, d.ledger, pen[m + 1]) /\ Grows(M, x, pen[m + 1], d.ledger, d.invalid)
    BY <2>1, <2>3, <2>4, ObserveTakes DEF Grows
  <2>7. d = [ledger |-> d.ledger, invalid |-> d.invalid] /\ d.invalid \in BOOLEAN
    BY <2>1, <2>3, <2>4, ObserveTakes
  <2>8. d.ledger \in Seq(Entries)
    BY <2>1, <2>3, <2>6, TakesExtends
  <2>9. AtOK(d.ledger, pen, m + 1)
    BY <2>1, <2>3, <2>6, TakesInOrder
  <2>10. Sourced(H, d.ledger)
    <3>1. pen[m + 1].uid # Stray
      BY <2>1 DEF NoStray
    <3> QED BY <2>1, <2>3, <2>6, <3>1, TakesWhatHappened
  <2>11. Trails(h, O, H, d.ledger, d.invalid, pen, m + 1, que, u, w)
    BY Zenon, <2>1, <2>3, <2>6, TrailGrows
  <2>12. Good(d, m + 1)
    BY Zenon, <2>7, <2>8, <2>9, <2>10, <2>11
  <2> HIDE DEF c, Good
  <2> QED BY <2>1, <2>5, <2>12
<1>3. Len(pen) \in Nat /\ T \in SUBSET Nat
  OBVIOUS
<1>4. Len(pen) \in T
  <2>1. \A i \in 0..(Len(pen) - 1) : i \in T => i + 1 \in T
    BY <1>2
  <2> HIDE DEF T
  <2>2. \A i \in 0..Len(pen) : i \in T
    BY Zenon, <1>1, <1>3, <2>1, NatReaches
  <2> QED BY <1>3, <2>2
<1> QED BY <1>4 DEF Flushes

(* What has been dealt with no longer counts as pending.                   *)
LEMMA TrailFlushed ==
    ASSUME NEW h, NEW O, NEW H, NEW L, NEW v, NEW pen \in Seq(Observed), NEW que, NEW u, NEW w,
           Trails(h, O, H, L, v, pen, Len(pen), que, u, w), NEW nil, nil = <<>>
    PROVE  Trails(h, O, H, L, v, nil, 0, que, u, w)
<1>1. Len(pen) \in Nat /\ Len(nil) = 0
  OBVIOUS
<1>2. CleanTo(pen, Len(pen), Len(pen) + 1) /\ ~HoldsOf(pen, Len(pen), u, Len(pen) + 1)
  BY <1>1 DEF CleanTo, HoldsOf
<1>3. PenTrails(h, L, nil, 0, u, w)
  BY <1>1 DEF PenTrails
<1>4. QueTrails(h, O, L, pen, Len(pen), que, u, w) => QueTrails(h, O, L, nil, 0, que, u, w)
  BY <1>2 DEF QueTrails
<1> QED BY <1>3, <1>4 DEF Trails

(* With fewer streams open, the ledger given up or the deadline passed,    *)
(* less is asked.                                                          *)
LEMMA TrailWeakens ==
    ASSUME NEW h, NEW O, NEW H, NEW L, NEW v, NEW pen, NEW m, NEW que, NEW u, NEW w,
           Trails(h, O, H, L, v, pen, m, que, u, w),
           NEW g, g = h \/ (h = -1 /\ g # -1), NEW P, P \subseteq O, NEW x, v => x
    PROVE  Trails(g, P, H, L, x, pen, m, que, u, w)
<1>1. \A e : InWindow(g, e) => InWindow(h, e)
  BY DEF InWindow
<1>2. LedgerTrails(h, L, u, w) => LedgerTrails(g, L, u, w)
  BY <1>1 DEF LedgerTrails
<1>3. PenTrails(h, L, pen, m, u, w) => PenTrails(g, L, pen, m, u, w)
  BY <1>1 DEF PenTrails
<1>4. QueTrails(h, O, L, pen, m, que, u, w) => QueTrails(g, P, L, pen, m, que, u, w)
  BY DEF QueTrails
<1> QED BY <1>2, <1>3, <1>4 DEF Trails

(* A stream's head becomes pending.                                        *)
LEMMA TrailPends ==
    ASSUME NEW h \in Int, NEW O \in SUBSET Kinds, NEW H, NEW L, NEW v, NEW pen \in Seq(Observed),
           NEW que, Kinded(que), NEW u, NEW w, KindOf(w) = "Pod",
           Trails(h, O, H, L, v, pen, 0, que, u, w),
           NEW k \in O, que[k] # <<>>, NEW a \in Nat, Past(h, L, pen, a),
           NEW pn, pn = Append(pen, Stamped(Head(que[k]), a))
    PROVE  Trails(h, O, H, L, v, pn, 0, que, u, w)
<1> DEFINE e == Stamped(Head(que[k]), a)
<1>1. que[k] \in Seq(Transitions) /\ Head(que[k]) = que[k][1] /\ 1 \in DOMAIN que[k]
  BY DEF Kinded
<1>2. /\ e.uid = que[k][1].uid /\ e.type = que[k][1].type /\ e.bad = que[k][1].bad /\ e.at = a
      /\ KindOf(e.uid) = k
  BY <1>1 DEF Stamped, Kinded
<1> HIDE DEF e
<1>3. /\ Len(pen) \in Nat /\ Len(pn) = Len(pen) + 1 /\ pn[Len(pen) + 1] = e
      /\ \A n \in 1..Len(pen) : pn[n] = pen[n]
  BY DEF e
<1>4. ASSUME NEW i \in 1..(Len(pen) + 1) PROVE CleanTo(pn, 0, i) => CleanTo(pen, 0, i)
  BY <1>3 DEF CleanTo
<1>5. ASSUME NEW i \in 1..(Len(pen) + 1), HoldsOf(pen, 0, u, i) PROVE HoldsOf(pn, 0, u, i)
  BY <1>3, <1>5 DEF HoldsOf
<1>6. CleanTo(pn, 0, Len(pn) + 1) => CleanTo(pen, 0, Len(pen) + 1)
  BY <1>3 DEF CleanTo
<1>7. HoldsOf(pen, 0, u, Len(pen) + 1) => HoldsOf(pn, 0, u, Len(pn) + 1)
  BY <1>3 DEF HoldsOf
<1> SUFFICES ASSUME Recorded(H, u) # 0, ~v
             PROVE  LedgerTrails(h, L, u, w) /\ PenTrails(h, L, pn, 0, u, w) /\ QueTrails(h, O, L, pn, 0, que, u, w)
  BY DEF Trails
<1>8. LedgerTrails(h, L, u, w) /\ PenTrails(h, L, pen, 0, u, w) /\ QueTrails(h, O, L, pen, 0, que, u, w)
  BY DEF Trails
<1>9. PenTrails(h, L, pn, 0, u, w)
  <2> SUFFICES ASSUME NEW i \in 1..Len(pn), Named(pn[i]), pn[i].uid = w, InWindow(h, pn[i]), CleanTo(pn, 0, i)
               PROVE  Known(L, u) \/ HoldsOf(pn, 0, u, i)
    BY DEF PenTrails
  <2>1. i \in 1..(Len(pen) + 1) /\ CleanTo(pen, 0, i)
    BY <1>3, <1>4
  <2>2. CASE i \in 1..Len(pen)
    <3>1. Known(L, u) \/ HoldsOf(pen, 0, u, i)
      BY <1>3, <1>8, <2>1, <2>2 DEF PenTrails
    <3> QED BY <1>5, <2>1, <3>1
  <2>3. CASE i = Len(pen) + 1
    <3>1. k = "Pod" /\ h = -1 /\ Named(que[k][1]) /\ que[k][1].uid = w
      BY <1>2, <1>3, <2>3 DEF InWindow, Past, Named
    <3>2. CleanTo(que[k], 0, 1) /\ ~HoldsOf(que[k], 0, u, 1)
      BY DEF CleanTo, HoldsOf
    <3>3. Known(L, u) \/ HoldsOf(pen, 0, u, Len(pen) + 1)
      BY <1>1, <1>8, <2>1, <2>3, <3>1, <3>2 DEF QueTrails
    <3> QED BY <1>5, <2>1, <2>3, <3>3
  <2> QED BY <1>3, <2>2, <2>3
<1>10. QueTrails(h, O, L, pn, 0, que, u, w)
  BY <1>6, <1>7, <1>8 DEF QueTrails
<1> QED BY <1>8, <1>9, <1>10

(* A stream's head is gone: it is pending, or told nothing.                *)
LEMMA TrailDrops ==
    ASSUME NEW h, NEW O, NEW H, NEW L, NEW v, NEW pen \in Seq(Observed), NEW que, Kinded(que), NEW u, NEW w,
           Trails(h, O, H, L, v, pen, 0, que, u, w),
           NEW k \in Kinds, que[k] # <<>>,
           h = -1 /\ CleanTo(pen, 0, Len(pen) + 1) =>
             /\ ~que[k][1].bad
             /\ Named(que[k][1]) => HoldsOf(pen, 0, que[k][1].uid, Len(pen) + 1),
           NEW Q, Leaves(que, Q, k)
    PROVE  Trails(h, O, H, L, v, pen, 0, Q, u, w)
<1> SUFFICES ASSUME QueTrails(h, O, L, pen, 0, que, u, w) PROVE QueTrails(h, O, L, pen, 0, Q, u, w)
  BY DEF Trails
<1>1. CASE k # "Pod"
  <2>1. Q["Pod"] = que["Pod"]
    BY <1>1 DEF Leaves, Kinds
  <2> QED BY <2>1 DEF QueTrails
<1>2. CASE k = "Pod"
  <2> DEFINE s == que["Pod"]
             t == Q["Pod"]
  <2>1. s \in Seq(Transitions) /\ s # <<>> /\ t = Tail(s)
    BY <1>2 DEF Kinded, Leaves
  <2>2. /\ Len(s) \in Nat /\ DOMAIN s = 1..Len(s) /\ DOMAIN t = 1..(Len(s) - 1)
        /\ \A i \in 1..(Len(s) - 1) : t[i] = s[i + 1]
    <3> HIDE DEF s, t
    <3> QED BY <2>1
  <2> SUFFICES ASSUME h = -1, "Pod" \in O, CleanTo(pen, 0, Len(pen) + 1), NEW i \in DOMAIN t,
                      Named(t[i]), t[i].uid = w, CleanTo(t, 0, i)
               PROVE  Known(L, u) \/ HoldsOf(pen, 0, u, Len(pen) + 1) \/ HoldsOf(t, 0, u, i)
    BY DEF QueTrails
  <2>3. ~s[1].bad /\ (Named(s[1]) => HoldsOf(pen, 0, s[1].uid, Len(pen) + 1))
    BY <1>2
  <2>4. i + 1 \in DOMAIN s /\ t[i] = s[i + 1]
    BY <2>2
  <2>5. CleanTo(s, 0, i + 1)
    <3> SUFFICES ASSUME NEW n \in 1..i PROVE ~s[n].bad
      BY <2>2 DEF CleanTo
    <3>1. CASE n = 1
      BY <2>3, <3>1
    <3>2. CASE n # 1
      <4>1. n - 1 \in 1..(i - 1) /\ n - 1 \in 1..(Len(s) - 1) /\ n - 1 + 1 = n
        BY <2>2, <3>2
      <4>2. s[n] = t[n - 1]
        BY <2>2, <4>1
      <4> QED BY <4>1, <4>2 DEF CleanTo
    <3> QED BY <3>1, <3>2
  <2>6. Known(L, u) \/ HoldsOf(pen, 0, u, Len(pen) + 1) \/ HoldsOf(s, 0, u, i + 1)
    BY <2>4, <2>5 DEF QueTrails
  <2>7. ASSUME HoldsOf(s, 0, u, i + 1) PROVE HoldsOf(pen, 0, u, Len(pen) + 1) \/ HoldsOf(t, 0, u, i)
    <3>1. PICK n \in 1..i : Named(s[n]) /\ s[n].uid = u
      BY <2>2, <2>7 DEF HoldsOf
    <3>2. CASE n = 1
      BY <2>3, <3>1, <3>2
    <3>3. CASE n # 1
      <4>1. n - 1 \in 1..(i - 1) /\ n - 1 \in 1..(Len(s) - 1) /\ n - 1 + 1 = n
        BY <2>2, <3>3
      <4>2. s[n] = t[n - 1]
        BY <2>2, <4>1
      <4> QED BY <3>1, <4>1, <4>2 DEF HoldsOf
    <3> QED BY <3>2, <3>3
  <2> QED BY <2>6, <2>7
<1> QED BY <1>1, <1>2

(* What happened to the Pods of the rows: each became Ready, then stopped. *)
PodEvent(H, i) == \E r \in Rows : \E m \in Nat :
    /\ m >= 1 /\ H[i].uid = Pod(r, m) /\ H[i].row = r
    /\ (Nth(H, i) = 1 /\ H[i].type = "PodReady") \/ (Nth(H, i) = 2 /\ H[i].type = "AttemptStopped")

(* That holds of each event of a Pod, and of each Ready and stop.          *)
PodEvents(H) == \A i \in DOMAIN H :
    KindOf(H[i].uid) = "Pod" \/ H[i].type \in {"PodReady", "AttemptStopped"} => PodEvent(H, i)

(* A row has a Pod only once one was made; a Ready one has one event.      *)
PodStates(H, rw) == \A r \in Rows :
    /\ rw[r].pod # "none" => rw[r].n >= 1
    /\ rw[r].pod = "ready" => Recorded(H, Pod(r, rw[r].n)) = 1

(* The Pods of a row trail each other in the order of their creation.      *)
DInv == /\ Sourced(happened, ledger)
        /\ PodEvents(happened) /\ PodStates(happened, row)
        /\ \A r \in Rows : \A a, b \in Nat : a < b =>
              Trails(horizon, Opens(stream), happened, ledger, invalid, pending, 0, queue, Pod(r, a), Pod(r, b))

(* Before w has an event, none of it is anywhere.                          *)
LEMMA NothingTrails ==
    ASSUME NEW h, NEW O, NEW E, NEW H \in Seq(Transitions), NEW L \in Seq(Entries), NEW v, NEW pen \in Seq(Observed),
           NEW que, Kinded(que), Kept(h, O, E, H, L, v, pen, que), Sourced(H, L),
           NEW u, NEW w \in Uids, Recorded(H, w) = 0
    PROVE  Trails(h, O, H, L, v, pen, 0, que, u, w)
<1>1. \A i \in DOMAIN H : H[i].uid # w
  BY NothingIsLatest
<1>2. PICK pp, qq : RankOK(H, pen, pp, que, qq)
  BY DEF Kept, Chain
<1>3. LedgerTrails(h, L, u, w)
  <2> SUFFICES ASSUME NEW i \in DOMAIN L, L[i].uid = w PROVE FALSE
    BY DEF LedgerTrails
  <2>1. L[i].type # "Submitted"
    BY EntriesAre
  <2> QED BY <1>1, <2>1 DEF Sourced
<1>4. PenTrails(h, L, pen, 0, u, w)
  <2> SUFFICES ASSUME NEW i \in 1..Len(pen), Named(pen[i]), pen[i].uid = w PROVE FALSE
    BY DEF PenTrails
  <2>1. Matched(H, pen[i], pp[i])
    BY SMTT(30), <1>2 DEF RankOK
  <2> QED BY <1>1, <2>1 DEF Matched
<1>5. QueTrails(h, O, L, pen, 0, que, u, w)
  <2> SUFFICES ASSUME NEW i \in DOMAIN que["Pod"], Named(que["Pod"][i]), que["Pod"][i].uid = w PROVE FALSE
    BY DEF QueTrails
  <2>1. Matched(H, que["Pod"][i], qq["Pod"][i])
    BY <1>2 DEF RankOK, Kinds
  <2> QED BY <1>1, <2>1 DEF Matched
<1> QED BY <1>3, <1>4, <1>5 DEF Trails

(* What is sent once u has an event trails it.                             *)
LEMMA TrailSends ==
    ASSUME NEW h, NEW O, NEW E, NEW H \in Seq(Transitions), NEW L \in Seq(Entries), NEW v, NEW pen \in Seq(Observed),
           NEW que, Kinded(que), Kept(h, O, E, H, L, v, pen, que),
           NEW u \in Uids, u # Stray, KindOf(u) = "Pod", NEW w, Recorded(H, u) # 0,
           Trails(h, O, H, L, v, pen, 0, que, u, w),
           NEW Q, NEW t, Q["Pod"] = que["Pod"] \/ Q["Pod"] = Append(que["Pod"], t), NEW G
    PROVE  Trails(h, O, G, L, v, pen, 0, Q, u, w)
<1> SUFFICES ASSUME ~v, QueTrails(h, O, L, pen, 0, que, u, w) PROVE QueTrails(h, O, L, pen, 0, Q, u, w)
  BY DEF Trails
<1>1. CASE Q["Pod"] = que["Pod"]
  BY <1>1 DEF QueTrails
<1>2. CASE Q["Pod"] = Append(que["Pod"], t)
  <2> DEFINE s == que["Pod"]
             z == Q["Pod"]
  <2>1. s \in Seq(Transitions) /\ Len(s) \in Nat
    BY DEF Kinded, Kinds
  <2>2. DOMAIN s = 1..Len(s) /\ DOMAIN z = 1..(Len(s) + 1) /\ \A n \in 1..Len(s) : z[n] = s[n]
    <3> HIDE DEF s
    <3>1. z = Append(s, t)
      BY <1>2 DEF s
    <3> HIDE DEF z
    <3> QED BY <2>1, <3>1
  <2> SUFFICES ASSUME h = -1, "Pod" \in O, CleanTo(pen, 0, Len(pen) + 1), NEW i \in DOMAIN z,
                      Named(z[i]), z[i].uid = w, CleanTo(z, 0, i)
               PROVE  Known(L, u) \/ HoldsOf(pen, 0, u, Len(pen) + 1) \/ HoldsOf(z, 0, u, i)
    BY DEF QueTrails
  <2>3. i \in 1..(Len(s) + 1) /\ CleanTo(s, 0, i)
    <3> HIDE DEF s, z
    <3>1. i \in 1..(Len(s) + 1)
      BY <2>2
    <3>2. ASSUME NEW n \in (0 + 1)..(i - 1) PROVE ~s[n].bad
      <4>1. n \in 1..Len(s) /\ z[n] = s[n]
        BY <2>1, <2>2, <3>1
      <4>2. ~z[n].bad
        BY DEF CleanTo
      <4> QED BY <4>1, <4>2
    <3> QED BY <3>1, <3>2 DEF CleanTo
  <2>4. HoldsOf(s, 0, u, i) => HoldsOf(z, 0, u, i)
    <3> HIDE DEF s, z
    <3>1. \A n \in (0 + 1)..(i - 1) : z[n] = s[n]
      BY <2>1, <2>2, <2>3
    <3> QED BY <3>1 DEF HoldsOf
  <2>5. CASE i \in DOMAIN s
    <3>1. Named(s[i]) /\ s[i].uid = w
      BY <2>2, <2>5
    <3> QED BY <2>3, <2>4, <2>5, <3>1 DEF QueTrails
  <2>6. CASE i = Len(s) + 1
    <3>1. PICK pp, qq : AllOK(h, O, E, H, L, v, pen, 0, pp, que, qq)
      BY DEF Kept, Chain
    <3>2. \A r \in Nat : Recorded(L, u) < r /\ r <= Recorded(H, u) =>
               \/ Waits(pen, 0, pp, u, r, Len(pen) + 1)
               \/ Waits(s, 0, qq["Pod"], u, r, Len(s) + 1)
      BY <2>3, <2>6, <3>1 DEF AllOK
    <3>3. Recorded(L, u) \in Nat /\ Recorded(H, u) \in Nat /\ (Recorded(L, u) # 0 => Kindred(L, u) # {})
      BY KindredAre
    <3>4. CASE Recorded(L, u) # 0
      BY <3>3, <3>4, FirstIsThere
    <3>5. CASE Recorded(L, u) = 0
      <4>1. Waits(pen, 0, pp, u, 1, Len(pen) + 1) \/ Waits(s, 0, qq["Pod"], u, 1, Len(s) + 1)
        BY <3>2, <3>3, <3>5
      <4>2. HoldsOf(pen, 0, u, Len(pen) + 1) \/ HoldsOf(s, 0, u, i)
        BY <2>6, <4>1 DEF Waits, HoldsOf
      <4> QED BY <2>4, <4>2
    <3> QED BY <3>4, <3>5
  <2> QED BY <2>2, <2>3, <2>5, <2>6
<1> QED BY <1>1, <1>2

(* What happens adds to the history or not.                                *)
Lengthens(H, G, t) == G = H \/ (t \in Transitions /\ G = Append(H, t))

(* What happened stays, each event in its position.                        *)
LEMMA LengthenedHolds ==
    ASSUME NEW H \in Seq(Transitions), NEW G, NEW t, Lengthens(H, G, t)
    PROVE  /\ G \in Seq(Transitions)
           /\ \A i \in DOMAIN H : i \in DOMAIN G /\ G[i] = H[i] /\ Nth(G, i) = Nth(H, i)
           /\ \A L : Sourced(H, L) => Sourced(G, L)
<1>1. G \in Seq(Transitions) /\ \A i \in DOMAIN H : i \in DOMAIN G /\ G[i] = H[i] /\ Nth(G, i) = Nth(H, i)
  <2>1. CASE G = H
    BY <2>1
  <2>2. CASE t \in Transitions /\ G = Append(H, t)
    BY <2>2, KnownStays
  <2> QED BY <2>1, <2>2 DEF Lengthens
<1>2. ASSUME NEW L, Sourced(H, L) PROVE Sourced(G, L)
  <2> SUFFICES ASSUME NEW i \in DOMAIN L, L[i].type # "Submitted"
               PROVE  \E j \in DOMAIN G : /\ G[j].uid = L[i].uid /\ G[j].row = L[i].job
                                          /\ G[j].type = L[i].type /\ G[j].reason = L[i].reason
    BY DEF Sourced
  <2>1. PICK j \in DOMAIN H : /\ H[j].uid = L[i].uid /\ H[j].row = L[i].job
                              /\ H[j].type = L[i].type /\ H[j].reason = L[i].reason
    BY <1>2 DEF Sourced
  <2>2. j \in DOMAIN G /\ G[j] = H[j]
    BY <1>1
  <2> QED BY <2>1, <2>2
<1> QED BY <1>1, <1>2

(* A step of the cluster keeps the trail when no Pod but a row's latest has *)
(* its first event.                                                        *)
LEMMA ClusterTrails ==
    ASSUME CInv, CInv', DInv, Observation, NEW t, Lengthens(happened, happened', t),
           NEW s, queue'["Pod"] = queue["Pod"] \/ queue'["Pod"] = Append(queue["Pod"], s),
           \A r \in Rows : \A a, b \in Nat : a < b =>
             \/ Recorded(happened, Pod(r, a)) # 0
             \/ Recorded(happened', Pod(r, a)) = 0
             \/ Recorded(happened', Pod(r, b)) = 0,
           PodEvents(happened'), PodStates(happened', row')
    PROVE  DInv'
<1>1. /\ happened \in Seq(Transitions) /\ ledger \in Seq(Entries) /\ pending \in Seq(Observed) /\ Kinded(queue)
      /\ Kept(horizon, Opens(stream), Told(happened, row), happened, ledger, invalid, pending, queue)
  BY CollectorFacts
<1>2. UNCHANGED <<horizon, stream, ledger, invalid, pending>>
  BY DEF Observation
<1>3. /\ happened' \in Seq(Transitions) /\ Kinded(queue')
      /\ Kept(horizon, Opens(stream), Told(happened, row)', happened', ledger, invalid, pending, queue')
  BY <1>2 DEF CInv
<1>4. Sourced(happened', ledger)
  BY <1>1, LengthenedHolds DEF DInv
<1>5. ASSUME NEW r \in Rows, NEW a \in Nat, NEW b \in Nat, a < b
      PROVE  Trails(horizon, Opens(stream), happened', ledger, invalid, pending, 0, queue', Pod(r, a), Pod(r, b))
  <2>1. PICK u, w : u = Pod(r, a) /\ w = Pod(r, b)
    OBVIOUS
  <2>2. u \in Uids /\ w \in Uids /\ u # Stray /\ w # Stray /\ KindOf(u) = "Pod"
    BY <2>1, UidsApart
  <2>3. Trails(horizon, Opens(stream), happened, ledger, invalid, pending, 0, queue, u, w)
    BY <1>5, <2>1 DEF DInv
  <2>4. CASE Recorded(happened, u) # 0
    <3>1. Trails(horizon, Opens(stream), happened', ledger, invalid, pending, 0, queue', u, w)
      BY ZenonT(60), <1>1, <2>2, <2>3, <2>4, TrailSends
    <3> QED BY <2>1, <3>1
  <2>5. CASE Recorded(happened', u) = 0
    BY <2>1, <2>5 DEF Trails
  <2>6. CASE Recorded(happened', w) = 0
    <3>1. Trails(horizon, Opens(stream), happened', ledger, invalid, pending, 0, queue', u, w)
      BY ZenonT(60), <1>1, <1>3, <1>4, <2>2, <2>6, NothingTrails
    <3> QED BY <2>1, <3>1
  <2> QED BY <1>5, <2>1, <2>4, <2>5, <2>6
<1> QED BY <1>2, <1>4, <1>5 DEF DInv

(* One more event of another kind changes nothing of the Pods' events,     *)
LEMMA PodEventsGrow ==
    ASSUME NEW H \in Seq(Transitions), PodEvents(H), NEW t \in Transitions, NEW G, G = Append(H, t),
           KindOf(t.uid) = "Pod" \/ t.type \in {"PodReady", "AttemptStopped"} => PodEvent(G, Len(H) + 1)
    PROVE  PodEvents(G)
<1>1. \A i \in DOMAIN H : i \in DOMAIN G /\ G[i] = H[i] /\ Nth(G, i) = Nth(H, i)
  BY LengthenedHolds DEF Lengthens
<1>2. \A i \in DOMAIN G : i \in DOMAIN H \/ (i = Len(H) + 1 /\ G[i] = t)
  OBVIOUS
<1>3. ASSUME NEW i \in DOMAIN H, PodEvent(H, i) PROVE PodEvent(G, i)
  BY <1>1, <1>3 DEF PodEvent
<1> QED BY <1>1, <1>2, <1>3 DEF PodEvents

(* nor of how many there are.                                              *)
LEMMA OthersRecorded ==
    ASSUME NEW H \in Seq(Transitions), NEW t \in Transitions
    PROVE  /\ \A u : Recorded(H, u) \in Nat
           /\ \A u : u # t.uid => Recorded(Append(H, t), u) = Recorded(H, u)
           /\ Recorded(Append(H, t), t.uid) = Recorded(H, t.uid) + 1
           /\ Nth(Append(H, t), Len(H) + 1) = Recorded(H, t.uid) + 1
           /\ Append(H, t)[Len(H) + 1] = t
<1>1. Append(H, t)[Len(H) + 1] = t
  OBVIOUS
<1>2. \A u : Recorded(H, u) \in Nat
  BY KindredAre
<1>3. \A u : Recorded(Append(H, t), u) = Recorded(H, u) + (IF t.uid = u THEN 1 ELSE 0)
  BY RecordedAppend
<1> QED BY <1>1, <1>2, <1>3, NthAppend

(* A step in which no Pod has an event keeps the trail.                    *)
Quiet(t) == KindOf(t.uid) # "Pod" /\ t.type \notin {"PodReady", "AttemptStopped"}

(* The Pods of the rows are as they were, or less.                         *)
PodsStay(rw, ro) == \A r \in Rows :
    /\ ro[r].pod # "none" => ro[r].n >= 1
    /\ ro[r].pod = "ready" => rw[r].pod = "ready" /\ ro[r].n = rw[r].n

(* Such a step keeps it, as long as no other Pod of a row is Ready.        *)
LEMMA QuietKeeps ==
    ASSUME CInv, CInv', DInv, Observation, NEW t,
           happened' = happened \/ (t \in Transitions /\ happened' = Append(happened, t) /\ Quiet(t)),
           NEW s, queue'["Pod"] = queue["Pod"] \/ queue'["Pod"] = Append(queue["Pod"], s),
           PodsStay(row, row')
    PROVE  DInv'
<1>1. happened \in Seq(Transitions) /\ row' \in [Rows -> RowStates]
  BY DEF CInv
<1>2. ASSUME NEW r \in Rows, NEW m \in Nat PROVE Recorded(happened', Pod(r, m)) = Recorded(happened, Pod(r, m))
  <2>1. CASE happened' = happened
    BY <2>1
  <2>2. CASE t \in Transitions /\ happened' = Append(happened, t) /\ Quiet(t)
    <3>1. Pod(r, m) # t.uid
      BY <2>2, UidsApart DEF Quiet
    <3> QED BY <1>1, <2>2, <3>1, OthersRecorded
  <2> QED BY <2>1, <2>2
<1>3. PodEvents(happened')
  <2>1. CASE happened' = happened
    BY <2>1 DEF DInv
  <2>2. CASE t \in Transitions /\ happened' = Append(happened, t) /\ Quiet(t)
    BY <1>1, <2>2, PodEventsGrow DEF DInv, Quiet
  <2> QED BY <2>1, <2>2
<1>4. PodStates(happened', row')
  <2> SUFFICES ASSUME NEW r \in Rows
               PROVE  /\ row'[r].pod # "none" => row'[r].n >= 1
                      /\ row'[r].pod = "ready" => Recorded(happened', Pod(r, row'[r].n)) = 1
    BY DEF PodStates
  <2>1. row'[r].n \in Nat
    BY <1>1 DEF RowStates
  <2>2. ASSUME row'[r].pod = "ready" PROVE Recorded(happened', Pod(r, row'[r].n)) = 1
    <3>1. row[r].pod = "ready" /\ row'[r].n = row[r].n
      BY <2>2 DEF PodsStay
    <3>2. Recorded(happened, Pod(r, row'[r].n)) = 1
      BY <3>1 DEF DInv, PodStates
    <3> QED BY <1>2, <2>1, <3>2
  <2> QED BY <2>2 DEF PodsStay
<1>5. Lengthens(happened, happened', t)
  BY DEF Lengthens
<1>6. \A r \in Rows : \A a, b \in Nat : a < b =>
             \/ Recorded(happened, Pod(r, a)) # 0
             \/ Recorded(happened', Pod(r, a)) = 0
             \/ Recorded(happened', Pod(r, b)) = 0
  BY <1>2
<1> QED BY <1>3, <1>4, <1>5, <1>6, ClusterTrails

(* A Pod's own event: its first when it becomes Ready, its second when it  *)
(* stops.                                                                  *)
LEMMA PodEventKeeps ==
    ASSUME CInv, CInv', DInv, Observation, NEW r \in Rows, NEW n \in Nat, n >= 1, n = row[r].n,
           NEW t \in Transitions, t.uid = Pod(r, n), t.row = r, Emit("Pod", t), t.type # "none",
           \/ t.type = "PodReady" /\ Recorded(happened, t.uid) = 0 /\ row'[r].pod = "ready"
           \/ t.type = "AttemptStopped" /\ Recorded(happened, t.uid) = 1 /\ row'[r].pod # "ready",
           Changes(row, row', r), row'[r].n = n
    PROVE  DInv'
<1>1. happened \in Seq(Transitions) /\ happened' = Append(happened, t)
  BY DEF CInv, Emit
<1>2. /\ \A u : u # t.uid => Recorded(happened', u) = Recorded(happened, u)
      /\ Recorded(happened', t.uid) = Recorded(happened, t.uid) + 1
      /\ Nth(happened', Len(happened) + 1) = Recorded(happened, t.uid) + 1
      /\ happened'[Len(happened) + 1] = t
  BY <1>1, OthersRecorded
<1>3. PodEvents(happened')
  <2>1. PodEvent(happened', Len(happened) + 1)
    BY <1>2 DEF PodEvent
  <2> QED BY <1>1, <2>1, PodEventsGrow DEF DInv
<1>4. PodStates(happened', row')
  <2> SUFFICES ASSUME NEW q \in Rows
               PROVE  /\ row'[q].pod # "none" => row'[q].n >= 1
                      /\ row'[q].pod = "ready" => Recorded(happened', Pod(q, row'[q].n)) = 1
    BY DEF PodStates
  <2>1. CASE q = r
    BY <1>2, <2>1
  <2>2. CASE q # r
    <3>1. row'[q] = row[q] /\ row[q].n \in Nat
      BY <2>2 DEF Changes, RowStates
    <3>2. Pod(q, row[q].n) # t.uid
      BY <2>2, <3>1, UidsApart
    <3> QED BY <1>2, <3>1, <3>2 DEF DInv, PodStates
  <2> QED BY <2>1, <2>2
<1>5. ASSUME NEW q \in Rows, NEW a \in Nat, NEW b \in Nat, a < b
      PROVE  \/ Recorded(happened, Pod(q, a)) # 0
             \/ Recorded(happened', Pod(q, a)) = 0
             \/ Recorded(happened', Pod(q, b)) = 0
  <2>1. CASE Pod(q, a) # t.uid
    BY <1>2, <2>1
  <2>2. CASE Pod(q, a) = t.uid
    <3>1. q = r /\ a = n
      BY <2>2, UidsApart
    <3>2. RowOK(happened', r, row'[r])
      BY DEF CInv, RowsOK
    <3>3. Recorded(happened', Pod(q, b)) = 0
      BY <1>5, <3>1, <3>2 DEF RowOK
    <3> QED BY <3>3
  <2> QED BY <2>1, <2>2
<1>6. queue'["Pod"] = Append(queue["Pod"], t)
  BY DEF Emit, Send, CInv, Kinds
<1>7. Lengthens(happened, happened', t)
  BY <1>1 DEF Lengthens
<1> QED BY <1>3, <1>4, <1>5, <1>6, <1>7, ClusterTrails

(* What is sent joins the Pod stream or leaves it as it was.               *)
LEMMA PodsQueue ==
    ASSUME CInv, NEW k, NEW t, Send(k, t)
    PROVE  queue'["Pod"] = queue["Pod"] \/ queue'["Pod"] = Append(queue["Pod"], t)
<1>1. queue \in [Kinds -> Seq(Transitions)] /\ "Pod" \in Kinds
  BY DEF CInv, Kinds
<1> QED BY <1>1 DEF Send

(* The Pod of a row that is not changed stays as it is.                    *)
LEMMA PodsStayBut ==
    ASSUME DInv, NEW r \in Rows, \A q \in Rows \ {r} : row'[q].pod = row[q].pod /\ row'[q].n = row[q].n,
           row'[r].pod # "none" => row'[r].n >= 1,
           row'[r].pod = "ready" => row[r].pod = "ready" /\ row'[r].n = row[r].n
    PROVE  PodsStay(row, row')
BY DEF DInv, PodStates, PodsStay

(* Nor does anything change when no Pod is touched.                        *)
LEMMA PodsAllStay ==
    ASSUME DInv, \A q \in Rows : row'[q].pod = row[q].pod /\ row'[q].n = row[q].n
    PROVE  PodsStay(row, row')
BY DEF DInv, PodStates, PodsStay

(* What a transition names but a Pod's becoming Ready or stopping.         *)
LEMMA QuietTransition ==
    ASSUME NEW k \in {"Job", "Workload"}, NEW r \in Rows, NEW type \in Types \cup {"none"}, NEW reason \in Reasons,
           type \notin {"PodReady", "AttemptStopped"}, NEW t, t = Transition(<<k, r>>, r, type, reason)
    PROVE  t \in Transitions /\ Quiet(t)
<1>1. <<k, r>> \in Uids /\ KindOf(<<k, r>>) = k
  BY DEF Uids, KindOf
<1>2. t \in Transitions /\ t.uid = <<k, r>> /\ t.type = type
  BY <1>1, TransitionIs
<1> QED BY <1>1, <1>2 DEF Quiet

(* The Job and the Workload of a row: its Pod is as it was.                *)
LEMMA ObjectsTrail ==
    ASSUME CInv, CInv', DInv, Observation, NEW k, NEW t, Emit(k, t),
           t.type = "none" \/ (t \in Transitions /\ Quiet(t)),
           PodsStay(row, row')
    PROVE  DInv'
<1>1. happened' = happened \/ (t \in Transitions /\ happened' = Append(happened, t) /\ Quiet(t))
  BY DEF Emit
<1>2. queue'["Pod"] = queue["Pod"] \/ queue'["Pod"] = Append(queue["Pod"], t)
  BY PodsQueue DEF Emit
<1> QED BY <1>1, <1>2, QuietKeeps

(* The Job controller makes the Job,                                       *)
LEMMA CreateJobTrails ==
    ASSUME CInv, CInv', DInv, NEW r \in Rows, CreateJob(r) PROVE DInv'
<1> DEFINE t == Transition(<<"Job", r>>, r, "none", "none")
<1>1. Emit("Job", t) /\ Observation /\ row' = [row EXCEPT ![r].job = "active"]
  BY DEF CreateJob
<1>2. t.type = "none"
  BY DEF Transition
<1> HIDE DEF t
<1>3. \A q \in Rows : row'[q].pod = row[q].pod /\ row'[q].n = row[q].n
  BY <1>1 DEF CInv, RowStates
<1> QED BY <1>1, <1>2, <1>3, PodsAllStay, ObjectsTrail

(* Kueue admits the Workload,                                              *)
LEMMA AdmitTrails ==
    ASSUME CInv, CInv', DInv, NEW r \in Rows, Admit(r) PROVE DInv'
<1> DEFINE t == Transition(<<"Workload", r>>, r, "Admitted", "Admitted")
<1>1. Emit("Workload", t) /\ Observation
      /\ row' = [row EXCEPT ![r].wl = "admitted", ![r].pod = "pending", ![r].n = @ + 1]
  BY DEF Admit
<1>2. t \in Transitions /\ Quiet(t)
  BY QuietTransition DEF Types, Reasons
<1> HIDE DEF t
<1>3. /\ \A q \in Rows \ {r} : row'[q].pod = row[q].pod /\ row'[q].n = row[q].n
      /\ row'[r].pod = "pending" /\ row'[r].n = row[r].n + 1 /\ row[r].n \in Nat
  BY SMTT(30), <1>1 DEF CInv, RowStates
<1>4. PodsStay(row, row')
  BY <1>3, PodsStayBut
<1> QED BY <1>1, <1>2, <1>4, ObjectsTrail

(* the Job controller makes the next Pod,                                  *)
LEMMA ReplacePodTrails ==
    ASSUME CInv, CInv', DInv, NEW r \in Rows, ReplacePod(r) PROVE DInv'
<1>1. Observation /\ happened' = happened /\ queue' = queue
      /\ row' = [row EXCEPT ![r].pod = "pending", ![r].n = @ + 1]
  BY DEF ReplacePod
<1>3. /\ \A q \in Rows \ {r} : row'[q].pod = row[q].pod /\ row'[q].n = row[q].n
      /\ row'[r].pod = "pending" /\ row'[r].n = row[r].n + 1 /\ row[r].n \in Nat
  BY <1>1 DEF CInv, RowStates
<1>4. PodsStay(row, row')
  BY <1>3, PodsStayBut
<1> QED BY <1>1, <1>4, QuietKeeps

(* the victim's Workload is preempted,                                     *)
LEMMA PreemptTrails ==
    ASSUME CInv, CInv', DInv, Preempt PROVE DInv'
<1> DEFINE t == Transition(<<"Workload", VictimRow>>, VictimRow, "Preempted", "InCohortReclamation")
<1>1. Emit("Workload", t) /\ Observation /\ row' = [row EXCEPT ![VictimRow].wl = "evicted"] /\ VictimRow \in Rows
  BY DEF Preempt
<1>2. t \in Transitions /\ Quiet(t)
  BY <1>1, QuietTransition DEF Types, Reasons
<1> HIDE DEF t
<1>3. \A q \in Rows : row'[q].pod = row[q].pod /\ row'[q].n = row[q].n
  BY <1>1 DEF CInv, RowStates
<1> QED BY <1>1, <1>2, <1>3, PodsAllStay, ObjectsTrail

(* a Pod is deleted,                                                       *)
LEMMA DeletePodTrails ==
    ASSUME CInv, CInv', DInv, NEW r \in Rows, DeletePod(r) PROVE DInv'
<1>1. Observation /\ happened' = happened /\ row' = [row EXCEPT ![r].pod = "gone"] /\ row[r].pod \in {"pending", "ready"}
  BY DEF DeletePod
<1>2. PICK t : Send("Pod", t)
  BY DEF DeletePod
<1>3. queue'["Pod"] = queue["Pod"] \/ queue'["Pod"] = Append(queue["Pod"], t)
  BY <1>2, PodsQueue
<1>4. /\ \A q \in Rows \ {r} : row'[q].pod = row[q].pod /\ row'[q].n = row[q].n
      /\ row'[r].pod = "gone" /\ row'[r].n = row[r].n
  BY <1>1 DEF CInv, RowStates
<1>5. row[r].n >= 1
  BY <1>1 DEF DInv, PodStates
<1>6. PodsStay(row, row')
  BY <1>4, <1>5, PodsStayBut
<1> QED BY <1>1, <1>3, <1>6, QuietKeeps

(* a Job ends,                                                             *)
LEMMA EndJobTrails ==
    ASSUME CInv, CInv', DInv, NEW r \in Rows, EndJob(r) PROVE DInv'
<1> DEFINE t == Transition(<<"Job", r>>, r, "Completed", "Complete")
           s == [Transition(<<"Job", r>>, r, "none", "none") EXCEPT !.bad = TRUE]
<1>1. /\ Emit("Job", t) \/ Emit("Job", s)
      /\ Observation /\ \E how \in {"complete", "failed"} : row' = [row EXCEPT ![r].job = how, ![r].wl = "finished"]
  BY DEF EndJob
<1>2. t \in Transitions /\ Quiet(t)
  BY QuietTransition DEF Types, Reasons
<1>3. s.type = "none"
  BY DEF Transition
<1> HIDE DEF t, s
<1>4. \A q \in Rows : row'[q].pod = row[q].pod /\ row'[q].n = row[q].n
  BY <1>1 DEF CInv, RowStates
<1> QED BY <1>1, <1>2, <1>3, <1>4, PodsAllStay, ObjectsTrail

(* a Workload is evicted for another reason.                               *)
LEMMA EvictOtherwiseTrails ==
    ASSUME CInv, CInv', DInv, NEW r \in Rows, EvictOtherwise(r) PROVE DInv'
<1> DEFINE t == [Transition(<<"Workload", r>>, r, "none", "none") EXCEPT !.bad = TRUE]
<1>1. Emit("Workload", t) /\ Observation /\ row' = [row EXCEPT ![r].wl = "evicted"]
  BY DEF EvictOtherwise
<1>2. t.type = "none"
  BY DEF Transition
<1> HIDE DEF t
<1>3. \A q \in Rows : row'[q].pod = row[q].pod /\ row'[q].n = row[q].n
  BY <1>1 DEF CInv, RowStates
<1> QED BY <1>1, <1>2, <1>3, PodsAllStay, ObjectsTrail

(* What is told again, and somebody else's Pod.                            *)
LEMMA RepeatsTrail ==
    ASSUME CInv, CInv', DInv, StrayAppears \/ RepeatLast PROVE DInv'
<1>1. PICK k, t : Send(k, t)
  BY DEF StrayAppears, RepeatLast
<1>2. Observation /\ happened' = happened /\ row' = row
  BY DEF StrayAppears, RepeatLast, cluster
<1>3. queue'["Pod"] = queue["Pod"] \/ queue'["Pod"] = Append(queue["Pod"], t)
  BY <1>1, PodsQueue
<1>4. PodsStay(row, row')
  BY <1>2, PodsAllStay
<1> QED BY <1>2, <1>3, <1>4, QuietKeeps

(* A pending Pod, of which nothing has happened, becomes Ready.            *)
LEMMA BecomeReadyTrails ==
    ASSUME CInv, CInv', DInv, NEW r \in Rows, BecomeReady(r) PROVE DInv'
<1> DEFINE t == Transition(Pod(r, row[r].n), r, "PodReady", "Ready")
<1>1. /\ row[r].pod = "pending" /\ row[r].n \in Nat /\ row[r].n >= 1
      /\ Recorded(happened, Pod(r, row[r].n)) = 0
  BY RowFields DEF BecomeReady, DInv, PodStates, RowOK
<1>2. t \in Transitions /\ t.uid = Pod(r, row[r].n) /\ t.row = r /\ t.type = "PodReady"
  <2>1. /\ "PodReady" \in Types \cup {"none"} /\ "Ready" \in Reasons /\ r \in Rows \cup {"stray"}
        /\ Pod(r, row[r].n) \in Uids
    BY <1>1, RowFields DEF Types, Reasons
  <2> QED BY <2>1, TransitionIs
<1>3. Emit("Pod", t) /\ Observation
  BY DEF BecomeReady
<1>4. Changes(row, row', r) /\ row'[r] = [row[r] EXCEPT !.pod = "ready"]
  <2>1. [row[r] EXCEPT !.pod = "ready"] \in RowStates
    BY RowFields DEF RowStates
  <2>2. row' = [row EXCEPT ![r] = [row[r] EXCEPT !.pod = "ready"]]
    BY DEF BecomeReady
  <2> QED BY <2>1, <2>2, RowBecomes
<1>5. row'[r].pod = "ready" /\ row'[r].n = row[r].n
  BY <1>4, RowFields DEF RowStates
<1> HIDE DEF t
<1> QED BY <1>1, <1>2, <1>3, <1>4, <1>5, PodEventKeeps

(* A Ready Pod stops: its second event.                                    *)
LEMMA StopPodTrails ==
    ASSUME CInv, CInv', DInv, NEW r \in Rows, NEW phase \in {"Succeeded", "Failed"}, StopPod(r, phase) PROVE DInv'
<1> DEFINE t == Transition(Pod(r, row[r].n), r, "AttemptStopped", phase)
<1>1. /\ row[r].pod = "ready" /\ row[r].n \in Nat /\ row[r].n >= 1
      /\ Recorded(happened, Pod(r, row[r].n)) = 1
  BY RowFields DEF StopPod, DInv, PodStates
<1>2. t \in Transitions /\ t.uid = Pod(r, row[r].n) /\ t.row = r /\ t.type = "AttemptStopped"
  <2>1. /\ "AttemptStopped" \in Types \cup {"none"} /\ phase \in Reasons /\ r \in Rows \cup {"stray"}
        /\ Pod(r, row[r].n) \in Uids
    BY <1>1, RowFields DEF Types, Reasons
  <2> QED BY <2>1, TransitionIs
<1>3. Emit("Pod", t) /\ Observation /\ row' = [row EXCEPT ![r].pod = phase]
  BY DEF StopPod
<1>4. Changes(row, row', r) /\ row'[r] = [row[r] EXCEPT !.pod = phase]
  <2>1. [row[r] EXCEPT !.pod = phase] \in RowStates
    BY RowFields DEF RowStates
  <2>2. row' = [row EXCEPT ![r] = [row[r] EXCEPT !.pod = phase]]
    BY <1>3
  <2> QED BY <2>1, <2>2, RowBecomes
<1>5. row'[r].pod # "ready" /\ row'[r].n = row[r].n
  BY <1>4, RowFields DEF RowStates
<1> HIDE DEF t
<1> QED BY <1>1, <1>2, <1>3, <1>4, <1>5, PodEventKeeps

(* Every step of the cluster keeps the trail.                              *)
LEMMA ClusterStepTrails ==
    ASSUME CInv, CInv', DInv, ClusterStep PROVE DInv'
BY CreateJobTrails, EndJobTrails, AdmitTrails, ReplacePodTrails, BecomeReadyTrails, StopPodTrails, DeletePodTrails,
   EvictOtherwiseTrails, PreemptTrails, RepeatsTrail DEF ClusterStep, ControllerStep

(* What handle takes from the stream trails, pending or not,               *)
LEMMA HandleTrails ==
    ASSUME CInv, NEW k \in Kinds, handle(k),
           NEW t, t = Head(queue[k]),
           NEW p, p = IF t.type # "none" \/ t.bad \/ t.delta = "Delete"
                        THEN Append(pending, Stamped(t, elapsed)) ELSE pending,
           p \in Seq(Observed), NEW u, NEW w, KindOf(w) = "Pod",
           Trails(horizon, Opens(stream), happened, ledger, invalid, pending, 0, queue, u, w)
    PROVE  Trails(horizon, Opens(stream), happened, ledger, invalid, p, 0, queue', u, w)
<1>1. /\ queue[k] # <<>> /\ queue' = [queue EXCEPT ![k] = Tail(@)] /\ k \in Opens(stream)
  BY DEF handle, Opens
<1>2. Leaves(queue, queue', k) /\ Kinded(queue)
  BY <1>1, TailKeepsQueues, CollectorFacts
<1>3. queue[k] \in Seq(Transitions) /\ t = queue[k][1]
  BY <1>1, CollectorFacts
<1>4. /\ horizon \in Int /\ Opens(stream) \in SUBSET Kinds /\ pending \in Seq(Observed)
      /\ elapsed \in Nat /\ Past(horizon, ledger, pending, elapsed)
  BY CollectorFacts
<1>5. Trails(horizon, Opens(stream), happened, ledger, invalid, p, 0, queue, u, w)
  <2>1. CASE t.type # "none" \/ t.bad \/ t.delta = "Delete"
    <3>1. p = Append(pending, Stamped(Head(queue[k]), elapsed))
      BY <2>1
    <3> QED BY ZenonT(60), <1>1, <1>2, <1>4, <3>1, TrailPends
  <2>2. CASE ~(t.type # "none" \/ t.bad \/ t.delta = "Delete")
    BY <2>2
  <2> QED BY <2>1, <2>2
<1>6. ASSUME horizon = -1, CleanTo(p, 0, Len(p) + 1)
      PROVE  /\ ~queue[k][1].bad
             /\ Named(queue[k][1]) => HoldsOf(p, 0, queue[k][1].uid, Len(p) + 1)
  <2>1. CASE t.type # "none" \/ t.bad \/ t.delta = "Delete"
    <3> DEFINE e == Stamped(t, elapsed)
    <3>1. p = Append(pending, e)
      BY <2>1
    <3>2. e.uid = t.uid /\ e.type = t.type /\ e.bad = t.bad
      BY DEF Stamped
    <3> HIDE DEF e
    <3>3. Len(p) \in Nat /\ Len(p) \in (0 + 1)..(Len(p) + 1 - 1) /\ p[Len(p)] = e
      BY <1>4, <3>1
    <3>4. ~t.bad
      BY <1>6, <3>2, <3>3 DEF CleanTo
    <3>5. Named(t) => HoldsOf(p, 0, t.uid, Len(p) + 1)
      BY <3>2, <3>3 DEF HoldsOf, Named
    <3> QED BY <1>3, <3>4, <3>5
  <2>2. CASE ~(t.type # "none" \/ t.bad \/ t.delta = "Delete")
    BY <1>3, <2>2 DEF Named
  <2> QED BY <2>1, <2>2
<1> QED BY <1>1, <1>2, <1>5, <1>6, TrailDrops

(* and so does what it attributes.                                         *)
LEMMA HandledTrails ==
    ASSUME CInv, DInv, NEW k \in Kinds, handle(k) PROVE DInv'
<1> DEFINE t == Head(queue[k])
           p == IF t.type # "none" \/ t.bad \/ t.delta = "Delete"
                  THEN Append(pending, Stamped(t, elapsed)) ELSE pending
           objs == cache \cup {t.uid}
           f == flush(p, objs)
<1>1. pending' = f.kept /\ ledger' = f.b.ledger /\ invalid' = f.b.invalid
  BY DEF handle
<1>2. UNCHANGED <<row, happened, stream, horizon>>
  BY DEF handle, cluster
<1>3. /\ p \in Seq(Observed)
      /\ \A i \in DOMAIN p : p[i].uid \in objs
      /\ Kept(horizon, Opens(stream), Told(happened, row), happened, ledger, invalid, p, queue')
  BY HandleTakes
<1>4. ASSUME NEW r \in Rows, NEW a \in Nat, NEW b \in Nat, a < b
      PROVE  Trails(horizon, Opens(stream), happened, ledger, invalid, p, 0, queue', Pod(r, a), Pod(r, b))
  <2>1. Trails(horizon, Opens(stream), happened, ledger, invalid, pending, 0, queue, Pod(r, a), Pod(r, b))
    BY <1>4 DEF DInv
  <2>2. KindOf(Pod(r, b)) = "Pod"
    BY UidsApart
  <2> QED BY <1>3, <2>1, <2>2, HandleTrails
<1> HIDE DEF t, p, objs
<1>5. PodEvents(happened') /\ PodStates(happened', row') /\ Sourced(happened, ledger)
  BY <1>2 DEF DInv
<1>6. CASE ~ResolveTraceJobs(objs)
  <2>1. pending' = p /\ ledger' = ledger /\ invalid' = invalid
    BY <1>1, <1>6 DEF flush
  <2> QED BY <1>2, <1>4, <1>5, <2>1 DEF DInv
<1>7. CASE ResolveTraceJobs(objs)
  <2> DEFINE d == [ledger |-> ledger, invalid |-> invalid]
             c == Built(d, p)[Len(p)]
  <2>1. pending' = <<>> /\ ledger' = c.ledger /\ invalid' = c.invalid
    BY <1>1, <1>7 DEF flush
  <2>2. Flushes(ledger, invalid, p, c)
    BY DEF Flushes
  <2> HIDE DEF d, c
  <2>3. NoStray(p)
    BY <1>3, <1>7, ResolvedIsOurs DEF NoStray
  <2>4. Happened(happened, p) /\ AtOK(ledger, p, 0)
    BY <1>3 DEF Kept, Chain, RankOK, Happened
  <2>5. /\ horizon \in Int /\ ledger \in Seq(Entries) /\ invalid \in BOOLEAN
    BY CollectorFacts
  <2>6. ASSUME NEW r \in Rows, NEW a \in Nat, NEW b \in Nat, a < b
        PROVE  /\ Sourced(happened, c.ledger)
               /\ Trails(horizon, Opens(stream), happened, c.ledger, c.invalid, <<>>, 0, queue', Pod(r, a), Pod(r, b))
    <3>1. PICK u, w : u = Pod(r, a) /\ w = Pod(r, b)
      OBVIOUS
    <3>2. u \in Uids /\ w \in Uids /\ w # Stray
      BY <3>1, UidsApart
    <3>3. Trails(horizon, Opens(stream), happened, ledger, invalid, p, 0, queue', u, w)
      BY <1>4, <2>6, <3>1
    <3>4. Sourced(happened, c.ledger) /\ Trails(horizon, Opens(stream), happened, c.ledger, c.invalid, p, Len(p), queue', u, w)
      BY ZenonT(60), <1>3, <1>5, <2>2, <2>3, <2>4, <2>5, <3>2, <3>3, TrailBuilt
    <3>5. Trails(horizon, Opens(stream), happened, c.ledger, c.invalid, <<>>, 0, queue', u, w)
      BY Zenon, <1>3, <3>4, TrailFlushed
    <3> QED BY <3>1, <3>4, <3>5
  <2>7. Sourced(happened, c.ledger)
    <3>1. 1 \in DOMAIN Schedule
      BY ScheduleAssumption
    <3>2. Schedule[1] \in Rows
      BY <3>1 DEF Rows, Range
    <3>3. 0 \in Nat /\ 1 \in Nat /\ 0 < 1
      OBVIOUS
    <3> QED BY <2>6, <3>2, <3>3
  <2> QED BY <1>2, <1>5, <2>1, <2>6, <2>7 DEF DInv
<1> QED BY <1>6, <1>7

(* What forward drops, it drops past the deadline.                         *)
LEMMA ForwardDropsTrails ==
    ASSUME CInv, DInv, NEW k \in Kinds, forwardDrops(k) PROVE DInv'
<1>1. /\ queue[k] # <<>> /\ horizon # -1 /\ queue' = [queue EXCEPT ![k] = Tail(@)]
      /\ UNCHANGED <<row, happened, stream, pending, ledger, invalid, horizon>>
  BY DEF forwardDrops, cluster, builder
<1>2. Leaves(queue, queue', k) /\ Kinded(queue) /\ pending \in Seq(Observed)
  BY <1>1, TailKeepsQueues, CollectorFacts
<1>3. ASSUME NEW r \in Rows, NEW a \in Nat, NEW b \in Nat, a < b
      PROVE  Trails(horizon, Opens(stream), happened, ledger, invalid, pending, 0, queue', Pod(r, a), Pod(r, b))
  <2>1. Trails(horizon, Opens(stream), happened, ledger, invalid, pending, 0, queue, Pod(r, a), Pod(r, b))
    BY <1>3 DEF DInv
  <2> QED BY <1>1, <1>2, <2>1, TrailDrops
<1> QED BY <1>1, <1>3 DEF DInv

(* A stream ends, the ledger is given up or the deadline passes.           *)
LEMMA LessTrails ==
    ASSUME DInv, Lessens PROVE DInv'
<1>1. UNCHANGED <<row, happened, queue, pending, ledger>>
  BY DEF Lessens
<1>2. ASSUME NEW r \in Rows, NEW a \in Nat, NEW b \in Nat, a < b
      PROVE  Trails(horizon', Opens(stream'), happened, ledger, invalid', pending, 0, queue, Pod(r, a), Pod(r, b))
  <2>1. Trails(horizon, Opens(stream), happened, ledger, invalid, pending, 0, queue, Pod(r, a), Pod(r, b))
    BY <1>2 DEF DInv
  <2>2. Opens(stream') \subseteq Opens(stream) /\ (invalid => invalid')
        /\ (horizon' = horizon \/ (horizon = -1 /\ horizon' # -1))
    BY DEF Lessens
  <2> QED BY <2>1, <2>2, TrailWeakens
<1> QED BY <1>1, <1>2 DEF DInv

(* A row's submission is recorded.                                         *)
LEMMA SubmitObservedTrails ==
    ASSUME CInv, CInv', DInv, submitObserved PROVE DInv'
<1>1. UNCHANGED <<row, happened, queue, stream, pending, invalid, horizon>>
  BY DEF submitObserved, cluster
<1>2. ledger \in Seq(Entries) /\ ledger' \in Seq(Entries)
  BY DEF CInv
<1>3. CASE ledger' = ledger
  BY <1>1, <1>3 DEF DInv
<1>4. ASSUME NEW e, ledger' = Append(ledger, e), e.type = "Submitted" PROVE DInv'
  <2>1. e = ledger'[Len(ledger) + 1] /\ Len(ledger) + 1 \in DOMAIN ledger' /\ e \in Entries
    BY <1>2, <1>4
  <2>2. e.uid \notin Uids
    BY <1>4, <2>1, EntriesAre
  <2>3. /\ \A j \in DOMAIN ledger : j \in DOMAIN ledger' /\ ledger'[j] = ledger[j] /\ Nth(ledger', j) = Nth(ledger, j)
        /\ \A i \in DOMAIN ledger' : i \in DOMAIN ledger \/ ledger'[i] = e
    <3>1. \A j \in DOMAIN ledger : j \in DOMAIN ledger' /\ ledger'[j] = ledger[j] /\ Nth(ledger', j) = Nth(ledger, j)
      BY <1>2, <1>4, <2>1, KnownStays
    <3>2. \A i \in DOMAIN ledger' : i \in DOMAIN ledger \/ ledger'[i] = e
      BY <1>2, <1>4
    <3> QED BY <3>1, <3>2
  <2>4. Sourced(happened, ledger')
    BY <1>4, <2>3 DEF DInv, Sourced
  <2>5. \A u : Known(ledger, u) => Known(ledger', u)
    BY <2>3 DEF Known
  <2>6. ASSUME NEW u, NEW w \in Uids,
               Trails(horizon, Opens(stream), happened, ledger, invalid, pending, 0, queue, u, w)
        PROVE  Trails(horizon, Opens(stream), happened, ledger', invalid, pending, 0, queue, u, w)
    <3>1. LedgerTrails(horizon, ledger, u, w) => LedgerTrails(horizon, ledger', u, w)
      BY <2>2, <2>3 DEF LedgerTrails
    <3>2. PenTrails(horizon, ledger, pending, 0, u, w) => PenTrails(horizon, ledger', pending, 0, u, w)
      BY <2>5 DEF PenTrails
    <3>3. QueTrails(horizon, Opens(stream), ledger, pending, 0, queue, u, w)
            => QueTrails(horizon, Opens(stream), ledger', pending, 0, queue, u, w)
      BY <2>5 DEF QueTrails
    <3> QED BY <2>6, <3>1, <3>2, <3>3 DEF Trails
  <2>7. ASSUME NEW r \in Rows, NEW a \in Nat, NEW b \in Nat, a < b
        PROVE  Trails(horizon, Opens(stream), happened, ledger', invalid, pending, 0, queue, Pod(r, a), Pod(r, b))
    <3>1. Pod(r, b) \in Uids
      BY UidsApart
    <3> QED BY <2>6, <2>7, <3>1 DEF DInv
  <2> QED BY <1>1, <2>4, <2>7 DEF DInv
<1>5. ledger' = ledger \/ \E e : ledger' = Append(ledger, e) /\ e.type = "Submitted"
  BY DEF submitObserved
<1> QED BY <1>3, <1>4, <1>5

(* Nothing has happened, and nothing trails.                               *)
LEMMA NothingYet ==
    ASSUME NEW H, H = <<>>, NEW L, L = <<>>, NEW rw, rw = [r \in Rows |-> NoObjects]
    PROVE  /\ Sourced(H, L) /\ PodEvents(H) /\ PodStates(H, rw)
           /\ \A h, O, v, pen, que, u, w : Trails(h, O, H, L, v, pen, 0, que, u, w)
<1>1. DOMAIN H = {} /\ DOMAIN L = {} /\ H \in Seq(Transitions)
  OBVIOUS
<1>2. \A u : Recorded(H, u) = 0
  <2>1. \A u : Kindred(H, u) = {}
    BY <1>1 DEF Kindred
  <2> QED BY <2>1, FS_EmptySet DEF Recorded
<1>3. \A r \in Rows : rw[r].pod = "none"
  BY DEF NoObjects
<1>4. Sourced(H, L) /\ PodEvents(H)
  BY <1>1 DEF Sourced, PodEvents
<1>5. PodStates(H, rw)
  BY <1>3 DEF PodStates
<1> QED BY <1>2, <1>4, <1>5 DEF Trails

(* A run that forgets what it observed has nothing to trail.               *)
LEMMA ForgetTrails ==
    ASSUME Forget PROVE DInv'
<1>1. row' = [r \in Rows |-> NoObjects] /\ happened' = <<>> /\ ledger' = <<>>
  BY DEF Forget
<1> QED BY <1>1, NothingYet DEF DInv

(* Every step of the observation keeps the trail,                          *)
LEMMA ObservationTrails ==
    ASSUME CInv, CInv', DInv, Observing PROVE DInv'
<1>1. ASSUME NEW k \in Kinds, handle(k) \/ forwardDrops(k) \/ Stall(k) \/ BreakStream(k) \/ endStream(k) \/ wait
      PROVE  DInv'
  BY <1>1, HandledTrails, ForwardDropsTrails, StreamStepLessens, LessTrails
<1>2. CASE waitBarrier \/ PassDeadline \/ BarrierTimesOut
  BY <1>2, ScheduleStepLessens, LessTrails
<1>3. CASE SubmitRow
  <2>1. UNCHANGED <<row, happened, queue, stream, pending, ledger, invalid, horizon>>
    BY <1>3 DEF SubmitRow, cluster, builder
  <2> QED BY <2>1 DEF DInv
<1>4. "Job" \in Kinds
  BY DEF Kinds
<1> QED BY <1>1, <1>2, <1>3, <1>4, ClusterStepTrails, SubmitObservedTrails DEF Observing

(* and so does every step of the run.                                      *)
LEMMA DInvHolds == Spec => []DInv
<1>1. Init => DInv
  <2> SUFFICES ASSUME Init PROVE DInv
    OBVIOUS
  <2>1. row = [r \in Rows |-> NoObjects] /\ happened = <<>> /\ ledger = <<>>
    BY DEF Init, CInit
  <2> QED BY <2>1, NothingYet DEF DInv
<1>2. CInv /\ CInv' /\ DInv /\ [Next]_vars => DInv'
  <2> SUFFICES ASSUME CInv, CInv', DInv, [Next]_vars PROVE DInv'
    OBVIOUS
  <2>1. CASE UNCHANGED <<row, happened, queue, stream, pending, ledger, invalid, horizon>>
    BY <2>1 DEF DInv
  <2>2. CASE UNCHANGED vars \/ canaryRuns \/ acquireWorker \/ startOwnershipSentinel \/ qualifyWorker \/ setUp
             \/ startCollector \/ tearingDown \/ tearDownBeforeRelease \/ auditedRelease \/ finish \/ report
    <3>1. UNCHANGED cvars
      BY <2>2 DEF vars, canaryRuns, acquireWorker, startOwnershipSentinel, qualifyWorker, setUp,
                  startCollector, tearingDown, tearDownBeforeRelease, auditedRelease, finish, report
    <3> QED BY <2>1, <3>1 DEF cvars
  <2>3. CASE connect \/ Diverges
    BY <2>1, <2>3 DEF connect, Diverges, cluster, builder
  <2>4. CASE observing
    BY <2>4, ObservationTrails DEF observing
  <2>5. CASE Interrupted \/ SubmitFails \/ judge
    BY <2>5, ForgetTrails DEF Interrupted, SubmitFails, judge
  <2> QED BY <2>2, <2>3, <2>4, <2>5 DEF Next
<1> QED BY <1>1, <1>2, CInvHolds, PTL DEF Spec

(* An attempt starts with one of its Readys, no later than any other, and  *)
(* stops for the reason of one of its stops.                               *)
LEMMA AttemptIs ==
    ASSUME NEW S, NEW ev \in Seq(S), Instantaneous(ev), NEW job, NEW h,
           NEW i \in Of(ev, job, "PodReady", h)
    PROVE  LET a == Attempt(ev, job, ev[i].uid, h)
           IN /\ a.uid = ev[i].uid /\ a \in Attempts(ev, job, h)
              /\ a.readyNs \in Nat /\ a.readyNs <= ev[i].at
              /\ \E k \in Of(ev, job, "PodReady", h) : ev[k].uid = a.uid /\ ev[k].at = a.readyNs
              /\ a.stopped => \E k \in Of(ev, job, "AttemptStopped", h) :
                                 ev[k].uid = a.uid /\ ev[k].reason = a.reason
<1> DEFINE u == ev[i].uid
           ready == {k \in Of(ev, job, "PodReady", h) : ev[k].uid = u}
           stops == {k \in Of(ev, job, "AttemptStopped", h) : ev[k].uid = u /\ ReadyBefore(ev, k, h)}
           R == {ev[k].at : k \in ready}
           H == {ev[k].at : k \in stops}
           first == {k \in stops : ev[k].at = Min(H)}
           a == Attempt(ev, job, u, h)
<1>1. /\ a.uid = u /\ a.readyNs = Min(R) /\ a.stopped = (stops # {})
      /\ stops # {} => a.reason = ev[Min(first)].reason
  BY Zenon DEF Attempt
<1>2. a \in Attempts(ev, job, h)
  BY Zenon DEF Attempts
<1>3. ready \in SUBSET (1..Len(ev)) /\ stops \in SUBSET (1..Len(ev)) /\ first \in SUBSET (1..Len(ev))
  BY DEF Of
<1>4. \A J \in SUBSET (1..Len(ev)) : {ev[k].at : k \in J} \in SUBSET Nat
  BY DEF Instantaneous
<1>5. R \in SUBSET Nat /\ H \in SUBSET Nat /\ u = ev[i].uid /\ i \in ready
  BY <1>3, <1>4
<1>6. Min(R) \in R /\ Min(R) <= ev[i].at
  <2>1. ev[i].at \in R /\ R # {}
    BY <1>5
  <2> HIDE DEF R
  <2> QED BY <1>5, <2>1, MinIsLeast
<1>7. PICK k \in ready : ev[k].at = Min(R)
  BY <1>6
<1>8. ASSUME stops # {} PROVE Min(first) \in first
  <2>1. H # {}
    BY <1>8
  <2>2. Min(H) \in H
    <3> HIDE DEF H
    <3> QED BY <1>5, <2>1, MinIsLeast
  <2>3. first # {}
    BY <2>2
  <2>4. first \in SUBSET Nat
    BY <1>3
  <2> HIDE DEF first
  <2> QED BY <2>3, <2>4, MinIsLeast
<1>9. Min(R) \in Nat
  BY <1>5, <1>6
<1>10. ASSUME a.stopped
       PROVE  \E m \in Of(ev, job, "AttemptStopped", h) : ev[m].uid = a.uid /\ ev[m].reason = a.reason
  <2>1. PICK m : m = Min(first)
    OBVIOUS
  <2>2. stops # {}
    BY <1>1, <1>10
  <2>3. m \in first
    BY <1>8, <2>1, <2>2
  <2>4. m \in Of(ev, job, "AttemptStopped", h) /\ ev[m].uid = u
    BY <2>3
  <2>5. a.reason = ev[m].reason
    BY Zenon, <1>1, <2>1, <2>2
  <2> QED BY Zenon, <1>1, <2>4, <2>5
<1>11. k \in Of(ev, job, "PodReady", h) /\ ev[k].uid = u
  BY <1>7
<1> HIDE DEF R, H, stops, ready, first
<1>12. a.readyNs \in Nat /\ a.readyNs <= ev[i].at /\ ev[k].uid = a.uid /\ ev[k].at = a.readyNs
  BY <1>1, <1>6, <1>7, <1>9, <1>11
<1> HIDE DEF a
<1>13. \E m \in Of(ev, job, "PodReady", h) : ev[m].uid = a.uid /\ ev[m].at = a.readyNs
  BY <1>11, <1>12
<1>14. /\ a.uid = u /\ a \in Attempts(ev, job, h)
       /\ a.readyNs \in Nat /\ a.readyNs <= ev[i].at
  BY <1>1, <1>2, <1>12
<1> QED BY Zenon, <1>10, <1>13, <1>14 DEF a

(* The first attempt in start order is one no other starts before.         *)
LEMMA FirstInOrder ==
    ASSUME NEW S, NEW ev \in Seq(S), Instantaneous(ev), NEW job, NEW h,
           1 \in DOMAIN attemptsInStartOrder(ev, job, h)
    PROVE  LET a == attemptsInStartOrder(ev, job, h)[1]
           IN a \in Attempts(ev, job, h) /\ \A b \in Attempts(ev, job, h) : ~StartsBefore(b, a)
<1> DEFINE A == Attempts(ev, job, h)
           all == attemptsInStartOrder(ev, job, h)
<1>1. /\ IsFiniteSet(A)
      /\ \A a \in A : a.readyNs \in Nat /\ a.seq \in Nat
      /\ \A a, b \in A : a.seq = b.seq => a = b
  BY AttemptsAreApart
<1>2. all = [n \in 1..Cardinality(A) |->
              CHOOSE a \in A : Cardinality({b \in A : StartsBefore(b, a)}) = n - 1]
  BY DEF attemptsInStartOrder
<1> HIDE DEF A
<1> DEFINE Behind(n, x) == Cardinality({b \in A : StartsBefore(b, x)}) = n - 1
<1>4. 1 \in 1..Cardinality(A) /\ all[1] = CHOOSE a \in A : Behind(1, a)
  <2>1. all = [n \in 1..Cardinality(A) |-> CHOOSE a \in A : Behind(n, a)]
    BY <1>2
  <2>2. 1 \in DOMAIN all
    OBVIOUS
  <2> HIDE DEF all, Behind
  <2>3. DOMAIN all = 1..Cardinality(A)
    BY Zenon, <2>1
  <2> QED BY Zenon, <2>1, <2>2, <2>3
<1>5. \E a \in A : Behind(1, a)
  BY <1>1, <1>4, StartOrderCounts
<1>6. all[1] \in A /\ Cardinality({b \in A : StartsBefore(b, all[1])}) = 0
  <2> HIDE DEF all, Behind
  <2>1. all[1] \in A /\ Behind(1, all[1])
    BY Zenon, <1>4, <1>5
  <2>2. PICK N : N = Cardinality({b \in A : StartsBefore(b, all[1])})
    OBVIOUS
  <2>3. N = 1 - 1
    BY Zenon, <2>1, <2>2 DEF Behind
  <2>4. N = 0
    BY <2>3
  <2> QED BY Zenon, <2>1, <2>2, <2>4
<1>7. {b \in A : StartsBefore(b, all[1])} = {}
  <2> DEFINE B == {b \in A : StartsBefore(b, all[1])}
  <2>1. B \in SUBSET A
    OBVIOUS
  <2>2. IsFiniteSet(B)
    <3> HIDE DEF B
    <3> QED BY <1>1, <2>1, FS_Subset
  <2>3. Cardinality(B) = 0
    BY <1>6
  <2> HIDE DEF B
  <2>4. B = {}
    BY <2>2, <2>3, FS_EmptySet
  <2> QED BY <2>4 DEF B
<1> QED BY <1>6, <1>7 DEF A

(* What is read of a Pod of a row happened to that Pod.                    *)
LEMMA ReadyIsOfRow ==
    ASSUME CInv, DInv, NEW r \in Rows, NEW i \in Of(ledger, r, "PodReady", horizon)
    PROVE  /\ i \in DOMAIN ledger /\ ledger[i].at \in Nat /\ InWindow(horizon, ledger[i])
           /\ \E m \in Nat : m >= 1 /\ ledger[i].uid = Pod(r, m)
<1>1. happened \in Seq(Transitions) /\ ledger \in Seq(Entries)
      /\ Kept(horizon, Opens(stream), Told(happened, row), happened, ledger, invalid, pending, queue)
  BY CollectorFacts
<1>2. LedgerOK(horizon, happened, ledger)
  BY <1>1 DEF Kept, Chain
<1>3. i \in DOMAIN ledger /\ ledger[i].job = r /\ ledger[i].type = "PodReady" /\ ledger[i].at <= horizon
  BY DEF Of, Counts
<1>4. InWindow(horizon, ledger[i]) /\ ledger[i].at \in Nat
  BY <1>1, <1>3, EntriesAre DEF InWindow
<1>5. PICK j \in DOMAIN happened : /\ happened[j].uid = ledger[i].uid /\ happened[j].row = r
                                   /\ happened[j].type = "PodReady"
  BY <1>2, <1>3, <1>4 DEF LedgerOK
<1>6. PodEvent(happened, j)
  BY <1>5 DEF DInv, PodEvents
<1> QED BY <1>3, <1>4, <1>5, <1>6 DEF PodEvent

(* The row's first attempt is that of its first Pod, once that was Ready.  *)
LEMMA FirstAttemptIs ==
    ASSUME CInv, DInv, ~invalid, NEW r \in Rows, Recorded(happened, Pod(r, 1)) # 0,
           1 \in DOMAIN attemptsInStartOrder(ledger, r, horizon)
    PROVE  \E i \in Of(ledger, r, "PodReady", horizon) :
              /\ ledger[i].uid = Pod(r, 1)
              /\ attemptsInStartOrder(ledger, r, horizon)[1] = Attempt(ledger, r, Pod(r, 1), horizon)
<1> DEFINE I == Of(ledger, r, "PodReady", horizon)
           a == attemptsInStartOrder(ledger, r, horizon)[1]
           A == Attempts(ledger, r, horizon)
<1>1. happened \in Seq(Transitions) /\ ledger \in Seq(Entries) /\ horizon \in Int
      /\ Kept(horizon, Opens(stream), Told(happened, row), happened, ledger, invalid, pending, queue)
  BY CollectorFacts
<1>2. Instantaneous(ledger)
  BY LedgerInstants
<1>3. a \in A /\ \A b \in A : ~StartsBefore(b, a)
  BY <1>1, <1>2, FirstInOrder
<1>4. PICK i \in I : a = Attempt(ledger, r, ledger[i].uid, horizon)
  <2> HIDE DEF a
  <2> QED BY <1>3 DEF Attempts
<1>5. PICK m \in Nat : m >= 1 /\ ledger[i].uid = Pod(r, m)
  BY ReadyIsOfRow
<1>6. ASSUME m # 1 PROVE FALSE
  <2>1. \E k \in I : ledger[k].uid = a.uid /\ ledger[k].at = a.readyNs
    <3> HIDE DEF a
    <3> QED BY <1>1, <1>2, <1>4, AttemptIs
  <2>2. a.uid = Pod(r, m)
    <3> HIDE DEF a
    <3>1. a.uid = ledger[i].uid
      BY <1>1, <1>2, <1>4, AttemptIs
    <3> QED BY <1>5, <3>1
  <2>3. PICK k \in I : ledger[k].uid = Pod(r, m) /\ ledger[k].at = a.readyNs
    BY Zenon, <2>1, <2>2
  <2>4. k \in DOMAIN ledger /\ ledger[k].at \in Nat /\ InWindow(horizon, ledger[k])
    BY ReadyIsOfRow
  <2>5. LedgerTrails(horizon, ledger, Pod(r, 1), Pod(r, m))
    <3>1. 1 < m /\ 1 \in Nat
      BY <1>5, <1>6
    <3> QED BY <3>1 DEF DInv, Trails
  <2>6. PICK j \in DOMAIN ledger : ledger[j].uid = Pod(r, 1) /\ Nth(ledger, j) = 1 /\ ledger[j].at < ledger[k].at
    BY Zenon, <2>3, <2>4, <2>5 DEF LedgerTrails
  <2>7. ledger[j].at \in Nat /\ ledger[j].at <= horizon
    <3>1. ledger[j].at \in Nat
      BY <1>2 DEF Instantaneous
    <3>2. ledger[k].at <= horizon
      BY DEF Of, Counts
    <3> QED BY <1>1, <2>4, <2>6, <3>1, <3>2
  <2>8. ledger[j].type # "Submitted"
    <3>1. Pod(r, 1) \in Uids
      BY UidsApart
    <3>2. ledger[j] \in Entries
      BY <1>1
    <3> QED BY <2>6, <3>1, <3>2, EntriesAre
  <2>9. PICK n \in DOMAIN happened : /\ happened[n].uid = Pod(r, 1) /\ happened[n].row = ledger[j].job
                                     /\ happened[n].type = ledger[j].type /\ Nth(happened, n) = 1
    <3>1. LedgerOK(horizon, happened, ledger)
      BY <1>1 DEF Kept, Chain
    <3> QED BY <2>6, <2>7, <2>8, <3>1 DEF LedgerOK, InWindow
  <2>10. happened[n].type = "PodReady" /\ happened[n].row = r
    <3>1. KindOf(Pod(r, 1)) = "Pod"
      BY UidsApart
    <3>2. PodEvent(happened, n)
      BY <2>9, <3>1 DEF DInv, PodEvents
    <3>3. PICK q \in Rows : \E l \in Nat :
             /\ happened[n].uid = Pod(q, l) /\ happened[n].row = q
             /\ (Nth(happened, n) = 1 /\ happened[n].type = "PodReady")
                \/ (Nth(happened, n) = 2 /\ happened[n].type = "AttemptStopped")
      BY <3>2 DEF PodEvent
    <3>4. happened[n].type = "PodReady"
      BY <2>9, <3>3
    <3>5. q = r
      BY <2>9, <3>3, UidsApart
    <3> QED BY <3>3, <3>4, <3>5
  <2>11. j \in I
    BY <2>7, <2>9, <2>10 DEF Of, Counts
  <2>12. PICK b : b = Attempt(ledger, r, ledger[j].uid, horizon)
    OBVIOUS
  <2>13. b \in A /\ b.readyNs \in Nat /\ b.readyNs <= ledger[j].at
    BY <1>1, <1>2, <2>11, <2>12, AttemptIs
  <2>14. b.readyNs < a.readyNs
    BY <2>3, <2>4, <2>6, <2>7, <2>13
  <2> QED BY Zenon, <1>3, <2>13, <2>14 DEF StartsBefore
<1>7. m = 1
  BY <1>6
<1> QED BY Zenon, <1>4, <1>5, <1>7

(* How a Pod of a row ended.                                               *)
Ends(H, u) == {H[i].reason : i \in {j \in DOMAIN H : H[j].uid = u /\ H[j].type = "AttemptStopped"}}

(* A stop that is recorded is the way its Pod ended.                       *)
LEMMA EndIs ==
    ASSUME CInv, DInv, NEW i \in DOMAIN ledger, ledger[i].type = "AttemptStopped"
    PROVE  Ends(happened, ledger[i].uid) = {ledger[i].reason}
<1>1. happened \in Seq(Transitions)
  BY CollectorFacts
<1>2. PICK j \in DOMAIN happened : /\ happened[j].uid = ledger[i].uid
                                   /\ happened[j].type = "AttemptStopped" /\ happened[j].reason = ledger[i].reason
  BY DEF DInv, Sourced
<1>3. ASSUME NEW k \in DOMAIN happened, happened[k].uid = ledger[i].uid, happened[k].type = "AttemptStopped"
      PROVE  k = j
  <2>1. PodEvent(happened, j) /\ PodEvent(happened, k)
    BY <1>2, <1>3 DEF DInv, PodEvents
  <2>2. Nth(happened, j) = 2 /\ Nth(happened, k) = 2
    BY <1>2, <1>3, <2>1 DEF PodEvent
  <2> QED BY <1>1, <1>2, <1>3, <2>2, NthUnique
<1> QED BY <1>2, <1>3 DEF Ends

(* A prefix of at most one element has at most the first.                  *)
LEMMA BriefPrefix ==
    ASSUME NEW X, NEW s \in Seq(X), NEW n \in {0, 1}, n <= Len(s),
           NEW t, t = SubSeq(s, 1, n), NEW i \in DOMAIN t
    PROVE  i = 1 /\ 1 \in DOMAIN s /\ t[i] = s[1]
OBVIOUS

(* The preemption of a row is charged to its first Pod, for the way that   *)
(* Pod ended.                                                              *)
LEMMA ChargedToFirst ==
    ASSUME CInv, DInv, ~invalid, NEW r \in Rows, Recorded(happened, Pod(r, 1)) # 0,
           Cardinality(Of(ledger, r, "Preempted", horizon)) \in {0, 1},
           NEW paired, paired = WorkloadOutcome(ledger, r, horizon).paired,
           Cardinality(Of(ledger, r, "Preempted", horizon)) <= Len(attemptsInStartOrder(ledger, r, horizon)),
           NEW i \in DOMAIN paired
    PROVE  /\ paired[i].uid = Pod(r, 1)
           /\ paired[i].stopped => Ends(happened, Pod(r, 1)) = {paired[i].reason}
<1> DEFINE all == attemptsInStartOrder(ledger, r, horizon)
           n == Cardinality(Of(ledger, r, "Preempted", horizon))
           A == Attempts(ledger, r, horizon)
<1>1. ledger \in Seq(Entries)
  BY CollectorFacts
<1>2. Instantaneous(ledger)
  BY LedgerInstants
<1>3. all \in Seq(A)
  BY <1>1, <1>2, StartOrderIs
<1>4. paired = SubSeq(all, 1, n)
  BY DEF WorkloadOutcome, pairPreemptionsToAttempts
<1>5. i = 1 /\ 1 \in DOMAIN all /\ paired[i] = all[1]
  <2> HIDE DEF all, n, A
  <2>1. n \in {0, 1} /\ n <= Len(all)
    BY DEF all, n
  <2> QED BY <1>3, <1>4, <2>1, BriefPrefix
<1>6. PICK k \in Of(ledger, r, "PodReady", horizon) :
         ledger[k].uid = Pod(r, 1) /\ all[1] = Attempt(ledger, r, Pod(r, 1), horizon)
  BY <1>5, FirstAttemptIs
<1>7. all[1] = Attempt(ledger, r, ledger[k].uid, horizon)
  BY Zenon, <1>6
<1> HIDE DEF all
<1>8. /\ all[1].uid = ledger[k].uid
      /\ all[1].stopped => \E m \in Of(ledger, r, "AttemptStopped", horizon) :
                             ledger[m].uid = all[1].uid /\ ledger[m].reason = all[1].reason
  BY <1>1, <1>2, <1>7, AttemptIs
<1>9. all[1].uid = Pod(r, 1)
  BY Zenon, <1>6, <1>8
<1>10. ASSUME all[1].stopped PROVE Ends(happened, Pod(r, 1)) = {all[1].reason}
  <2>1. PICK m \in Of(ledger, r, "AttemptStopped", horizon) :
           ledger[m].uid = Pod(r, 1) /\ ledger[m].reason = all[1].reason
    BY Zenon, <1>8, <1>9, <1>10
  <2>2. m \in DOMAIN ledger /\ ledger[m].type = "AttemptStopped"
    BY DEF Of
  <2>3. Ends(happened, ledger[m].uid) = {ledger[m].reason}
    BY <2>2, EndIs
  <2> QED BY Zenon, <2>1, <2>3
<1> QED BY Zenon, <1>5, <1>9, <1>10

(* An attempt booked as waste or as cut off failed, and one booked without *)
(* effect succeeded.                                                       *)
LEMMA BooksTellEnds ==
    ASSUME NEW ev, NEW job, NEW a, NEW h,
           NEW book, book = chargeWaste(ev, job, a, h)
    PROVE  /\ book \in {"wasted", "censored"} => a.stopped /\ a.reason = "Failed"
           /\ book = "ineffective" => a.stopped /\ a.reason = "Succeeded"
BY DEF chargeWaste

(* What a run judges, it charges to the attempt that was stopped.          *)
LEMMA ChargesTell ==
    ASSUME CInv, DInv, ~invalid, ~ReconstructRefuses(ledger, Rows, horizon),
           AssertCardinality(arm, Reconstruct(ledger, Rows, horizon)),
           struck = {Pod(VictimRow, 1)},
           \E j \in DOMAIN happened : happened[j].uid = Pod(VictimRow, 1) /\ happened[j].type = "PodReady",
           NEW paired, paired = WorkloadOutcome(ledger, VictimRow, horizon).paired,
           NEW i \in DOMAIN paired,
           NEW book, book = chargeWaste(ledger, VictimRow, paired[i], horizon)
    PROVE  /\ paired[i].uid \in struck
           /\ book \in {"wasted", "censored"} => Ends(happened, Pod(VictimRow, 1)) = {"Failed"}
           /\ book = "ineffective" => Ends(happened, Pod(VictimRow, 1)) = {"Succeeded"}
<1> DEFINE P == Of(ledger, VictimRow, "Preempted", horizon)
           all == attemptsInStartOrder(ledger, VictimRow, horizon)
<1>1. PICK j \in DOMAIN happened : happened[j].uid = Pod(VictimRow, 1) /\ happened[j].type = "PodReady"
  OBVIOUS
<1>2. happened \in Seq(Transitions) /\ ledger \in Seq(Entries)
  BY CollectorFacts
<1>3. VictimRow \in Rows
  <2>1. PodEvent(happened, j)
    BY <1>1 DEF DInv, PodEvents
  <2>2. PICK q \in Rows, l \in Nat : happened[j].uid = Pod(q, l)
    BY <2>1 DEF PodEvent
  <2>3. Pod(VictimRow, 1) = Pod(q, l)
    BY <1>1, <2>2
  <2>4. q = VictimRow
    BY <2>3 DEF Pod
  <2> QED BY <2>4
<1>4. Recorded(happened, Pod(VictimRow, 1)) # 0
  <2>1. j \in Kindred(happened, Pod(VictimRow, 1))
    BY <1>1 DEF Kindred
  <2> QED BY <1>2, <2>1, KindredAre
<1>5. Cardinality(P) \in {0, 1}
  <2>1. WorkloadOutcome(ledger, VictimRow, horizon).preemptions = Cardinality(P)
    BY DEF WorkloadOutcome
  <2>2. WorkloadOutcome(ledger, VictimRow, horizon).preemptions \in {0, 1}
    BY <1>3 DEF AssertCardinality, Reconstruct
  <2> QED BY Zenon, <2>1, <2>2
<1>6. Cardinality(P) <= Len(all)
  BY <1>3, PreemptionsAreFew
<1>7. /\ paired[i].uid = Pod(VictimRow, 1)
      /\ paired[i].stopped => Ends(happened, Pod(VictimRow, 1)) = {paired[i].reason}
  BY <1>3, <1>4, <1>5, <1>6, ChargedToFirst
<1>8. /\ book \in {"wasted", "censored"} => paired[i].stopped /\ paired[i].reason = "Failed"
      /\ book = "ineffective" => paired[i].stopped /\ paired[i].reason = "Succeeded"
  BY Zenon, BooksTellEnds
<1> QED BY <1>7, <1>8

------------------------------------------------------------------------------
(* The run: its invariant.                                                 *)

RunPcs   == {"connect", "acquire", "sentinel", "qualify", "setup", "start", "observe",
             "teardown", "release", "finish", "report", "exited"}
EarlyPcs == {"connect", "acquire", "sentinel", "qualify"}
AheadPcs == EarlyPcs \cup {"setup", "start", "observe"}
EndPcs   == {"finish", "report", "exited"}
SweepSteps == {"idle", "recover", "delete", "observe", "decide", "done"}

Objects == {Nothing, Theirs} \cup [uid : {"ours"}, stamped : BOOLEAN, terminating : BOOLEAN]

Observations == [err : BOOLEAN, found : BOOLEAN, uid : {"none", "ours", "theirs"},
                 wantUID : {"none", "ours"}, foreign : BOOLEAN, terminating : BOOLEAN]

Windows == [neverOpened : BOOLEAN, violations : {0, 1}, versions : {0, 1},
            restoration : {"none", "removed", "unproven"}]

StreamStates == {"open", "lost", "lostStatus", "ended", "condemned"}

Replays == [replays |-> TRUE]
Fine    == disposition \in {Unset, "passed"}

TypeOK ==
    /\ pc \in RunPcs
    /\ worker \in {"other", "ours", "released"}
    /\ win \in {None} \cup Windows
    /\ left \subseteq Targets
    /\ object \in [Targets -> Objects]
    /\ setupAt \in Nat \ {0}
    /\ latest \in [Targets -> Observations]
    /\ sweep \in [phase : 0..Len(Phases), step : SweepSteps]
    /\ stream \in [Kinds -> StreamStates]

(* The sweep runs only while the run tears down.                           *)
SweepOK ==
    /\ sweep.step # "idle" => sweep.phase \in 1..Len(Phases)
    /\ pc # "teardown" => sweep.step = "idle"

Seen(t) == \/ sweep.step \in {"delete", "observe", "decide", "done"}
           \/ sweep.step = "recover" /\ \E i \in 1..(sweep.phase - 1) : t = Phases[i]

StampOK ==
    /\ pc \in EarlyPcs => \A t \in Targets : ~object[t].stamped
    /\ \A t \in Targets : Seen(t) /\ phaseTargetSettled(latest[t]) => ~object[t].stamped
    /\ pc = "release" => \A t \in Targets : ~object[t].stamped
    /\ worker = "released" => \A t \in Targets : ~object[t].stamped
    /\ pc \in EndPcs => \A t \in Targets : object[t].stamped => t \in left

PhaseOK ==
    /\ pc \in AheadPcs => disposition = Unset
    /\ worker = "released" => pc \in EndPcs
    /\ left # {} => pc \in EndPcs \cup {"release"} /\ ~Fine
    /\ open => win \in Windows
    /\ pc \in {"connect", "acquire", "sentinel"} => win = None
    /\ win # None /\ ~win.neverOpened => win.versions = 1
    /\ judged \in {None, Replays}

FineOK ==
    Fine =>
      /\ \A t \in Targets : object[t].uid = "ours" => object[t].stamped
      /\ pc \notin EarlyPcs => environmentEstablished(qual)
      /\ pc \notin {"connect", "acquire", "sentinel"} => win \in Windows /\ ~win.neverOpened
      /\ pc \notin AheadPcs => /\ win.violations = 0 /\ ~open /\ judged = Replays
                               /\ obs = Evidence([k \in Kinds |-> "ended"])
      /\ pc \in EndPcs => worker = "released"

StreamsOK == \A k \in Kinds : stream[k] = "condemned" => invalid = TRUE

ExitOK ==
    /\ pc # "exited" => exit = -1
    /\ pc = "exited" =>
         \E preview \in BOOLEAN :
           /\ record = buildRecord(disposition, left, qual, win, obs,
                                   IF disposition = "passed" THEN judged ELSE None, preview)
           /\ exit = reportRun(record, written)

IInv == TypeOK /\ SweepOK /\ StampOK /\ PhaseOK /\ FineOK /\ StreamsOK /\ ExitOK

------------------------------------------------------------------------------
(* The operators the run is built from.                                    *)

(* The zero value is none of the dispositions.                             *)
LEMMA UnsetIsNone ==
    Unset \notin {"passed", "cancelled", "client-failed", "acquisition-refused", "setup-failed",
                  "environment-unqualified", "collector-desync", "reconstruct-refused",
                  "cardinality-refused", "residue-left", "worker-not-restored"}
BY DEF Unset

(* The three phases are the three targets.                                 *)
LEMMA PhasesAre ==
    /\ Targets = {"namespace", "clusterQueue", "resourceFlavor"}
    /\ Len(Phases) = 3
    /\ Phases[1] = "namespace" /\ Phases[2] = "clusterQueue" /\ Phases[3] = "resourceFlavor"
<1>1. Len(Phases) = 3 /\ DOMAIN Phases = 1..3
  BY DEF Phases
<1>2. Phases[1] = "namespace" /\ Phases[2] = "clusterQueue" /\ Phases[3] = "resourceFlavor"
  BY DEF Phases
<1>3. DOMAIN Phases = {1, 2, 3}
  BY <1>1
<1>4. Targets = {"namespace", "clusterQueue", "resourceFlavor"}
  BY <1>2, <1>3 DEF Targets
<1> QED BY <1>1, <1>2, <1>4

(* Every position of the setup's order names a target.                     *)
LEMMA SetUpTargetIsTarget ==
    ASSUME setupAt \in Nat \ {0}, setupAt <= Len(SetupOrder)
    PROVE  SetUpTarget \in Targets
<1>1. Len(SetupOrder) = 3
  BY DEF SetupOrder
<1>2. setupAt = 1 \/ setupAt = 2 \/ setupAt = 3
  BY <1>1
<1>3. SetupOrder[1] = "namespace" /\ SetupOrder[2] = "resourceFlavor" /\ SetupOrder[3] = "clusterQueue"
  BY DEF SetupOrder
<1> QED BY <1>2, <1>3, PhasesAre DEF SetUpTarget

(* A window and a verdict are not nil (the nil pointer of the record).     *)
LEMMA NilIsNone ==
    /\ \A w \in Windows : w # None
    /\ Replays # None
<1>1. DOMAIN None = {"nil"}
  BY DEF None
<1>2. ASSUME NEW w \in Windows PROVE w # None
  <2>1. DOMAIN w = {"neverOpened", "violations", "versions", "restoration"}
    BY DEF Windows
  <2>2. "neverOpened" \in DOMAIN w
    BY <2>1
  <2> QED BY <1>1, <2>2
<1>3. Replays # None
  <2>1. "replays" \in DOMAIN Replays
    BY DEF Replays
  <2> QED BY <1>1, <2>1
<1> QED BY <1>2, <1>3

(* A run needs at least one device: its trace has a row.                   *)
LEMMA RunNeedsDevice ==
    /\ requiredGPU(Quotas, [i \in DOMAIN Schedule |-> 1]) \in Nat
    /\ requiredGPU(Quotas, [i \in DOMAIN Schedule |-> 1]) >= 1
<1> DEFINE ones == [i \in DOMAIN Schedule |-> 1]
           sum  == FoldLeft(+, 0, Quotas)
<1>1. \E i \in DOMAIN Schedule : TRUE
  <2>1. 1 \in DOMAIN Schedule
    BY ScheduleAssumption
  <2> QED BY <2>1
<1>2. Range(ones) = {1}
  BY <1>1 DEF Range
<1>3. {0} \cup Range(ones) = {0, 1}
  BY <1>2
<1>4. Max({0, 1}) = 1
  BY DEF Max
<1>5. sum \in Nat
  BY CountsAssumption
<1> HIDE DEF sum
<1>6. requiredGPU(Quotas, ones) = IF 1 > sum THEN 1 ELSE sum
  BY <1>3, <1>4 DEF requiredGPU, sum
<1>7. requiredGPU(Quotas, ones) \in Nat /\ requiredGPU(Quotas, ones) >= 1
  BY <1>5, <1>6
<1> QED BY <1>7

(* What qualifies a worker establishes the environment of the record.      *)
LEMMA QualifiedIsEstablished ==
    ASSUME NEW m \in Machines, NEW req \in Nat, req >= 1, NEW ref \in BOOLEAN,
           qualify(m.node, m.pods, req, ref).ok
    PROVE  environmentEstablished(qualify(m.node, m.pods, req, ref))
<1> DEFINE q == qualify(m.node, m.pods, req, ref)
<1>1. /\ q.ready = m.node.ready /\ q.schedulable = m.node.schedulable
      /\ q.allocatable = m.node.allocatable /\ q.required = req
      /\ q.consumers = Consumers(m.pods) /\ q.canary = ref
  BY DEF qualify
<1>2. /\ m.node.ready /\ m.node.schedulable /\ ref
      /\ m.node.allocatable - Occupied(m.pods) = req
      /\ Consumers(m.pods) = {}
  BY DEF qualify
<1>3. m.node.allocatable \in Nat /\ Occupied(m.pods) \in Nat
  BY CountsAssumption
<1>4. m.node.allocatable >= req
  BY <1>2, <1>3
<1>5. q # None
  <2>1. "ready" \in DOMAIN q
    BY DEF qualify
  <2>2. DOMAIN None = {"nil"}
    BY DEF None
  <2> QED BY <2>1, <2>2
<1> QED BY <1>1, <1>2, <1>4, <1>5 DEF environmentEstablished

(* The verdict at the end of an observation stands only on a ledger that   *)
(* is valid, a window without violations and a ledger that reconstructs.   *)
LEMMA VerdictStands ==
    ASSUME Verdict = Unset, win.violations \in Nat
    PROVE  /\ ~invalid /\ win.violations = 0
           /\ ~ReconstructRefuses(ledger, Rows, horizon)
           /\ AssertCardinality(arm, Reconstruct(ledger, Rows, horizon))
<1>1. ASSUME invalid \/ win.violations > 0 PROVE FALSE
  <2>1. Verdict = "collector-desync"
    BY <1>1 DEF Verdict
  <2> QED BY <2>1, UnsetIsNone
<1>2. win.violations = 0
  BY <1>1
<1>3. ~invalid
  BY <1>1
<1>4. ASSUME ReconstructRefuses(ledger, Rows, horizon) PROVE FALSE
  <2>1. Verdict = "reconstruct-refused"
    BY <1>2, <1>3, <1>4 DEF Verdict
  <2> QED BY <2>1, UnsetIsNone
<1>5. ASSUME ~AssertCardinality(arm, Reconstruct(ledger, Rows, horizon)) PROVE FALSE
  <2>1. Verdict = "cardinality-refused"
    BY <1>2, <1>3, <1>4, <1>5 DEF Verdict
  <2> QED BY <2>1, UnsetIsNone
<1> QED BY <1>2, <1>3, <1>4, <1>5

(* A ledger that reconstructs is not empty: each row was submitted.        *)
LEMMA NothingIsRefused ==
    ASSUME ~ReconstructRefuses(ledger, Rows, horizon)
    PROVE  ledger # <<>>
<1> SUFFICES ASSUME ledger = <<>> PROVE FALSE
  OBVIOUS
<1>1. PICK r \in Rows : TRUE
  <2>1. 1 \in DOMAIN Schedule
    BY ScheduleAssumption
  <2> QED BY <2>1 DEF Rows, Range
<1>2. ~chargeRefuses(ledger, r, horizon)
  BY DEF ReconstructRefuses
<1>3. Instants(ledger, r, "Submitted", horizon) = {}
  <2>1. DOMAIN ledger = {}
    OBVIOUS
  <2>2. Of(ledger, r, "Submitted", horizon) = {}
    BY <2>1 DEF Of
  <2> QED BY <2>2 DEF Instants
<1> QED BY <1>2, <1>3 DEF chargeRefuses

(* The measurement carries the horizon it was taken with.                  *)
LEMMA MeasuredAtHorizon ==
    ASSUME NEW ev, NEW rows, NEW h
    PROVE  measurementOf(ev, rows, h).horizon = h
BY DEF measurementOf

(* So what a standing verdict measured replays.                            *)
LEMMA MeasurementReplays ==
    ASSUME Verdict = Unset, win.violations \in Nat
    PROVE  replayAgreesWithRecord(measurementOf(ledger, Rows, horizon), ledger, Rows)
<1>1. ~ReconstructRefuses(ledger, Rows, horizon)
  BY VerdictStands
<1>2. ledger # <<>>
  BY <1>1, NothingIsRefused
<1>3. measurementOf(ledger, Rows, horizon).horizon = horizon
  BY MeasuredAtHorizon
<1> QED BY <1>1, <1>2, <1>3 DEF replayAgreesWithRecord

------------------------------------------------------------------------------
(* The invariant of the run, action by action.                             *)

(* It holds before the run connects.                                       *)
LEMMA InitEstablishes ==
    ASSUME Init PROVE IInv
<1>1. /\ pc = "connect" /\ disposition = Unset /\ worker = "other" /\ win = None /\ open = FALSE
      /\ judged = None /\ left = {} /\ exit = -1
  BY DEF Init
<1>2. /\ object = [t \in Targets |-> Nothing] /\ setupAt = 1
      /\ latest = [t \in Targets |-> Unread] /\ sweep = [phase |-> 0, step |-> "idle"]
  BY DEF Init, TInit
<1>3. stream = [k \in Kinds |-> "open"]
  BY DEF Init, CInit
<1>4. Nothing \in Objects /\ Nothing.stamped = FALSE /\ Nothing.uid = "none"
  BY DEF Objects, Nothing
<1>5. Unread \in Observations
  BY DEF Unread, Observations
<1>6. sweep.step = "idle" /\ sweep \in [phase : 0..Len(Phases), step : SweepSteps]
  BY <1>2, PhasesAre DEF SweepSteps
<1>7. TypeOK
  BY <1>1, <1>2, <1>3, <1>4, <1>5, <1>6 DEF TypeOK, RunPcs, StreamStates
<1>8. SweepOK
  BY <1>6 DEF SweepOK
<1>9. StampOK
  BY <1>1, <1>2, <1>4, <1>6 DEF StampOK, Seen, EndPcs
<1>10. PhaseOK
  BY <1>1 DEF PhaseOK, EndPcs
<1>11. FineOK
  BY <1>1, <1>2, <1>4 DEF FineOK, EarlyPcs, AheadPcs, EndPcs
<1>12. StreamsOK
  BY <1>3 DEF StreamsOK
<1>13. ExitOK
  BY <1>1 DEF ExitOK
<1> QED BY <1>7, <1>8, <1>9, <1>10, <1>11, <1>12, <1>13 DEF IInv

(* What a step leaves alone keeps what was said of it: the teardown's      *)
(* observations while objects, observations and sweep stay as they are.    *)
LEMMA TeardownRests ==
    ASSUME UNCHANGED <<object, latest, sweep>>, NEW t \in Targets
    PROVE  /\ Seen(t)' <=> Seen(t)
           /\ phaseTargetSettled(latest[t])' <=> phaseTargetSettled(latest[t])
           /\ object'[t] = object[t]
BY DEF Seen

(* Steps of the canary touch nothing of the run.                           *)
LEMMA FrameKeeps ==
    ASSUME IInv, UNCHANGED <<cvars, tvars, rvars>> PROVE IInv'
<1>1. /\ pc' = pc /\ disposition' = disposition /\ worker' = worker /\ win' = win /\ open' = open
      /\ qual' = qual /\ obs' = obs /\ judged' = judged /\ left' = left /\ record' = record
      /\ written' = written /\ exit' = exit
  BY DEF rvars
<1>2. object' = object /\ setupAt' = setupAt /\ latest' = latest /\ sweep' = sweep
  BY DEF tvars
<1>3. stream' = stream /\ invalid' = invalid
  BY DEF cvars
<1>4. TypeOK'
  BY <1>1, <1>2, <1>3 DEF IInv, TypeOK
<1>5. SweepOK'
  BY <1>1, <1>2 DEF IInv, SweepOK
<1>6. StampOK'
  BY <1>1, <1>2, TeardownRests DEF IInv, StampOK
<1>7. PhaseOK'
  BY <1>1 DEF IInv, PhaseOK, Fine
<1>8. FineOK'
  BY <1>1, <1>2 DEF IInv, FineOK, Fine, Evidence, environmentEstablished
<1>9. StreamsOK'
  BY <1>3 DEF IInv, StreamsOK
<1>10. ExitOK'
  BY <1>1 DEF IInv, ExitOK
<1> QED BY <1>4, <1>5, <1>6, <1>7, <1>8, <1>9, <1>10 DEF IInv

LEMMA ConnectKeeps ==
    ASSUME IInv, connect PROVE IInv'
<1>1. /\ pc = "connect" /\ worker' = worker /\ win' = win /\ open' = open
      /\ qual' = qual /\ obs' = obs /\ judged' = judged /\ left' = left /\ record' = record
      /\ written' = written /\ exit' = exit
  BY DEF connect
<1>2. \/ pc' = "acquire" /\ disposition' = disposition
      \/ pc' = "report" /\ disposition' = "client-failed"
  BY DEF connect, Return, phaseFailure
<1>3. /\ object' \in [Targets -> {Nothing, Theirs}]
      /\ setupAt' = setupAt /\ latest' = latest /\ sweep' = sweep
  BY DEF connect, Found
<1>4. stream' = stream /\ invalid' = invalid
  BY DEF connect, builder
<1>5. \A t \in Targets : object'[t] \in Objects /\ object'[t].stamped = FALSE /\ object'[t].uid # "ours"
  BY <1>3 DEF Objects, Nothing, Theirs
<1>6. TypeOK'
  BY <1>1, <1>2, <1>3, <1>4, <1>5 DEF IInv, TypeOK, RunPcs
<1>7. SweepOK'
  BY <1>1, <1>2, <1>3 DEF IInv, SweepOK
<1>8. StampOK'
  BY <1>5 DEF StampOK
<1>9. PhaseOK'
  BY <1>1, <1>2, UnsetIsNone DEF IInv, PhaseOK, Fine, AheadPcs, EarlyPcs, EndPcs
<1>10. FineOK'
  BY <1>1, <1>2, <1>5, UnsetIsNone DEF IInv, FineOK, Fine, AheadPcs, EarlyPcs, EndPcs
<1>11. StreamsOK'
  BY <1>4 DEF IInv, StreamsOK
<1>12. ExitOK'
  BY <1>1, <1>2 DEF IInv, ExitOK
<1> QED BY <1>6, <1>7, <1>8, <1>9, <1>10, <1>11, <1>12 DEF IInv

(* A step of the run's own state leaves the objects, the sweep and the     *)
(* streams as they are.                                                    *)
LEMMA OwnStep ==
    ASSUME IInv, UNCHANGED <<cvars, tvars>>
    PROVE  /\ object' = object /\ setupAt' = setupAt /\ latest' = latest /\ sweep' = sweep
           /\ stream' = stream /\ invalid' = invalid
           /\ StreamsOK'
           /\ (pc' = "teardown" \/ pc # "teardown") => SweepOK'
<1>1. object' = object /\ setupAt' = setupAt /\ latest' = latest /\ sweep' = sweep
  BY DEF tvars
<1>2. stream' = stream /\ invalid' = invalid
  BY DEF cvars
<1>3. StreamsOK'
  BY <1>2 DEF IInv, StreamsOK
<1>4. ASSUME pc' = "teardown" \/ pc # "teardown" PROVE SweepOK'
  BY <1>1, <1>4 DEF IInv, SweepOK
<1> QED BY <1>1, <1>2, <1>3, <1>4

LEMMA AcquireKeeps ==
    ASSUME IInv, acquireWorker PROVE IInv'
<1>1. /\ pc = "acquire" /\ win' = win /\ open' = open /\ qual' = qual /\ obs' = obs
      /\ judged' = judged /\ left' = left /\ record' = record /\ written' = written /\ exit' = exit
  BY DEF acquireWorker
<1>2. \/ pc' = "sentinel" /\ worker' = "ours" /\ disposition' = disposition
      \/ pc' = "report" /\ worker' = worker /\ disposition' \in {"cancelled", "acquisition-refused"}
  BY DEF acquireWorker, Return, phaseFailure
<1>3. /\ object' = object /\ setupAt' = setupAt /\ latest' = latest /\ sweep' = sweep
      /\ stream' = stream /\ StreamsOK' /\ SweepOK'
  BY <1>1, OwnStep DEF acquireWorker
<1>4. TypeOK'
  BY <1>1, <1>2, <1>3 DEF IInv, TypeOK, RunPcs
<1>5. StampOK'
  BY <1>1, <1>2, <1>3, TeardownRests DEF IInv, StampOK, EarlyPcs
<1>6. PhaseOK'
  BY <1>1, <1>2, UnsetIsNone DEF IInv, PhaseOK, Fine, AheadPcs, EarlyPcs, EndPcs
<1>7. FineOK'
  BY <1>1, <1>2, <1>3, UnsetIsNone DEF IInv, FineOK, PhaseOK, Fine, AheadPcs, EarlyPcs, EndPcs
<1>8. ExitOK'
  BY <1>1, <1>2 DEF IInv, ExitOK
<1> QED BY <1>3, <1>4, <1>5, <1>6, <1>7, <1>8 DEF IInv

LEMMA SentinelKeeps ==
    ASSUME IInv, startOwnershipSentinel PROVE IInv'
<1>1. /\ pc = "sentinel" /\ worker' = worker /\ qual' = qual /\ obs' = obs
      /\ judged' = judged /\ left' = left /\ record' = record /\ written' = written /\ exit' = exit
  BY DEF startOwnershipSentinel
<1>2. \/ pc' = "qualify" /\ disposition' = disposition /\ win' = Opened /\ open' = TRUE
      \/ /\ pc' = "release" /\ disposition' \in {"cancelled", "setup-failed"}
         /\ win' = win /\ open' = open
  BY DEF startOwnershipSentinel, Return, phaseFailure
<1>3. /\ object' = object /\ setupAt' = setupAt /\ latest' = latest /\ sweep' = sweep
      /\ stream' = stream /\ StreamsOK' /\ SweepOK'
  BY <1>1, OwnStep DEF startOwnershipSentinel
<1>4. Opened \in Windows /\ Opened.neverOpened = FALSE /\ Opened.versions = 1
  BY DEF Opened, Windows
<1>5. TypeOK'
  BY <1>1, <1>2, <1>3, <1>4 DEF IInv, TypeOK, RunPcs
<1>6. StampOK'
  BY <1>1, <1>2, <1>3, TeardownRests DEF IInv, StampOK, EarlyPcs, EndPcs
<1>7. PhaseOK'
  BY <1>1, <1>2, <1>4, UnsetIsNone DEF IInv, PhaseOK, Fine, AheadPcs, EarlyPcs, EndPcs
<1>8. FineOK'
  BY <1>1, <1>2, <1>3, <1>4, UnsetIsNone DEF IInv, FineOK, PhaseOK, Fine, AheadPcs, EarlyPcs, EndPcs
<1>9. ExitOK'
  BY <1>1, <1>2 DEF IInv, ExitOK
<1> QED BY <1>3, <1>5, <1>6, <1>7, <1>8, <1>9 DEF IInv

LEMMA QualifyKeeps ==
    ASSUME IInv, qualifyWorker PROVE IInv'
<1>1. /\ pc = "qualify" /\ worker' = worker /\ win' = win /\ open' = open /\ obs' = obs
      /\ judged' = judged /\ left' = left /\ record' = record /\ written' = written /\ exit' = exit
  BY DEF qualifyWorker
<1>2. \/ pc' = "setup" /\ disposition' = disposition /\ environmentEstablished(qual')
      \/ pc' = "teardown" /\ disposition' \in {"cancelled", "environment-unqualified"}
  <2> DEFINE req == requiredGPU(Quotas, [i \in DOMAIN Schedule |-> 1])
  <2>1. req \in Nat /\ req >= 1
    BY RunNeedsDevice
  <2> HIDE DEF req
  <2>2. \/ \E m \in Machines, op \in operatorImageID :
             /\ qual' = qualify(m.node, m.pods, req, checkTerminationCanary(op))
             /\ \/ /\ qualify(m.node, m.pods, req, checkTerminationCanary(op)).ok
                   /\ pc' = "setup" /\ UNCHANGED disposition
                \/ Return("teardown", "environment-unqualified", FALSE)
        \/ \E ctxErr \in BOOLEAN : Return("teardown", "environment-unqualified", ctxErr)
    BY DEF qualifyWorker, req
  <2>3. ASSUME NEW ctxErr \in BOOLEAN, Return("teardown", "environment-unqualified", ctxErr)
        PROVE  pc' = "teardown" /\ disposition' \in {"cancelled", "environment-unqualified"}
    BY <2>3 DEF Return, phaseFailure
  <2>4. ASSUME NEW m \in Machines, NEW op \in operatorImageID,
               qual' = qualify(m.node, m.pods, req, checkTerminationCanary(op)),
               qualify(m.node, m.pods, req, checkTerminationCanary(op)).ok
        PROVE  environmentEstablished(qual')
    <3>1. checkTerminationCanary(op) \in BOOLEAN
      BY DEF checkTerminationCanary
    <3> QED BY <2>1, <2>4, <3>1, QualifiedIsEstablished
  <2> QED BY <2>2, <2>3, <2>4
<1>3. /\ object' = object /\ setupAt' = setupAt /\ latest' = latest /\ sweep' = sweep
      /\ stream' = stream /\ StreamsOK' /\ SweepOK'
  BY <1>1, OwnStep DEF qualifyWorker
<1>4. TypeOK'
  BY <1>1, <1>2, <1>3 DEF IInv, TypeOK, RunPcs
<1>5. StampOK'
  BY <1>1, <1>2, <1>3, TeardownRests DEF IInv, StampOK, EarlyPcs, EndPcs
<1>6. PhaseOK'
  BY <1>1, <1>2, UnsetIsNone DEF IInv, PhaseOK, Fine, AheadPcs, EarlyPcs, EndPcs
<1>7. FineOK'
  BY <1>1, <1>2, <1>3, UnsetIsNone DEF IInv, FineOK, PhaseOK, Fine, AheadPcs, EarlyPcs, EndPcs
<1>8. ExitOK'
  BY <1>1, <1>2 DEF IInv, ExitOK
<1> QED BY <1>3, <1>4, <1>5, <1>6, <1>7, <1>8 DEF IInv

LEMMA CollectorStartKeeps ==
    ASSUME IInv, startCollector PROVE IInv'
<1>1. /\ pc = "start" /\ worker' = worker /\ win' = win /\ open' = open /\ qual' = qual
      /\ judged' = judged /\ left' = left /\ record' = record /\ written' = written /\ exit' = exit
  BY DEF startCollector
<1>2. \/ pc' = "observe" /\ disposition' = disposition
      \/ pc' = "teardown" /\ disposition' \in {"cancelled", "setup-failed"}
  BY DEF startCollector, Return, phaseFailure
<1>3. /\ object' = object /\ setupAt' = setupAt /\ latest' = latest /\ sweep' = sweep
      /\ stream' = stream /\ StreamsOK' /\ SweepOK'
  BY <1>1, OwnStep DEF startCollector
<1>4. TypeOK'
  BY <1>1, <1>2, <1>3 DEF IInv, TypeOK, RunPcs
<1>5. StampOK'
  BY <1>1, <1>2, <1>3, TeardownRests DEF IInv, StampOK, EarlyPcs, EndPcs
<1>6. PhaseOK'
  BY <1>1, <1>2, UnsetIsNone DEF IInv, PhaseOK, Fine, AheadPcs, EarlyPcs, EndPcs
<1>7. FineOK'
  BY <1>1, <1>2, <1>3, UnsetIsNone
  DEF IInv, FineOK, PhaseOK, Fine, AheadPcs, EarlyPcs, EndPcs, environmentEstablished
<1>8. ExitOK'
  BY <1>1, <1>2 DEF IInv, ExitOK
<1> QED BY <1>3, <1>4, <1>5, <1>6, <1>7, <1>8 DEF IInv

(* The setup creates under free names only, and an object stored without   *)
(* its stamp ends the run.                                                 *)
LEMMA SetUpKeeps ==
    ASSUME IInv, setUp PROVE IInv'
<1>1. /\ pc = "setup" /\ worker' = worker /\ win' = win /\ open' = open /\ qual' = qual /\ obs' = obs
      /\ judged' = judged /\ left' = left /\ record' = record /\ written' = written /\ exit' = exit
  BY DEF setUp
<1>2. stream' = stream /\ invalid' = invalid
  BY DEF setUp, cvars
<1>3. /\ Ours \in Objects /\ Ours.uid = "ours" /\ Ours.stamped = TRUE
      /\ [Ours EXCEPT !.stamped = FALSE] \in Objects
  BY DEF Ours, Objects
<1>4. /\ latest' = latest /\ sweep' = sweep
      /\ setupAt' \in Nat \ {0}
      /\ object' \in [Targets -> Objects]
      /\ pc' \in {"setup", "start", "teardown"}
      /\ \/ /\ pc' # "teardown" /\ disposition' = disposition
            /\ \A t \in Targets : object'[t] \in {object[t], Ours}
         \/ pc' = "teardown" /\ disposition' \in {"cancelled", "setup-failed"}
  <2>1. object \in [Targets -> Objects] /\ setupAt \in Nat \ {0}
    BY DEF IInv, TypeOK
  <2>2. CASE setupAt <= Len(SetupOrder)
    <3>1. PICK t \in Targets : t = SetUpTarget
      BY <2>1, <2>2, SetUpTargetIsTarget
    <3>2. [object EXCEPT ![t] = Ours] \in [Targets -> Objects]
      BY <2>1, <1>3
    <3>3. [object EXCEPT ![t] = [Ours EXCEPT !.stamped = FALSE]] \in [Targets -> Objects]
      BY <2>1, <1>3
    <3>4. CASE CreateStored(t) /\ UNCHANGED <<pc, disposition>>
      <4>1. object' = [object EXCEPT ![t] = Ours] /\ setupAt' = setupAt + 1
            /\ latest' = latest /\ sweep' = sweep
        BY <3>4 DEF CreateStored
      <4>2. \A u \in Targets : object'[u] \in {object[u], Ours}
        BY <2>1, <4>1
      <4> QED BY <1>1, <2>1, <3>2, <3>4, <4>1, <4>2
    <3>5. CASE SetupFails(t) /\ \E ctxErr \in BOOLEAN : Return("teardown", "setup-failed", ctxErr)
      <4>1. pc' = "teardown" /\ disposition' \in {"cancelled", "setup-failed"}
        BY <3>5 DEF Return, phaseFailure
      <4>2. /\ object' \in [Targets -> Objects]
            /\ setupAt' = setupAt /\ latest' = latest /\ sweep' = sweep
        <5>1. CASE CreatedUnstamped(t)
          BY <2>1, <3>3, <5>1 DEF CreatedUnstamped
        <5>2. CASE CreateErrs(t)
          BY <2>1, <3>2, <5>2 DEF CreateErrs
        <5>3. CASE ExistsForeign(t)
          BY <2>1, <5>3 DEF ExistsForeign, tvars
        <5> QED BY <3>5, <5>1, <5>2, <5>3 DEF SetupFails
      <4> QED BY <2>1, <4>1, <4>2
    <3>6. \/ CreateStored(t) /\ UNCHANGED <<pc, disposition>>
          \/ SetupFails(t) /\ \E ctxErr \in BOOLEAN : Return("teardown", "setup-failed", ctxErr)
      <4>1. ~(setupAt > Len(SetupOrder))
        BY <2>1, <2>2 DEF SetupOrder
      <4> QED BY <3>1, <4>1 DEF setUp
    <3> QED BY <3>4, <3>5, <3>6
  <2>3. CASE ~(setupAt <= Len(SetupOrder))
    <3>1. pc' = "start" /\ disposition' = disposition /\ UNCHANGED tvars
      BY <2>3 DEF setUp
    <3>2. object' = object /\ setupAt' = setupAt /\ latest' = latest /\ sweep' = sweep
      BY <3>1 DEF tvars
    <3> QED BY <2>1, <3>1, <3>2
  <2> QED BY <2>2, <2>3
<1>5. sweep.step = "idle"
  BY <1>1 DEF IInv, SweepOK
<1>6. TypeOK'
  BY <1>1, <1>2, <1>4 DEF IInv, TypeOK, RunPcs
<1>7. SweepOK'
  BY <1>4, <1>5 DEF IInv, SweepOK
<1>8. StampOK'
  <2>1. \A t \in Targets : ~Seen(t)'
    BY <1>4, <1>5 DEF Seen
  <2>2. worker # "released"
    BY <1>1 DEF IInv, PhaseOK, EndPcs
  <2> QED BY <1>1, <1>4, <2>1, <2>2 DEF StampOK, EarlyPcs, EndPcs
<1>9. PhaseOK'
  BY <1>1, <1>4, UnsetIsNone DEF IInv, PhaseOK, Fine, AheadPcs, EarlyPcs, EndPcs
<1>10. FineOK'
  BY <1>1, <1>3, <1>4, UnsetIsNone
  DEF IInv, FineOK, PhaseOK, Fine, AheadPcs, EarlyPcs, EndPcs, environmentEstablished
<1>11. StreamsOK'
  BY <1>2 DEF IInv, StreamsOK
<1>12. ExitOK'
  BY <1>1, <1>4 DEF IInv, ExitOK
<1> QED BY <1>6, <1>7, <1>8, <1>9, <1>10, <1>11, <1>12 DEF IInv

(* No step of the observation revives a condemned stream or a ledger that  *)
(* a condemned stream made invalid.                                        *)
LEMMA ObservingKeepsStreams ==
    ASSUME CInv, stream \in [Kinds -> StreamStates], StreamsOK, Observing
    PROVE  stream' \in [Kinds -> StreamStates] /\ StreamsOK'
<1>1. CASE stream' = stream /\ invalid' = invalid
  BY <1>1 DEF StreamsOK
<1>2. CASE ClusterStep
  <2>1. stream' = stream /\ invalid' = invalid
    BY Zenon, <1>2 DEF ClusterStep, ControllerStep, CreateJob, EndJob, Admit, ReplacePod, BecomeReady,
                       StopPod, DeletePod, EvictOtherwise, Preempt, StrayAppears, RepeatLast, Observation
  <2> QED BY <2>1 DEF StreamsOK
<1>3. ASSUME NEW k \in Kinds, handle(k)
      PROVE  stream' \in [Kinds -> StreamStates] /\ StreamsOK'
  <2>1. stream' = stream
    BY <1>3 DEF handle
  <2>2. ASSUME invalid = TRUE PROVE invalid' = TRUE
    BY <1>3, <2>2, HandleStaysInvalid
  <2> QED BY <2>1, <2>2 DEF StreamsOK
<1>4. ASSUME NEW k \in Kinds, forwardDrops(k) \/ Stall(k)
      PROVE  stream' = stream /\ invalid' = invalid
  BY <1>4 DEF forwardDrops, Stall, builder
<1>5. ASSUME NEW k \in Kinds, BreakStream(k)
      PROVE  stream' \in [Kinds -> StreamStates] /\ StreamsOK'
  <2>1. PICK how \in {"lost", "lostStatus"} : stream' = [stream EXCEPT ![k] = how]
    BY <1>5 DEF BreakStream
  <2>2. invalid' = invalid
    BY <1>5 DEF BreakStream, builder
  <2> QED BY <2>1, <2>2 DEF StreamsOK, StreamStates
<1>6. ASSUME NEW k \in Kinds, endStream(k)
      PROVE  stream' \in [Kinds -> StreamStates] /\ StreamsOK'
  <2> DEFINE condemned == stream[k] = "lostStatus" \/ horizon = -1
  <2>1. /\ stream' = [stream EXCEPT ![k] = IF condemned THEN "condemned" ELSE "ended"]
        /\ invalid' = (invalid \/ condemned)
    BY <1>6 DEF endStream
  <2>2. stream' \in [Kinds -> StreamStates]
    BY <2>1 DEF StreamStates
  <2>3. ASSUME NEW j \in Kinds, stream'[j] = "condemned" PROVE invalid' = TRUE
    <3>1. CASE condemned
      BY <2>1, <3>1
    <3>2. CASE ~condemned
      <4>1. stream[j] = "condemned"
        BY <2>1, <2>3, <3>2
      <4>2. invalid = TRUE
        BY <4>1 DEF StreamsOK
      <4> QED BY <2>1, <4>2
    <3> QED BY <3>1, <3>2
  <2> QED BY <2>2, <2>3 DEF StreamsOK
<1>7. CASE wait
  <2>1. /\ stream' = [k \in Kinds |-> IF stream[k] = "open" THEN "ended" ELSE stream[k]]
        /\ invalid' = invalid
    BY <1>7 DEF wait, builder
  <2> QED BY <2>1 DEF StreamsOK, StreamStates
<1>8. CASE waitBarrier \/ SubmitRow \/ submitObserved \/ PassDeadline
  <2>1. stream' = stream /\ invalid' = invalid
    BY <1>8 DEF waitBarrier, SubmitRow, submitObserved, PassDeadline, builder
  <2> QED BY <1>1, <2>1
<1>9. CASE BarrierTimesOut
  <2>1. stream' = stream /\ invalid' = TRUE
    BY <1>9 DEF BarrierTimesOut
  <2> QED BY <2>1 DEF StreamsOK
<1>10. \/ ClusterStep
       \/ \E k \in Kinds : handle(k) \/ forwardDrops(k) \/ Stall(k) \/ BreakStream(k) \/ endStream(k)
       \/ waitBarrier \/ SubmitRow \/ submitObserved \/ PassDeadline \/ BarrierTimesOut \/ wait
  BY DEF Observing
<1> QED BY <1>1, <1>2, <1>3, <1>4, <1>5, <1>6, <1>7, <1>8, <1>9, <1>10

LEMMA ObservingKeeps ==
    ASSUME IInv, CInv, observing PROVE IInv'
<1>1. /\ pc' = pc /\ disposition' = disposition /\ worker' = worker /\ win' = win /\ open' = open
      /\ qual' = qual /\ obs' = obs /\ judged' = judged /\ left' = left /\ record' = record
      /\ written' = written /\ exit' = exit
  BY DEF observing, rvars
<1>2. object' = object /\ setupAt' = setupAt /\ latest' = latest /\ sweep' = sweep
  BY DEF observing, tvars
<1>3. stream' \in [Kinds -> StreamStates] /\ StreamsOK'
  BY ObservingKeepsStreams DEF observing, IInv, TypeOK
<1>4. TypeOK'
  BY <1>1, <1>2, <1>3 DEF IInv, TypeOK
<1>5. SweepOK'
  BY <1>1, <1>2 DEF IInv, SweepOK
<1>6. StampOK'
  BY <1>1, <1>2, TeardownRests DEF IInv, StampOK
<1>7. PhaseOK'
  BY <1>1 DEF IInv, PhaseOK, Fine
<1>8. FineOK'
  BY <1>1, <1>2 DEF IInv, FineOK, Fine, Evidence, environmentEstablished
<1>9. ExitOK'
  BY <1>1 DEF IInv, ExitOK
<1> QED BY <1>3, <1>4, <1>5, <1>6, <1>7, <1>8, <1>9 DEF IInv

(* The observed part is over and failed: the run turns to its teardown.    *)
LEMMA GivesUpKeeps ==
    ASSUME IInv, Interrupted \/ SubmitFails PROVE IInv'
<1>1. /\ pc = "observe" /\ worker' = worker /\ win' = win /\ qual' = qual
      /\ judged' = judged /\ left' = left /\ record' = record /\ written' = written /\ exit' = exit
  BY DEF Interrupted, SubmitFails
<1>2. pc' = "teardown" /\ disposition' \in {"cancelled", "setup-failed"}
  BY DEF Interrupted, SubmitFails, Return, phaseFailure
<1>3. object' = object /\ setupAt' = setupAt /\ latest' = latest /\ sweep' = sweep
  BY DEF Interrupted, SubmitFails, tvars
<1>4. stream' = [k \in Kinds |-> "open"]
  BY DEF Interrupted, SubmitFails, Forget
<1>5. win \in Windows
  BY <1>1 DEF IInv, FineOK, PhaseOK, Fine, AheadPcs
<1>6. TypeOK'
  BY <1>1, <1>2, <1>3, <1>4 DEF IInv, TypeOK, RunPcs, StreamStates
<1>7. SweepOK'
  BY <1>2, <1>3 DEF IInv, SweepOK
<1>8. StampOK'
  BY <1>1, <1>2, <1>3, TeardownRests DEF IInv, StampOK, EarlyPcs, EndPcs
<1>9. PhaseOK'
  BY <1>1, <1>2, <1>5, UnsetIsNone DEF IInv, PhaseOK, Fine, AheadPcs, EarlyPcs, EndPcs
<1>10. FineOK'
  BY <1>2, UnsetIsNone DEF FineOK, Fine
<1>11. StreamsOK'
  BY <1>4 DEF StreamsOK
<1>12. ExitOK'
  BY <1>1, <1>2 DEF IInv, ExitOK
<1> QED BY <1>6, <1>7, <1>8, <1>9, <1>10, <1>11, <1>12 DEF IInv

(* A ledger that stands was observed to the end by streams that all ended  *)
(* because the run ended them.                                             *)
LEMMA JudgeKeeps ==
    ASSUME IInv, judge PROVE IInv'
<1>1. /\ pc = "observe" /\ pc' = "teardown" /\ worker' = worker /\ win' = win /\ qual' = qual
      /\ open' = FALSE /\ left' = left /\ record' = record /\ written' = written /\ exit' = exit
  BY DEF judge
<1>2. disposition' = Verdict /\ obs' = Evidence(stream)
  BY DEF judge
<1>3. object' = object /\ setupAt' = setupAt /\ latest' = latest /\ sweep' = sweep
  BY DEF judge, tvars
<1>4. stream' = [k \in Kinds |-> "open"]
  BY DEF judge, Forget
<1>5. win \in Windows /\ win.violations \in Nat /\ disposition = Unset
  BY <1>1 DEF IInv, FineOK, PhaseOK, Fine, AheadPcs, Windows
<1>6. judged' = IF Verdict = Unset THEN Replays ELSE None
  <2>1. CASE Verdict = Unset
    <3>1. replayAgreesWithRecord(measurementOf(ledger, Rows, horizon), ledger, Rows) = TRUE
      <4>1. replayAgreesWithRecord(measurementOf(ledger, Rows, horizon), ledger, Rows)
        BY <1>5, <2>1, MeasurementReplays
      <4> QED BY <4>1 DEF replayAgreesWithRecord
    <3>2. judged' = [replays |-> replayAgreesWithRecord(measurementOf(ledger, Rows, horizon), ledger, Rows)]
      BY <2>1 DEF judge
    <3> QED BY <2>1, <3>1, <3>2 DEF Replays
  <2>2. CASE Verdict # Unset
    BY <2>2 DEF judge
  <2> QED BY <2>1, <2>2
<1>7. Verdict # "passed"
  BY UnsetIsNone DEF Verdict
<1>8. ASSUME Verdict = Unset
      PROVE  win.violations = 0 /\ Evidence(stream) = Evidence([k \in Kinds |-> "ended"])
  <2>1. ~invalid /\ win.violations = 0
    BY <1>5, <1>8, VerdictStands
  <2>2. \A k \in Kinds : stream[k] = "ended"
    BY <2>1 DEF judge, Drained, IInv, StreamsOK
  <2>3. stream = [k \in Kinds |-> "ended"]
    BY <2>2 DEF IInv, TypeOK
  <2> QED BY <2>1, <2>3
<1>9. TypeOK'
  BY <1>1, <1>3, <1>4 DEF IInv, TypeOK, RunPcs, StreamStates
<1>10. SweepOK'
  BY <1>1, <1>3 DEF IInv, SweepOK
<1>11. StampOK'
  BY <1>1, <1>3, TeardownRests DEF IInv, StampOK, EarlyPcs, EndPcs
<1>12. PhaseOK'
  BY <1>1, <1>5, <1>6 DEF IInv, PhaseOK, AheadPcs, EarlyPcs, EndPcs
<1>13. FineOK'
  <2> SUFFICES ASSUME Fine' PROVE FineOK'
    BY DEF FineOK
  <2>1. Verdict = Unset
    BY <1>2, <1>7 DEF Fine
  <2>2. win.violations = 0 /\ obs' = Evidence([k \in Kinds |-> "ended"])
    BY <1>2, <1>8, <2>1
  <2>3. obs' = Evidence([k \in Kinds |-> "ended"])'
    BY <2>2 DEF Evidence
  <2>4. Fine /\ environmentEstablished(qual) /\ win \in Windows /\ ~win.neverOpened
        /\ \A t \in Targets : object[t].uid = "ours" => object[t].stamped
    BY <1>1, <1>5 DEF IInv, FineOK, Fine, EarlyPcs
  <2>5. environmentEstablished(qual')
    BY <1>1, <2>4
  <2> QED BY <1>1, <1>3, <1>6, <2>1, <2>2, <2>3, <2>4, <2>5 DEF FineOK, AheadPcs, EarlyPcs, EndPcs
<1>14. StreamsOK'
  BY <1>4 DEF StreamsOK
<1>15. ExitOK'
  BY <1>1 DEF IInv, ExitOK
<1> QED BY <1>9, <1>10, <1>11, <1>12, <1>13, <1>14, <1>15 DEF IInv

(* Somebody touches the node: only a window that is open counts it, and a  *)
(* run that is fine has closed its window before it tears down.            *)
LEMMA DivergesKeeps ==
    ASSUME IInv, Diverges PROVE IInv'
<1>1. /\ pc' = pc /\ disposition' = disposition /\ worker' = worker /\ open' = open
      /\ qual' = qual /\ obs' = obs /\ judged' = judged /\ left' = left /\ record' = record
      /\ written' = written /\ exit' = exit
  BY DEF Diverges
<1>2. object' = object /\ setupAt' = setupAt /\ latest' = latest /\ sweep' = sweep
  BY DEF Diverges, tvars
<1>3. stream' = stream /\ invalid' = invalid
  BY DEF Diverges, builder
<1>4. open /\ pc \in {"observe", "teardown"} /\ win \in Windows
  BY DEF Diverges, IInv, PhaseOK
<1>5. /\ win' \in Windows /\ win'.versions = win.versions
      /\ win'.neverOpened = win.neverOpened
  <2>1. win' = [win EXCEPT !.violations = 1]
    BY DEF Diverges
  <2> QED BY <1>4, <2>1 DEF Windows
<1>6. TypeOK'
  BY <1>1, <1>2, <1>3, <1>5 DEF IInv, TypeOK
<1>7. SweepOK'
  BY <1>1, <1>2 DEF IInv, SweepOK
<1>8. StampOK'
  BY <1>1, <1>2, TeardownRests DEF IInv, StampOK
<1>9. PhaseOK'
  BY <1>1, <1>4, <1>5, NilIsNone DEF IInv, PhaseOK, Fine
<1>10. FineOK'
  BY <1>1, <1>2, <1>4, <1>5 DEF IInv, FineOK, Fine, AheadPcs, EarlyPcs, EndPcs, environmentEstablished
<1>11. StreamsOK'
  BY <1>3 DEF IInv, StreamsOK
<1>12. ExitOK'
  BY <1>1, <1>4 DEF IInv, ExitOK
<1> QED BY <1>6, <1>7, <1>8, <1>9, <1>10, <1>11, <1>12 DEF IInv

------------------------------------------------------------------------------
(* The teardown.                                                           *)

(* An object under this run's stamp is ours; what is theirs is not deleted *)
(* and what is not there carries nothing.                                  *)
LEMMA ObjectsAre ==
    ASSUME NEW o \in Objects
    PROVE  /\ o.uid \in {"none", "ours", "theirs"} /\ o.stamped \in BOOLEAN /\ o.terminating \in BOOLEAN
           /\ o.stamped => o.uid = "ours"
           /\ o.uid = "theirs" => ~o.terminating
           /\ o # Nothing => o.uid # "none"
<1>1. CASE o = Nothing
  BY <1>1 DEF Nothing
<1>2. CASE o = Theirs
  BY <1>2 DEF Theirs
<1>3. CASE o \in [uid : {"ours"}, stamped : BOOLEAN, terminating : BOOLEAN]
  BY <1>3
<1> QED BY <1>1, <1>2, <1>3 DEF Objects

(* A recovery that settles a target found nothing of this run there.       *)
LEMMA RecoveredIsTrue ==
    ASSUME NEW t \in Targets, object[t] \in Objects, NEW fails \in BOOLEAN
    PROVE  /\ Recovered(t, fails) \in Observations
           /\ phaseTargetSettled(Recovered(t, fails)) => ~object[t].stamped
<1> DEFINE o == object[t]
<1>1. /\ o.uid \in {"none", "ours", "theirs"} /\ o.stamped \in BOOLEAN /\ o.terminating \in BOOLEAN
      /\ o.stamped => o.uid = "ours"
  BY ObjectsAre
<1>2. CASE fails
  <2>1. Recovered(t, fails) = [Unread EXCEPT !.err = TRUE]
    BY <1>2 DEF Recovered
  <2>2. [Unread EXCEPT !.err = TRUE] \in Observations /\ [Unread EXCEPT !.err = TRUE].err
    BY DEF Unread, Observations
  <2> QED BY <2>1, <2>2 DEF phaseTargetSettled, classifyAbsence
<1>3. CASE ~fails /\ o = Nothing
  <2>1. Recovered(t, fails) = Unread
    BY <1>3 DEF Recovered
  <2>2. Unread \in Observations /\ Nothing.stamped = FALSE
    BY DEF Unread, Observations, Nothing
  <2> QED BY <1>3, <2>1, <2>2
<1>4. CASE ~fails /\ o # Nothing /\ ~o.stamped
  <2>1. Recovered(t, fails) = [Unread EXCEPT !.found = TRUE, !.uid = o.uid, !.foreign = TRUE]
    BY <1>4 DEF Recovered
  <2>2. [Unread EXCEPT !.found = TRUE, !.uid = o.uid, !.foreign = TRUE] \in Observations
    BY <1>1 DEF Unread, Observations
  <2> QED BY <1>4, <2>1, <2>2
<1>5. CASE ~fails /\ o # Nothing /\ o.stamped
  <2> DEFINE r == [Unread EXCEPT !.found = TRUE, !.uid = o.uid, !.wantUID = o.uid,
                                 !.terminating = o.terminating]
  <2>1. Recovered(t, fails) = r
    BY <1>5 DEF Recovered
  <2>2. o.uid = "ours"
    BY <1>1, <1>5
  <2>3. r \in Observations /\ r.err = FALSE /\ r.found = TRUE /\ r.foreign = FALSE
        /\ r.uid = "ours" /\ r.wantUID = "ours"
    BY <1>1, <2>2 DEF Unread, Observations
  <2> HIDE DEF r
  <2>4. ~phaseTargetSettled(r)
    BY <2>3 DEF phaseTargetSettled, classifyAbsence
  <2> QED BY <2>1, <2>3, <2>4
<1> QED BY <1>1, <1>2, <1>3, <1>4, <1>5

(* So does a later reading, which goes by the UID that was recovered.      *)
LEMMA ObservedIsTrue ==
    ASSUME NEW t \in Targets, object[t] \in Objects, latest[t] \in Observations, NEW fails \in BOOLEAN
    PROVE  /\ observeTarget(t, fails) \in Observations
           /\ phaseTargetSettled(observeTarget(t, fails)) => ~object[t].stamped
<1> DEFINE o == object[t]
<1>1. /\ o.uid \in {"none", "ours", "theirs"} /\ o.stamped \in BOOLEAN /\ o.terminating \in BOOLEAN
      /\ o.stamped => o.uid = "ours" /\ o # Nothing
  BY ObjectsAre DEF Nothing
<1>2. PICK want \in {"none", "ours"} : want = latest[t].wantUID
  BY DEF Observations
<1>3. CASE fails
  <2> DEFINE r == [Unread EXCEPT !.err = TRUE, !.wantUID = want]
  <2>1. observeTarget(t, fails) = r
    BY <1>2, <1>3 DEF observeTarget
  <2>2. r \in Observations /\ r.err = TRUE
    BY DEF Unread, Observations
  <2> HIDE DEF r
  <2> QED BY <2>1, <2>2 DEF phaseTargetSettled, classifyAbsence
<1>4. CASE ~fails
  <2>1. PICK found \in BOOLEAN : found = (o # Nothing)
    OBVIOUS
  <2> DEFINE r == [Unread EXCEPT !.found = found, !.uid = o.uid, !.wantUID = want,
                                 !.terminating = o.terminating]
  <2>2. observeTarget(t, fails) = r
    BY <1>2, <1>4, <2>1 DEF observeTarget
  <2>3. r \in Observations /\ r.err = FALSE /\ r.found = found /\ r.foreign = FALSE
        /\ r.uid = o.uid /\ r.wantUID = want
    BY <1>1 DEF Unread, Observations
  <2> HIDE DEF r
  <2>4. ASSUME o.stamped PROVE ~phaseTargetSettled(r)
    <3>1. found = TRUE /\ o.uid = "ours"
      BY <1>1, <2>1, <2>4
    <3> QED BY <2>3, <3>1 DEF phaseTargetSettled, classifyAbsence
  <2> QED BY <2>2, <2>3, <2>4
<1> QED BY <1>3, <1>4

(* A step of the teardown keeps the invariant when it creates nothing of   *)
(* ours and what it has settled is true.                                   *)
TearsDown ==
    /\ object' \in [Targets -> Objects]
    /\ \A t \in Targets : /\ object'[t].uid = "ours" => object[t].uid = "ours"
                          /\ object'[t].uid = "ours" => object'[t].stamped = object[t].stamped
    /\ latest' \in [Targets -> Observations]
    /\ sweep' = sweep \/ sweep' \in [phase : 1..Len(Phases), step : SweepSteps]
    /\ \A t \in Targets : Seen(t)' /\ phaseTargetSettled(latest'[t]) => ~object'[t].stamped

LEMMA TearsDownKeeps ==
    ASSUME IInv, pc = "teardown", UNCHANGED <<rvars, cvars, setupAt>>, TearsDown PROVE IInv'
<1>1. /\ pc' = pc /\ disposition' = disposition /\ worker' = worker /\ win' = win /\ open' = open
      /\ qual' = qual /\ obs' = obs /\ judged' = judged /\ left' = left /\ record' = record
      /\ written' = written /\ exit' = exit
  BY DEF rvars
<1>2. stream' = stream /\ invalid' = invalid
  BY DEF cvars
<1>3. /\ sweep'.step # "idle" => sweep'.phase \in 1..3
      /\ sweep' \in [phase : 0..Len(Phases), step : SweepSteps]
  <2>1. CASE sweep' = sweep
    BY <2>1, PhasesAre DEF IInv, TypeOK, SweepOK
  <2>2. CASE sweep' \in [phase : 1..Len(Phases), step : SweepSteps]
    BY <2>2, PhasesAre
  <2> QED BY <2>1, <2>2 DEF TearsDown
<1>4. TypeOK'
  BY <1>1, <1>2, <1>3 DEF IInv, TypeOK, TearsDown
<1>5. SweepOK'
  BY <1>1, <1>3, PhasesAre DEF SweepOK
<1>6. StampOK'
  <2>1. worker # "released"
    BY DEF IInv, PhaseOK, EndPcs
  <2> QED BY <1>1, <2>1 DEF StampOK, TearsDown, EarlyPcs, EndPcs
<1>7. PhaseOK'
  BY <1>1 DEF IInv, PhaseOK, Fine
<1>8. FineOK'
  BY <1>1 DEF IInv, FineOK, Fine, Evidence, environmentEstablished, TearsDown
<1>9. StreamsOK'
  BY <1>2 DEF IInv, StreamsOK
<1>10. ExitOK'
  BY <1>1 DEF IInv, ExitOK
<1> QED BY <1>4, <1>5, <1>6, <1>7, <1>8, <1>9, <1>10 DEF IInv

LEMMA BeginTeardownTears ==
    ASSUME IInv, BeginTeardown PROVE TearsDown
<1>1. /\ object' = object /\ latest' = latest /\ sweep' = [phase |-> 1, step |-> "recover"]
  BY DEF BeginTeardown
<1>2. \A t \in Targets : ~Seen(t)'
  BY <1>1 DEF Seen
<1> QED BY <1>1, <1>2, PhasesAre DEF TearsDown, IInv, TypeOK, SweepSteps

LEMMA RecoverTears ==
    ASSUME IInv, recoverTargets PROVE TearsDown
<1>1. sweep.step = "recover" /\ object' = object
  BY DEF recoverTargets
<1>2. PICK i \in 1..3 : i = sweep.phase
  BY <1>1, PhasesAre DEF IInv, SweepOK
<1> DEFINE p == Phases[i]
<1>3. p \in Targets
  BY <1>2, PhasesAre
<1>4. PICK fails \in BOOLEAN : latest' = [latest EXCEPT ![p] = Recovered(p, fails)]
  BY <1>2 DEF recoverTargets
<1>5. /\ object \in [Targets -> Objects] /\ latest \in [Targets -> Observations]
      /\ sweep \in [phase : 0..3, step : SweepSteps]
  BY PhasesAre DEF IInv, TypeOK
<1>6. /\ Recovered(p, fails) \in Observations
      /\ phaseTargetSettled(Recovered(p, fails)) => ~object[p].stamped
  BY <1>3, <1>5, RecoveredIsTrue
<1>7. latest' \in [Targets -> Observations]
  BY <1>4, <1>5, <1>6
<1>8. sweep' = IF i < 3 THEN [sweep EXCEPT !.phase = i + 1] ELSE [phase |-> 1, step |-> "delete"]
  BY <1>2, PhasesAre DEF recoverTargets
<1>9. sweep' \in [phase : 1..3, step : SweepSteps]
  <2>1. CASE i < 3
    <3>1. PICK j \in 1..3 : j = i + 1
      BY <2>1
    <3> QED BY <1>5, <1>8, <2>1, <3>1
  <2>2. CASE ~(i < 3)
    BY <1>8, <2>2 DEF SweepSteps
  <2> QED BY <2>1, <2>2
<1>10. ASSUME NEW t \in Targets, Seen(t)', t # p PROVE Seen(t)
  <2>1. CASE i < 3
    <3>1. sweep'.step = "recover" /\ sweep'.phase = i + 1
      BY <1>1, <1>5, <1>8, <2>1
    <3>2. PICK j \in 1..((i + 1) - 1) : t = Phases[j]
      BY <1>10, <3>1 DEF Seen
    <3>3. j \in 1..(i - 1)
      BY <1>10, <3>2
    <3> QED BY <1>1, <1>2, <3>2, <3>3 DEF Seen
  <2>2. CASE ~(i < 3)
    <3>1. i = 3 /\ t \in {Phases[1], Phases[2]}
      BY <1>10, <2>2, PhasesAre
    <3>2. 1 \in 1..(i - 1) /\ 2 \in 1..(i - 1)
      BY <3>1
    <3> QED BY <1>1, <1>2, <3>1, <3>2 DEF Seen
  <2> QED BY <2>1, <2>2
<1>11. ASSUME NEW t \in Targets, Seen(t)', phaseTargetSettled(latest'[t]) PROVE ~object'[t].stamped
  <2>1. CASE t = p
    BY <1>1, <1>4, <1>5, <1>6, <1>11, <2>1
  <2>2. CASE t # p
    <3>1. Seen(t) /\ latest'[t] = latest[t]
      BY <1>4, <1>5, <1>10, <1>11, <2>2
    <3> QED BY <1>1, <1>11, <3>1 DEF IInv, StampOK
  <2> QED BY <2>1, <2>2
<1> QED BY <1>1, <1>5, <1>7, <1>9, <1>11, PhasesAre DEF TearsDown

(* While the sweep moves on among its settling steps everything is seen.   *)
LEMMA SweepingSees ==
    ASSUME IInv, NEW t \in Targets, NEW step \in {"delete", "observe", "decide"}, Sweeping(t, step)
    PROVE  /\ sweep.phase \in 1..3 /\ sweep.step = step
           /\ \A u \in Targets : Seen(u)
           /\ \A u \in Targets : phaseTargetSettled(latest[u]) => ~object[u].stamped
<1>1. sweep.step = step
  BY DEF Sweeping
<1>2. sweep.phase \in 1..3
  BY <1>1, PhasesAre DEF IInv, SweepOK
<1>3. \A u \in Targets : Seen(u)
  BY <1>1 DEF Seen
<1> QED BY <1>1, <1>2, <1>3 DEF IInv, StampOK

LEMMA DeleteTears ==
    ASSUME IInv, NEW t \in Targets, settleDelete(t) PROVE TearsDown
<1>1. Sweeping(t, "delete") /\ latest' = latest /\ sweep' = [sweep EXCEPT !.step = "observe"]
  BY DEF settleDelete
<1>2. object' \in {object, deleteTarget(t)}
  BY DEF settleDelete
<1>3. /\ object \in [Targets -> Objects] /\ latest \in [Targets -> Observations]
      /\ sweep \in [phase : 0..3, step : SweepSteps]
  BY PhasesAre DEF IInv, TypeOK
<1>4. sweep.phase \in 1..3 /\ \A u \in Targets : phaseTargetSettled(latest[u]) => ~object[u].stamped
  BY <1>1, SweepingSees
<1>5. sweep' \in [phase : 1..3, step : SweepSteps]
  BY <1>1, <1>3, <1>4 DEF SweepSteps
<1>6. CASE object' = object
  BY <1>1, <1>3, <1>4, <1>5, <1>6, PhasesAre DEF TearsDown
<1>7. CASE object' = [object EXCEPT ![t].terminating = TRUE] /\ object[t] # Nothing
           /\ object[t].uid = latest[t].wantUID
  <2>1. object[t].uid = "ours"
    BY <1>3, <1>7, ObjectsAre DEF Observations
  <2>2. object[t] \in [uid : {"ours"}, stamped : BOOLEAN, terminating : BOOLEAN]
    BY <1>3, <2>1 DEF Objects, Nothing, Theirs
  <2>3. object'[t] \in Objects /\ object'[t].uid = object[t].uid /\ object'[t].stamped = object[t].stamped
    BY <1>3, <1>7, <2>2 DEF Objects
  <2>4. \A u \in Targets : u # t => object'[u] = object[u]
    BY <1>3, <1>7
  <2>5. object' \in [Targets -> Objects]
    BY <1>3, <1>7, <2>3, <2>4
  <2> QED BY <1>1, <1>3, <1>4, <1>5, <2>3, <2>4, <2>5, PhasesAre DEF TearsDown
<1> QED BY <1>2, <1>6, <1>7 DEF deleteTarget

LEMMA ObserveTears ==
    ASSUME IInv, NEW t \in Targets, settleObserve(t) PROVE TearsDown
<1>1. Sweeping(t, "observe") /\ object' = object /\ sweep' = [sweep EXCEPT !.step = "decide"]
  BY DEF settleObserve
<1>2. \/ latest' = latest
      \/ \E fails \in BOOLEAN : latest' = [latest EXCEPT ![t] = observeTarget(t, fails)]
  BY DEF settleObserve
<1>3. /\ object \in [Targets -> Objects] /\ latest \in [Targets -> Observations]
      /\ sweep \in [phase : 0..3, step : SweepSteps]
  BY PhasesAre DEF IInv, TypeOK
<1>4. sweep.phase \in 1..3 /\ \A u \in Targets : phaseTargetSettled(latest[u]) => ~object[u].stamped
  BY <1>1, SweepingSees
<1>5. sweep' \in [phase : 1..3, step : SweepSteps]
  BY <1>1, <1>3, <1>4 DEF SweepSteps
<1>6. CASE latest' = latest
  BY <1>1, <1>3, <1>4, <1>5, <1>6, PhasesAre DEF TearsDown
<1>7. ASSUME NEW fails \in BOOLEAN, latest' = [latest EXCEPT ![t] = observeTarget(t, fails)]
      PROVE  TearsDown
  <2>1. /\ observeTarget(t, fails) \in Observations
        /\ phaseTargetSettled(observeTarget(t, fails)) => ~object[t].stamped
    BY <1>3, ObservedIsTrue
  <2>2. latest' \in [Targets -> Observations]
    BY <1>3, <1>7, <2>1
  <2>3. \A u \in Targets : phaseTargetSettled(latest'[u]) => ~object[u].stamped
    BY <1>3, <1>4, <1>7, <2>1
  <2> QED BY <1>1, <1>3, <1>5, <2>2, <2>3, PhasesAre DEF TearsDown
<1> QED BY <1>2, <1>6, <1>7

LEMMA DecideTears ==
    ASSUME IInv, NEW t \in Targets, settleDecide(t) PROVE TearsDown
<1>1. Sweeping(t, "decide") /\ object' = object /\ latest' = latest
  BY DEF settleDecide
<1>2. /\ object \in [Targets -> Objects] /\ latest \in [Targets -> Observations]
      /\ sweep \in [phase : 0..3, step : SweepSteps]
  BY PhasesAre DEF IInv, TypeOK
<1>3. PICK i \in 1..3 : i = sweep.phase
  BY <1>1, SweepingSees
<1>4. \A u \in Targets : phaseTargetSettled(latest[u]) => ~object[u].stamped
  BY <1>1, SweepingSees
<1>5. \/ i < 3 /\ sweep' = [phase |-> i + 1, step |-> "delete"]
      \/ sweep' = [sweep EXCEPT !.step = "done"] \/ sweep' = [sweep EXCEPT !.step = "delete"]
  BY <1>3, PhasesAre DEF settleDecide
<1>6. sweep' \in [phase : 1..3, step : SweepSteps]
  <2>1. CASE i < 3 /\ sweep' = [phase |-> i + 1, step |-> "delete"]
    <3>1. PICK j \in 1..3 : j = i + 1
      BY <2>1
    <3> QED BY <2>1, <3>1 DEF SweepSteps
  <2>2. CASE sweep' = [sweep EXCEPT !.step = "done"] \/ sweep' = [sweep EXCEPT !.step = "delete"]
    BY <1>2, <1>3, <2>2 DEF SweepSteps
  <2> QED BY <1>5, <2>1, <2>2
<1> QED BY <1>1, <1>2, <1>4, <1>6, PhasesAre DEF TearsDown

(* The cluster takes objects away or gives their names to somebody else.   *)
LEMMA ClusterTears ==
    ASSUME IInv, NEW t \in Targets, Finalize(t) \/ NameTaken(t) PROVE TearsDown
<1>1. PICK o \in {Nothing, Theirs} : object' = [object EXCEPT ![t] = o]
  BY DEF Finalize, NameTaken
<1>2. latest' = latest /\ sweep' = sweep
  BY DEF Finalize, NameTaken
<1>3. object \in [Targets -> Objects] /\ latest \in [Targets -> Observations]
  BY DEF IInv, TypeOK
<1>4. o \in Objects /\ o.uid # "ours" /\ ~o.stamped
  BY DEF Objects, Nothing, Theirs
<1>5. object' \in [Targets -> Objects]
  BY <1>1, <1>3, <1>4
<1>6. \A u \in Targets : object'[u] = object[u] \/ (object'[u].uid # "ours" /\ ~object'[u].stamped)
  BY <1>1, <1>3, <1>4
<1>7. ASSUME NEW u \in Targets, Seen(u)', phaseTargetSettled(latest'[u]) PROVE ~object'[u].stamped
  <2>1. Seen(u)
    BY <1>2, <1>7 DEF Seen
  <2>2. ~object[u].stamped
    BY <1>2, <1>7, <2>1 DEF IInv, StampOK
  <2> QED BY <1>6, <2>2
<1> QED BY <1>2, <1>3, <1>5, <1>6, <1>7 DEF TearsDown

LEMMA TearingDownKeeps ==
    ASSUME IInv, tearingDown PROVE IInv'
<1>1. pc = "teardown" /\ UNCHANGED <<rvars, cvars>>
  BY DEF tearingDown
<1>2. TearsDown
  <2>1. \/ BeginTeardown \/ recoverTargets
        \/ \E t \in Targets : \/ settleDelete(t) \/ settleObserve(t) \/ settleDecide(t)
                               \/ Finalize(t) \/ NameTaken(t)
    BY DEF tearingDown, deleteTargets
  <2> QED BY <2>1, BeginTeardownTears, RecoverTears, DeleteTears, ObserveTears, DecideTears, ClusterTears
<1>3. setupAt' = setupAt
  BY DEF tearingDown, deleteTargets, BeginTeardown, recoverTargets, settleDelete, settleObserve,
         settleDecide, Finalize, NameTaken
<1> QED BY <1>1, <1>2, <1>3, TearsDownKeeps

(* The worker goes back only over what the sweep has settled.              *)
LEMMA TornDownKeeps ==
    ASSUME IInv, tearDownBeforeRelease PROVE IInv'
<1>1. /\ pc = "teardown" /\ sweep.step = "done" /\ left' = Left /\ open' = FALSE
      /\ worker' = worker /\ win' = win /\ qual' = qual /\ obs' = obs /\ judged' = judged
      /\ record' = record /\ written' = written /\ exit' = exit
  BY DEF tearDownBeforeRelease, TornDown
<1>2. /\ disposition' = IF Left = {} THEN disposition ELSE "residue-left"
      /\ pc' = IF residueHoldsWorker(latest) THEN "finish" ELSE "release"
  BY DEF tearDownBeforeRelease
<1>3. /\ object' = object /\ setupAt' = setupAt /\ latest' = latest
      /\ sweep' = [sweep EXCEPT !.step = "idle"]
  BY DEF tearDownBeforeRelease
<1>4. stream' = stream /\ invalid' = invalid
  BY DEF tearDownBeforeRelease, cvars
<1>5. sweep' \in [phase : 0..Len(Phases), step : SweepSteps] /\ sweep'.step = "idle"
  BY <1>3 DEF IInv, TypeOK, SweepSteps
<1>6. worker # "released" /\ left = {}
  BY <1>1 DEF IInv, PhaseOK, EndPcs
<1>7. ASSUME NEW t \in Targets, object[t].stamped
      PROVE  classifyAbsence(latest[t]) \notin {"absent", "foreign"}
  <2>1. Seen(t)
    BY <1>1 DEF Seen
  <2> QED BY <1>7, <2>1 DEF IInv, StampOK, phaseTargetSettled
<1>8. \A t \in Targets : object[t].stamped => t \in Left /\ residueHoldsWorker(latest)
  BY <1>7 DEF Left, residual, residueHoldsWorker
<1>9. residueHoldsWorker(latest) => Left # {}
  BY DEF Left, residueHoldsWorker
<1>10. Left \subseteq Targets
  BY DEF Left, residual
<1>11. TypeOK'
  BY <1>1, <1>2, <1>3, <1>4, <1>5, <1>10 DEF IInv, TypeOK, RunPcs
<1>12. SweepOK'
  BY <1>5 DEF SweepOK
<1>13. StampOK'
  <2>1. \A t \in Targets : ~Seen(t)'
    BY <1>5 DEF Seen
  <2> QED BY <1>1, <1>2, <1>3, <1>6, <1>8, <2>1 DEF StampOK, EarlyPcs, EndPcs
<1>14. PhaseOK'
  BY <1>1, <1>2, <1>6, UnsetIsNone DEF IInv, PhaseOK, Fine, AheadPcs, EarlyPcs, EndPcs
<1>15. FineOK'
  <2> SUFFICES ASSUME Fine' PROVE FineOK'
    BY DEF FineOK
  <2>1. Left = {} /\ disposition' = disposition /\ pc' = "release"
    BY <1>2, <1>9, UnsetIsNone DEF Fine
  <2> QED BY <1>1, <1>3, <2>1
          DEF IInv, FineOK, Fine, AheadPcs, EarlyPcs, EndPcs, Evidence, environmentEstablished
<1>16. StreamsOK'
  BY <1>4 DEF IInv, StreamsOK
<1>17. ExitOK'
  BY <1>1, <1>2 DEF IInv, ExitOK
<1> QED BY <1>11, <1>12, <1>13, <1>14, <1>15, <1>16, <1>17 DEF IInv

LEMMA ReleaseKeeps ==
    ASSUME IInv, auditedRelease PROVE IInv'
<1>1. /\ pc = "release" /\ pc' = "finish" /\ open' = open /\ qual' = qual /\ obs' = obs
      /\ judged' = judged /\ left' = left /\ record' = record /\ written' = written /\ exit' = exit
  BY DEF auditedRelease
<1>2. /\ worker' \in {"released", "ours"}
      /\ \/ disposition' = "worker-not-restored"
         \/ disposition' = disposition /\ worker' = "released"
  BY DEF auditedRelease
<1> DEFINE w == IF win = None THEN NeverOpened ELSE win
<1>3. PICK how \in {"removed", "unproven"} : win' = [w EXCEPT !.restoration = how]
  BY DEF auditedRelease
<1>4. /\ w \in Windows /\ (win # None => w = win)
      /\ (win = None => w.neverOpened)
  BY <1>3 DEF IInv, TypeOK, NeverOpened, Windows
<1>5. /\ win' \in Windows /\ win'.neverOpened = w.neverOpened
      /\ win'.versions = w.versions /\ win'.violations = w.violations
  BY <1>3, <1>4 DEF Windows
<1>6. /\ object' = object /\ setupAt' = setupAt /\ latest' = latest /\ sweep' = sweep
      /\ stream' = stream /\ StreamsOK' /\ SweepOK'
  BY <1>1, OwnStep DEF auditedRelease
<1>7. TypeOK'
  BY <1>1, <1>2, <1>5, <1>6 DEF IInv, TypeOK, RunPcs
<1>8. StampOK'
  BY <1>1, <1>6, TeardownRests DEF IInv, StampOK, EarlyPcs, EndPcs
<1>9. PhaseOK'
  <2>1. ~win'.neverOpened => win'.versions = 1
    BY <1>4, <1>5 DEF IInv, PhaseOK
  <2> QED BY <1>1, <1>2, <1>5, <2>1, UnsetIsNone DEF IInv, PhaseOK, Fine, AheadPcs, EarlyPcs, EndPcs
<1>10. FineOK'
  <2> SUFFICES ASSUME Fine' PROVE FineOK'
    BY DEF FineOK
  <2>1. disposition' = disposition /\ worker' = "released" /\ Fine
    BY <1>2, UnsetIsNone DEF Fine
  <2>2. /\ win \in Windows /\ ~win.neverOpened /\ win.violations = 0 /\ ~open /\ judged = Replays
        /\ obs = Evidence([k \in Kinds |-> "ended"]) /\ environmentEstablished(qual)
        /\ \A t \in Targets : object[t].uid = "ours" => object[t].stamped
    BY <1>1, <2>1 DEF IInv, FineOK, AheadPcs, EarlyPcs
  <2>3. w = win
    BY <1>4, <2>2, NilIsNone
  <2>4. ~win'.neverOpened /\ win'.violations = 0
    BY <1>5, <2>2, <2>3
  <2> QED BY <1>1, <1>5, <1>6, <2>1, <2>2, <2>4
          DEF FineOK, AheadPcs, EarlyPcs, EndPcs, Evidence, environmentEstablished
<1>11. ExitOK'
  BY <1>1 DEF IInv, ExitOK
<1> QED BY <1>6, <1>7, <1>8, <1>9, <1>10, <1>11 DEF IInv

LEMMA FinishKeeps ==
    ASSUME IInv, finish PROVE IInv'
<1>1. /\ pc = "finish" /\ pc' = "report" /\ worker' = worker /\ win' = win /\ open' = open
      /\ qual' = qual /\ obs' = obs /\ judged' = judged /\ left' = left /\ record' = record
      /\ written' = written /\ exit' = exit
  BY DEF finish
<1>2. disposition' = IF disposition = Unset THEN "passed" ELSE disposition
  BY DEF finish
<1>3. /\ object' = object /\ setupAt' = setupAt /\ latest' = latest /\ sweep' = sweep
      /\ stream' = stream /\ StreamsOK' /\ SweepOK'
  BY <1>1, OwnStep DEF finish
<1>4. Fine' <=> Fine
  BY <1>2 DEF Fine
<1>5. TypeOK'
  BY <1>1, <1>3 DEF IInv, TypeOK, RunPcs
<1>6. StampOK'
  BY <1>1, <1>3, TeardownRests DEF IInv, StampOK, EarlyPcs, EndPcs
<1>7. PhaseOK'
  BY <1>1, <1>4 DEF IInv, PhaseOK, AheadPcs, EarlyPcs, EndPcs
<1>8. FineOK'
  BY <1>1, <1>3, <1>4
  DEF IInv, FineOK, AheadPcs, EarlyPcs, EndPcs, Evidence, environmentEstablished
<1>9. ExitOK'
  BY <1>1 DEF IInv, ExitOK
<1> QED BY <1>3, <1>5, <1>6, <1>7, <1>8, <1>9 DEF IInv

LEMMA ReportKeeps ==
    ASSUME IInv, report PROVE IInv'
<1>1. /\ pc = "report" /\ pc' = "exited" /\ disposition' = disposition /\ worker' = worker
      /\ win' = win /\ open' = open /\ qual' = qual /\ obs' = obs /\ judged' = judged /\ left' = left
  BY DEF report
<1>2. /\ object' = object /\ setupAt' = setupAt /\ latest' = latest /\ sweep' = sweep
      /\ stream' = stream /\ StreamsOK' /\ SweepOK'
  BY <1>1, OwnStep DEF report
<1>3. TypeOK'
  BY <1>1, <1>2 DEF IInv, TypeOK, RunPcs
<1>4. StampOK'
  BY <1>1, <1>2, TeardownRests DEF IInv, StampOK, EarlyPcs, EndPcs
<1>5. PhaseOK'
  BY <1>1 DEF IInv, PhaseOK, Fine, AheadPcs, EarlyPcs, EndPcs
<1>6. FineOK'
  BY <1>1, <1>2
  DEF IInv, FineOK, Fine, AheadPcs, EarlyPcs, EndPcs, Evidence, environmentEstablished
<1>7. \E preview, stored \in BOOLEAN :
         /\ record' = buildRecord(disposition', left', qual', win', obs',
                                  IF disposition' = "passed" THEN judged' ELSE None, preview)
         /\ written' = stored /\ exit' = reportRun(record', stored)
  BY <1>1 DEF report
<1>8. ExitOK'
  BY <1>1, <1>7 DEF ExitOK
<1> QED BY <1>2, <1>3, <1>4, <1>5, <1>6, <1>8 DEF IInv

(* So the invariant holds in every state of a lab run.                     *)
LEMMA IInvHolds == Spec => []IInv
<1>1. Init => IInv
  BY InitEstablishes
<1>2. IInv /\ CInv /\ [Next]_vars => IInv'
  <2> SUFFICES ASSUME IInv, CInv, [Next]_vars PROVE IInv'
    OBVIOUS
  <2>1. CASE UNCHANGED vars
    <3>1. UNCHANGED <<cvars, tvars, rvars>>
      BY <2>1 DEF vars
    <3> QED BY <3>1, FrameKeeps
  <2>2. CASE canaryRuns
    <3>1. UNCHANGED <<cvars, tvars, rvars>>
      BY <2>2 DEF canaryRuns
    <3> QED BY <3>1, FrameKeeps
  <2>3. CASE Interrupted \/ SubmitFails
    BY <2>3, GivesUpKeeps
  <2> QED BY <2>1, <2>2, <2>3, ConnectKeeps, AcquireKeeps, SentinelKeeps, QualifyKeeps, SetUpKeeps,
             CollectorStartKeeps, ObservingKeeps, JudgeKeeps, DivergesKeeps, TearingDownKeeps,
             TornDownKeeps, ReleaseKeeps, FinishKeeps, ReportKeeps DEF Next
<1> QED BY <1>1, <1>2, CInvHolds, PTL DEF Spec

------------------------------------------------------------------------------
(* What follows from the invariant.                                        *)

(* The run's program counter, its window, its objects, what its teardown   *)
(* observed and its streams stay within their sets.                        *)
THEOREM RunTypeCorrect == Spec => []TypeOK
<1>1. IInv => TypeOK
  BY DEF IInv
<1> QED BY <1>1, IInvHolds, PTL

(* No object that somebody else created is ever deleted by a run, however  *)
(* names change hands while the teardown recovers, deletes and re-reads    *)
(* (deleteTarget's UID precondition).                                      *)
THEOREM ForeignStaysUntouched == Spec => []ForeignUntouched
<1>1. IInv => ForeignUntouched
  BY ObjectsAre DEF IInv, TypeOK, ForeignUntouched
<1> QED BY <1>1, IInvHolds, PTL

(* A worker is given back only over a cluster that holds nothing under the *)
(* run's stamp, and a finished run names what it left and does not pass    *)
(* (tearDownBeforeRelease, residueHoldsWorker).                            *)
THEOREM ReleasedWorkersAreEmpty == Spec => []ReleasedMeansEmpty
<1>1. IInv => ReleasedMeansEmpty
  BY DEF IInv, StampOK, PhaseOK, Fine, EndPcs, ReleasedMeansEmpty
<1> QED BY <1>1, IInvHolds, PTL

(* A judged ledger reconstructs.                                           *)
LEMMA JudgedReconstructs ==
    ASSUME IInv, Judging
    PROVE  /\ ~invalid /\ ~ReconstructRefuses(ledger, Rows, horizon)
           /\ AssertCardinality(arm, Reconstruct(ledger, Rows, horizon))
<1>1. pc = "observe" /\ Verdict = Unset
  BY DEF Judging
<1>2. disposition = Unset
  BY <1>1 DEF IInv, PhaseOK, AheadPcs
<1>3. win \in Windows
  BY <1>1, <1>2 DEF IInv, FineOK, Fine
<1>4. win.violations \in Nat
  BY <1>3 DEF Windows
<1> QED BY <1>1, <1>4, VerdictStands

(* Waste and what cannot be attributed are parts of the occupancy the row  *)
(* is seen to have had, and none of them is negative, whatever the order   *)
(* in which a completion, a Ready and a stop were seen (chargeWaste,       *)
(* occupancyEnd, WorkloadOutcome).                                         *)
THEOREM ChargesStayWithin == Spec => []ChargesWithinOccupancy
<1>1. IInv /\ CInv => ChargesWithinOccupancy
  <2> SUFFICES ASSUME IInv, CInv, Judging, NEW r \in Rows
               PROVE  LET o == WorkloadOutcome(ledger, r, horizon)
                      IN /\ 0 <= o.wasted /\ o.wasted <= o.lowerBound /\ 0 <= o.unattributed
                         /\ o.lowerBound + o.unattributed <= o.occupancy
    BY DEF ChargesWithinOccupancy
  <2>1. ~ReconstructRefuses(ledger, Rows, horizon)
    BY JudgedReconstructs
  <2> QED BY <2>1, RowAddsUp
<1> QED BY <1>1, IInvHolds, CInvHolds, PTL

(* A preemption is charged to the attempt it stopped: when the evicted Pod *)
(* had been Ready and is the row's first, the attempt paired with it is    *)
(* that Pod, wasted only if it failed and ineffective only if it           *)
(* succeeded, in whatever order the watches delivered                      *)
(* (pairPreemptionsToAttempts, chargeWaste).                               *)
THEOREM ChargesAreRight == Spec => []ChargesAreTrue
<1>1. IInv /\ CInv /\ DInv => ChargesAreTrue
  <2> SUFFICES ASSUME IInv, CInv, DInv, Judging, struck = {Pod(VictimRow, 1)},
                      \E j \in DOMAIN happened : /\ happened[j].uid = Pod(VictimRow, 1)
                                                 /\ happened[j].type = "PodReady",
                      NEW paired, paired = WorkloadOutcome(ledger, VictimRow, horizon).paired,
                      NEW i \in DOMAIN paired,
                      NEW book, book = chargeWaste(ledger, VictimRow, paired[i], horizon)
               PROVE  /\ paired[i].uid \in struck
                      /\ book \in {"wasted", "censored"} => Ends(happened, Pod(VictimRow, 1)) = {"Failed"}
                      /\ book = "ineffective" => Ends(happened, Pod(VictimRow, 1)) = {"Succeeded"}
    BY Zenon DEF ChargesAreTrue, Ends
  <2>1. ~invalid /\ ~ReconstructRefuses(ledger, Rows, horizon)
        /\ AssertCardinality(arm, Reconstruct(ledger, Rows, horizon))
    BY JudgedReconstructs
  <2> QED BY Zenon, <2>1, ChargesTell
<1> QED BY <1>1, IInvHolds, CInvHolds, DInvHolds, PTL

(* A record that buildRecord makes has the fields it was given.            *)
LEMMA RecordFields ==
    ASSUME NEW o, NEW l, NEW q, NEW w, NEW ob, NEW m, NEW preview \in BOOLEAN
    PROVE  LET r == buildRecord(o, l, q, w, ob, m, preview)
           IN /\ r.disposition = classified(o) /\ r.left = l /\ r.qual = q /\ r.win = w /\ r.obs = ob
              /\ r.measurement = (IF preview THEN None ELSE m) /\ r.preview = preview
              /\ r.validity = deriveValidity(classified(o), l, q, w, ob, preview)
BY DEF buildRecord

(* A verdict agrees with the claims it is derived from.                    *)
LEMMA VerdictAgrees ==
    ASSUME NEW o, NEW l, NEW q, NEW w, NEW ob
    PROVE  LET v == deriveValidity(o, l, q, w, ob, FALSE)
           IN /\ v.verdict = "refused" => v.failures # {}
              /\ v.verdict = "admissible" => v.failures = {}
              /\ v.failures = {} => v.verdict = "admissible"
<1> DEFINE F == {f \in {"incomplete", "observation", "environment", "exclusivity", "containment"} :
                   CASE f = "incomplete"  -> o # "passed"
                     [] f = "observation" -> ~observationContinuous(ob)
                     [] f = "environment" -> ~environmentEstablished(q)
                     [] f = "exclusivity" -> ~exclusivityHeld(w)
                     [] f = "containment" -> ~clusterRestored(l, w)}
           V == CASE FALSE -> "preview"
                  [] ~FALSE /\ F # {} -> "refused"
                  [] OTHER -> "admissible"
<1>1. deriveValidity(o, l, q, w, ob, FALSE) = [failures |-> F, verdict |-> V]
  BY DEF deriveValidity
<1>2. /\ deriveValidity(o, l, q, w, ob, FALSE).failures = F
      /\ deriveValidity(o, l, q, w, ob, FALSE).verdict = V
  <2>1. PICK d : d = deriveValidity(o, l, q, w, ob, FALSE)
    OBVIOUS
  <2>2. PICK f, v : f = F /\ v = V
    OBVIOUS
  <2>3. d = [failures |-> f, verdict |-> v]
    BY <1>1, <2>1, <2>2
  <2>4. d.failures = f /\ d.verdict = v
    BY <2>3
  <2> QED BY <2>1, <2>2, <2>4, Zenon
<1>3. V = IF F # {} THEN "refused" ELSE "admissible"
  <2> HIDE DEF F
  <2> QED OBVIOUS
<1> HIDE DEF F, V
<1> QED BY <1>2, <1>3

(* A claim that fails is a failure of the verdict, and no other is.        *)
LEMMA FailuresAre ==
    ASSUME NEW o, NEW l, NEW q, NEW w, NEW ob
    PROVE  deriveValidity(o, l, q, w, ob, FALSE).failures = {} <=>
             /\ o = "passed" /\ observationContinuous(ob) /\ environmentEstablished(q)
             /\ exclusivityHeld(w) /\ clusterRestored(l, w)
<1> DEFINE claim(f) == CASE f = "incomplete"  -> o # "passed"
                         [] f = "observation" -> ~observationContinuous(ob)
                         [] f = "environment" -> ~environmentEstablished(q)
                         [] f = "exclusivity" -> ~exclusivityHeld(w)
                         [] f = "containment" -> ~clusterRestored(l, w)
           F == {f \in {"incomplete", "observation", "environment", "exclusivity", "containment"} : claim(f)}
<1>1. deriveValidity(o, l, q, w, ob, FALSE).failures = F
  BY DEF deriveValidity
<1>2. /\ claim("incomplete") <=> o # "passed"
      /\ claim("observation") <=> ~observationContinuous(ob)
      /\ claim("environment") <=> ~environmentEstablished(q)
      /\ claim("exclusivity") <=> ~exclusivityHeld(w)
      /\ claim("containment") <=> ~clusterRestored(l, w)
  OBVIOUS
<1> HIDE DEF claim
<1>3. F = {} <=> /\ ~claim("incomplete") /\ ~claim("observation") /\ ~claim("environment")
                 /\ ~claim("exclusivity") /\ ~claim("containment")
  OBVIOUS
<1> QED BY <1>1, <1>2, <1>3

(* The record of every run reads back by the rules it was written under,   *)
(* except when its window never opened, and a preview's never does         *)
(* (verifyRecordReadable).                                                 *)
THEOREM RecordsReadBack == Spec => []RecordReadsBack
<1>1. IInv => RecordReadsBack
  <2> SUFFICES ASSUME IInv, pc = "exited", record.win # None => ~record.win.neverOpened
               PROVE  verifyRecordReadable(record)
    BY DEF RecordReadsBack
  <2> DEFINE m == IF disposition = "passed" THEN judged ELSE None
  <2>1. PICK preview \in BOOLEAN :
           record = buildRecord(disposition, left, qual, win, obs, m, preview)
    BY DEF IInv, ExitOK
  <2>2. m \in {None, Replays}
    BY DEF IInv, PhaseOK
  <2> HIDE DEF m
  <2>3. /\ record.disposition = classified(disposition) /\ record.left = left /\ record.qual = qual
        /\ record.win = win /\ record.obs = obs
        /\ record.measurement = (IF preview THEN None ELSE m) /\ record.preview = preview
        /\ record.validity = deriveValidity(classified(disposition), left, qual, win, obs, preview)
    BY <2>1, RecordFields
  <2>4. CASE preview
    BY <2>3, <2>4 DEF verifyRecordReadable, decodeRunRecord
  <2>5. CASE ~preview
    <3>1. preview = FALSE
      BY <2>5
    <3>2. record.win # None => record.win.versions >= 1
      BY <2>3 DEF IInv, PhaseOK
    <3>3. record.measurement # None => record.measurement.replays
      BY <2>2, <2>3, <3>1 DEF Replays
    <3>4. /\ record.validity.verdict = "refused" => record.validity.failures # {}
          /\ record.validity.verdict = "admissible" => record.validity.failures = {}
      BY ZenonT(60), <2>3, <3>1, VerdictAgrees
    <3>5. record.validity =
            deriveValidity(record.disposition, record.left, record.qual, record.win, record.obs, record.preview)
      BY <2>3
    <3>6. checkValidity(record)
      BY <3>3, <3>4, <3>5 DEF checkValidity
    <3> QED BY <2>3, <3>1, <3>2, <3>6 DEF verifyRecordReadable, decodeRunRecord
  <2> QED BY <2>4, <2>5
<1> QED BY <1>1, IInvHolds, PTL

(* A run that exits with success was whole: the machine fit, its views of  *)
(* the worker and of the namespace held, nothing is left, the worker is    *)
(* back, its measurement replays, and its record is admissible exactly     *)
(* when the restoration was seen (reportRun, deriveValidity).              *)
THEOREM SuccessesAreWhole == Spec => []SuccessIsWhole
<1>1. IInv => SuccessIsWhole
  <2> SUFFICES ASSUME IInv, exit = 0 PROVE SuccessIsWhole
    BY DEF SuccessIsWhole
  <2> DEFINE m == IF disposition = "passed" THEN judged ELSE None
  <2>1. pc = "exited"
    BY DEF IInv, ExitOK
  <2>2. PICK preview \in BOOLEAN :
           /\ record = buildRecord(disposition, left, qual, win, obs, m, preview)
           /\ exit = reportRun(record, written)
    BY <2>1 DEF IInv, ExitOK
  <2> HIDE DEF m
  <2>3. /\ record.disposition = classified(disposition)
        /\ record.preview = preview
        /\ record.validity = deriveValidity(classified(disposition), left, qual, win, obs, preview)
    BY <2>2, RecordFields
  <2>4. written /\ record.disposition = "passed"
    BY <2>2 DEF reportRun
  <2>5. disposition = "passed"
    BY <2>3, <2>4 DEF classified
  <2>6. /\ \A t \in Targets : object[t].uid = "ours" => object[t].stamped
        /\ environmentEstablished(qual)
        /\ win \in Windows /\ ~win.neverOpened
        /\ win.violations = 0 /\ judged = Replays
        /\ obs = Evidence([k \in Kinds |-> "ended"])
        /\ worker = "released"
    BY <2>1, <2>5 DEF IInv, FineOK, Fine, AheadPcs, EarlyPcs, EndPcs
  <2>7. win # None /\ judged # None
    BY <2>6, NilIsNone
  <2>8. exclusivityHeld(win)
    BY <2>6, <2>7 DEF exclusivityHeld, IInv, PhaseOK
  <2>9. \A t \in Targets : object[t].uid # "ours"
    BY <2>6 DEF IInv, StampOK
  <2>10. left = {}
    BY <2>5 DEF IInv, PhaseOK, Fine
  <2>11. /\ obs.established = TRUE /\ obs.streams = [k \in Kinds |-> "ended"]
         /\ obs # None
    <3>1. obs = [established |-> TRUE, streams |-> [k \in Kinds |-> "ended"]]
      BY <2>6 DEF Evidence
    <3>2. "established" \in DOMAIN obs /\ DOMAIN None = {"nil"}
      BY <3>1 DEF None
    <3> QED BY <3>1, <3>2
  <2>12. observationContinuous(obs) /\ \A k \in Kinds : obs.streams[k] = "ended"
    BY <2>11 DEF observationContinuous
  <2>13. clusterRestored(left, win) <=> win.restoration = "removed"
    BY <2>7, <2>10 DEF clusterRestored
  <2>14. ~preview => ((record.validity.verdict = "admissible") <=> (win.restoration = "removed"))
    <3> SUFFICES ASSUME ~preview
                 PROVE  (record.validity.verdict = "admissible") <=> (win.restoration = "removed")
      OBVIOUS
    <3>1. record.validity = deriveValidity("passed", left, qual, win, obs, FALSE)
      BY <2>3, <2>4
    <3>2. record.validity.verdict = "admissible" <=> record.validity.failures = {}
      BY <3>1, VerdictAgrees
    <3>3. record.validity.failures = {} <=> clusterRestored(left, win)
      <4>1. record.validity.failures = {} <=>
              /\ "passed" = "passed" /\ observationContinuous(obs) /\ environmentEstablished(qual)
              /\ exclusivityHeld(win) /\ clusterRestored(left, win)
        BY <3>1, FailuresAre, Zenon
      <4> QED BY <2>6, <2>8, <2>12, <4>1
    <3> QED BY <2>13, <3>2, <3>3
  <2>15. judged.replays
    BY <2>6 DEF Replays
  <2> QED BY <2>3, <2>4, <2>6, <2>7, <2>8, <2>9, <2>12, <2>14, <2>15 DEF SuccessIsWhole
<1> QED BY <1>1, IInvHolds, PTL

------------------------------------------------------------------------------
(* The termination canary.                                                 *)

CanaryAts == {"idle", "left", "key", "create", "start", "ask", "stamp", "watch", "record", "clear", "release"}

Keys  == [uid : Int, version : Versions \cup {"none"}, grace : Int, operator : Int]
Notes == [key : Keys, failed : BOOLEAN, late : BOOLEAN]
Pods  == [pod : {"none", "pending", "running", "stopped", "gone"}, grace : Int, code : {0, 1, 137, 143},
          told : Int, t0 : Int, fresh : BOOLEAN, after : Int]

CanaryType ==
    /\ machine \in [uid : Nat, version : Versions, grace : Int, operator : Int]
    /\ note \in Notes
    /\ canary \in [step : CanaryAts, at : {1, 2}, ok : BOOLEAN, held : BOOLEAN, taken : Int,
                   doc : Notes, begun : Int]
    /\ probe \in [1..2 -> Pods]
    /\ time \in Nat
    /\ changes \in Nat

(* A key is of this machine's version or of one before it.                 *)
Matches(key) == key.uid = machine.uid /\ key.version = machine.version
KeyOK(key)   == /\ key.uid <= machine.uid
                /\ key.uid = machine.uid /\ ~Matches(key) => changes >= 1

(* What a qualification without a failed claim shows of the machine it     *)
(* names.                                                                  *)
Truthful(d) == Matches(d.key) /\ ~d.failed =>
                 /\ machine.grace = terminationGraceSec
                 /\ machine.version = "contract" \/ (machine.version = "hasty" /\ d.late)

KeysOK == KeyOK(note.key) /\ KeyOK(canary.doc.key) /\ Truthful(note) /\ Truthful(canary.doc)

(* Where the process stands, its document and its clock.                   *)
StageOK ==
    /\ canary.step \notin {"create", "start", "ask", "stamp", "watch", "record"} => canary.doc.key.uid = -1
    /\ canary.step # "record" => canary.doc.failed
    /\ canary.step \in {"key", "create", "start", "ask", "stamp", "record"} => time <= MaxSkew
    /\ canary.step = "watch" => canary.begun <= MaxSkew /\ time <= canary.begun + canaryStopBudgetMax
    /\ canary.step \in {"key", "record"} => \A i \in 1..2 : probe[i] = NoProbe

ProbeOK(i) ==
    /\ probe[i].grace \in {0, machine.grace}
    /\ probe[i].t0 <= time /\ probe[i].told <= time
    /\ probe[i].after >= 0 => probe[i].pod \in {"stopped", "gone"}
    /\ canary.step \in {"create", "start"} => probe[i].told = -1
    /\ canary.step \in {"create", "start", "ask", "stamp"} => probe[i].after = -1
    /\ canary.step \in {"ask", "stamp", "watch"} => probe[i].pod \notin {"none", "pending"}
    /\ canary.step = "watch" => probe[i].t0 >= 0

ProbesOK ==
    /\ \A i \in 1..2 : ProbeOK(i)
    /\ canary.step = "start" /\ canary.at = 2 /\ canary.ok => probe[1].pod \notin {"none", "pending"}
    /\ canary.step \in {"create", "start", "ask", "stamp"} => probe[2].t0 = -1
    /\ canary.step \in {"ask", "stamp"} /\ canary.at = 2 => probe[1].t0 >= 0

(* On the machine the key names, a probe stops as its version makes it.    *)
CodesOK ==
    /\ probe[1].code = honorExitCode => machine.version \in {"contract", "hasty", "stuck"}
    /\ probe[2].code = killExitCode => machine.version # "stuck"

(* On a hasty one the ignoring probe stops one unit after its delete: what *)
(* is read of it later is late, unless the honouring one is read later yet.*)
HastyOK ==
    /\ probe[2].pod = "running" /\ probe[2].told >= 0 =>
         /\ time <= probe[2].told + 1
         /\ probe[2].t0 >= 0 => probe[2].told <= probe[2].t0
    /\ probe[2].fresh /\ probe[2].after < 0 /\ probe[2].t0 >= 0 => time <= probe[2].t0 + 1
    /\ canary.step = "watch" /\ probe[1].after < 0 /\ probe[2].after < 0 => probe[1].t0 <= probe[2].t0
    /\ canary.step = "watch" /\ probe[2].code = killExitCode /\ probe[2].after >= canarySurvivesAtLeast =>
         /\ probe[1].after < 0 => time >= probe[1].t0 + canarySurvivesAtLeast
         /\ probe[1].after >= 0 /\ probe[1].after <= canaryPromptWithin => canary.doc.late

MatchOK == Matches(canary.doc.key) => CodesOK /\ (machine.version = "hasty" => HastyOK)

KInv == CanaryType /\ KeysOK /\ StageOK /\ ProbesOK /\ MatchOK

(* The thresholds, in units.                                               *)
LEMMA UnitsAre ==
    /\ canaryPromptWithin = 1 /\ canarySurvivesAtLeast = 2 /\ terminationGraceSec = 3
    /\ honorExitCode = 143 /\ killExitCode = 137 /\ Never = 1000 /\ canaryStopBudgetMax = 18
    /\ Probes[1] = "honor" /\ Probes[2] = "ignore"
BY DEF canaryPromptWithin, canarySurvivesAtLeast, terminationGraceSec, honorExitCode, killExitCode, Never,
       canaryStopBudgetMax, Probes

(* The blank records.                                                      *)
LEMMA BlanksAre ==
    /\ NoNote \in Notes /\ NoNote.key.uid = -1 /\ NoNote.failed = TRUE
    /\ NoProbe \in Pods /\ NoProbe.pod = "none" /\ NoProbe.grace = 0 /\ NoProbe.code = 0
    /\ NoProbe.told = -1 /\ NoProbe.t0 = -1 /\ NoProbe.after = -1 /\ NoProbe.fresh = FALSE
    /\ AtRest.step = "idle" /\ AtRest.doc = NoNote
    /\ AtRest \in [step : CanaryAts, at : {1, 2}, ok : BOOLEAN, held : BOOLEAN, taken : Int,
                   doc : Notes, begun : Int]
<1>1. NoKey \in Keys /\ NoKey.uid = -1
  BY DEF NoKey, Keys
<1>2. NoNote \in Notes /\ NoNote.key = NoKey /\ NoNote.failed = TRUE
  BY <1>1 DEF NoNote, Notes
<1>3. /\ NoProbe \in Pods /\ NoProbe.pod = "none" /\ NoProbe.grace = 0 /\ NoProbe.code = 0
      /\ NoProbe.told = -1 /\ NoProbe.t0 = -1 /\ NoProbe.after = -1 /\ NoProbe.fresh = FALSE
  BY DEF NoProbe, Pods
<1>4. AtRest.step = "idle" /\ AtRest.doc = NoNote
  BY DEF AtRest
<1>5. AtRest \in [step : CanaryAts, at : {1, 2}, ok : BOOLEAN, held : BOOLEAN, taken : Int,
                  doc : Notes, begun : Int]
  BY <1>2 DEF AtRest, CanaryAts
<1> QED BY <1>1, <1>2, <1>3, <1>4, <1>5

(* While the key names the machine as it is, the clock is far from Never.  *)
LEMMA ClockIsBounded ==
    ASSUME CanaryType, StageOK, Matches(canary.doc.key)
    PROVE  time < Never
<1>1. canary.doc.key.uid # -1
  BY DEF CanaryType, Matches
<1>2. canary.step \in {"create", "start", "ask", "stamp", "watch", "record"}
  BY <1>1 DEF StageOK
<1>3. MaxSkew \in Nat /\ MaxSkew + 18 < 1000
  BY SkewAssumption, UnitsAre
<1>4. time \in Nat /\ canary.begun \in Int
  BY DEF CanaryType
<1>5. time <= MaxSkew + 18
  <2>1. CASE canary.step = "watch"
    BY <1>3, <1>4, <2>1, UnitsAre DEF StageOK
  <2>2. CASE canary.step # "watch"
    <3>1. time <= MaxSkew
      BY <1>2, <2>2 DEF StageOK
    <3> QED BY <1>3, <1>4, <3>1
  <2> QED BY <2>1, <2>2
<1> QED BY <1>3, <1>4, <1>5, UnitsAre

(* Whatever keeps the machine, the notes and the count of changes keeps    *)
(* what the keys say.                                                      *)
LEMMA KeysRest ==
    ASSUME KeysOK, machine' = machine, note' = note, canary'.doc = canary.doc, changes' >= changes,
           changes \in Nat, changes' \in Nat
    PROVE  KeysOK'
BY DEF KeysOK, KeyOK, Matches, Truthful

(* The state after a canary is dropped, and before one was taken.          *)
LEMMA KInvAtRest ==
    ASSUME machine \in [uid : Nat, version : Versions, grace : Int, operator : Int],
           note = NoNote, canary = AtRest, probe = [i \in 1..2 |-> NoProbe], time = 0, changes = 0
    PROVE  KInv
<1>1. CanaryType
  BY BlanksAre DEF CanaryType
<1>2. machine.uid \in Nat
  OBVIOUS
<1>3. KeysOK
  BY <1>2, BlanksAre DEF KeysOK, KeyOK, Matches, Truthful
<1>4. StageOK
  BY BlanksAre DEF StageOK
<1>5. probe[1] = NoProbe /\ probe[2] = NoProbe
  OBVIOUS
<1>6. ProbesOK
  BY <1>5, BlanksAre DEF ProbesOK, ProbeOK
<1>7. MatchOK
  BY <1>2, BlanksAre DEF MatchOK, Matches
<1> QED BY <1>1, <1>3, <1>4, <1>6, <1>7 DEF KInv

------------------------------------------------------------------------------
(* The Pods.                                                               *)

LEMMA StopContainerKeeps ==
    ASSUME KInv, NEW i \in 1..2, StopContainer(i) PROVE KInv'
<1>1. machine' = machine /\ note' = note /\ canary' = canary /\ time' = time /\ changes' = changes
  BY DEF StopContainer
<1>2. /\ probe[i].pod = "running" /\ probe[i].told >= 0
      /\ probe[i].told + Outlasts(i) <= time
  BY DEF StopContainer, Due
<1>3. probe \in [1..2 -> Pods] /\ time \in Nat /\ probe[i] \in Pods
  BY DEF KInv, CanaryType
<1>4. PICK c \in {137, 143} : c = Stops(i)
  BY UnitsAre DEF Stops
<1>5. /\ probe' \in [1..2 -> Pods]
      /\ probe'[i].pod = "stopped" /\ probe'[i].code = c /\ probe'[i].told = 0 /\ probe'[i].fresh = TRUE
      /\ probe'[i].grace = probe[i].grace /\ probe'[i].t0 = probe[i].t0 /\ probe'[i].after = probe[i].after
      /\ \A j \in 1..2 : j # i => probe'[j] = probe[j]
  <2>1. PICK z \in Int : z = 0
    OBVIOUS
  <2> DEFINE r == [probe[i] EXCEPT !.pod = "stopped", !.code = c, !.told = z, !.fresh = TRUE]
  <2>2. probe' = [probe EXCEPT ![i] = r]
    BY <1>4, <2>1 DEF StopContainer
  <2>3. /\ r \in Pods /\ r.pod = "stopped" /\ r.code = c /\ r.told = z /\ r.fresh = TRUE
        /\ r.grace = probe[i].grace /\ r.t0 = probe[i].t0 /\ r.after = probe[i].after
    BY <1>3 DEF Pods
  <2> HIDE DEF r
  <2> QED BY <1>3, <2>1, <2>2, <2>3
<1>6. CanaryType'
  BY <1>1, <1>5 DEF KInv, CanaryType
<1>7. KeysOK'
  BY <1>1, <1>6, KeysRest DEF KInv, CanaryType
<1>8. StageOK'
  BY <1>1, <1>2, BlanksAre DEF KInv, StageOK
<1>9. probe[i].after < 0 /\ canary.step \notin {"create", "start"}
  BY <1>2, <1>3 DEF KInv, ProbesOK, ProbeOK, Pods
<1>10. ProbesOK'
  BY <1>1, <1>2, <1>3, <1>5, <1>9 DEF KInv, ProbesOK, ProbeOK, Pods
<1>11. MatchOK'
  <2> SUFFICES ASSUME Matches(canary.doc.key) PROVE CodesOK' /\ (machine.version = "hasty" => HastyOK')
    BY <1>1 DEF MatchOK, Matches
  <2>1. time < 1000
    BY ClockIsBounded, UnitsAre DEF KInv
  <2>2. CodesOK /\ (machine.version = "hasty" => HastyOK)
    BY DEF KInv, MatchOK
  <2>3. CodesOK'
    <3>1. CASE i = 1
      <4>1. c = 143 => machine.version \in {"contract", "hasty", "stuck"}
        BY <1>4, <3>1, UnitsAre DEF Stops, Signals
      <4> QED BY <1>1, <1>5, <2>2, <3>1, <4>1, UnitsAre DEF CodesOK
    <3>2. CASE i = 2
      <4>1. machine.version # "stuck"
        <5> SUFFICES ASSUME machine.version = "stuck" PROVE FALSE
          OBVIOUS
        <5>1. Outlasts(i) = 1000
          BY <3>2, UnitsAre DEF Outlasts
        <5> QED BY <1>2, <1>3, <2>1, <5>1 DEF Pods
      <4> QED BY <1>1, <1>5, <2>2, <3>2, <4>1 DEF CodesOK
    <3> QED BY <3>1, <3>2
  <2>4. ASSUME machine.version = "hasty" PROVE HastyOK'
    <3>1. HastyOK
      BY <2>2, <2>4
    <3>2. CASE i = 1
      BY <1>1, <1>3, <1>5, <1>9, <3>1, <3>2, UnitsAre DEF HastyOK, Pods
    <3>3. CASE i = 2
      <4>1. time <= probe[2].told + 1 /\ (probe[2].t0 >= 0 => probe[2].told <= probe[2].t0)
        BY <1>2, <3>1, <3>3 DEF HastyOK
      <4>2. probe[2].t0 >= 0 => time <= probe[2].t0 + 1
        BY <1>3, <3>3, <4>1 DEF Pods
      <4> QED BY <1>1, <1>3, <1>5, <1>9, <3>1, <3>3, <4>2, UnitsAre DEF HastyOK, Pods
    <3> QED BY <3>2, <3>3
  <2> QED BY <2>3, <2>4
<1> QED BY <1>6, <1>7, <1>8, <1>10, <1>11 DEF KInv

(* A key names the machine only while its canary is under way.             *)
LEMMA MatchStage ==
    ASSUME CanaryType, StageOK, Matches(canary.doc.key)
    PROVE  canary.step \in {"create", "start", "ask", "stamp", "watch", "record"}
<1>1. canary.doc.key.uid # -1
  BY DEF CanaryType, Matches
<1> QED BY <1>1 DEF StageOK

LEMMA StartContainerKeeps ==
    ASSUME KInv, NEW i \in 1..2, StartContainer(i) PROVE KInv'
<1>1. machine' = machine /\ note' = note /\ canary' = canary /\ time' = time /\ changes' = changes
  BY DEF StartContainer
<1>2. probe[i].pod = "pending" /\ probe' = [probe EXCEPT ![i].pod = "running"]
  BY DEF StartContainer
<1>3. probe \in [1..2 -> Pods] /\ time \in Nat /\ probe[i] \in Pods
  BY DEF KInv, CanaryType
<1>4. /\ probe' \in [1..2 -> Pods]
      /\ probe'[i].pod = "running" /\ probe'[i].code = probe[i].code /\ probe'[i].told = probe[i].told
      /\ probe'[i].fresh = probe[i].fresh /\ probe'[i].grace = probe[i].grace
      /\ probe'[i].t0 = probe[i].t0 /\ probe'[i].after = probe[i].after
      /\ \A j \in 1..2 : j # i => probe'[j] = probe[j]
  BY <1>2, <1>3 DEF Pods
<1>5. CanaryType'
  BY <1>1, <1>4 DEF KInv, CanaryType
<1>6. KeysOK'
  BY <1>1, <1>5, KeysRest DEF KInv, CanaryType
<1>7. StageOK'
  BY <1>1, <1>2, BlanksAre DEF KInv, StageOK
<1>8. probe[i].after < 0 /\ canary.step \notin {"ask", "stamp", "watch"}
  BY <1>2, <1>3 DEF KInv, ProbesOK, ProbeOK, Pods
<1>9. ProbesOK'
  BY <1>1, <1>2, <1>3, <1>4, <1>8 DEF KInv, ProbesOK, ProbeOK, Pods
<1>10. MatchOK'
  <2> SUFFICES ASSUME Matches(canary.doc.key) PROVE CodesOK' /\ (machine.version = "hasty" => HastyOK')
    BY <1>1 DEF MatchOK, Matches
  <2>1. CodesOK /\ (machine.version = "hasty" => HastyOK)
    BY DEF KInv, MatchOK
  <2>2. canary.step \in {"create", "start"}
    BY <1>2, <1>8, MatchStage, BlanksAre DEF KInv, StageOK
  <2>3. probe[i].told = -1
    BY <2>2 DEF KInv, ProbesOK, ProbeOK
  <2>4. CodesOK'
    BY <1>1, <1>4, <2>1 DEF CodesOK
  <2>5. ASSUME machine.version = "hasty" PROVE HastyOK'
    BY <1>1, <1>3, <1>4, <1>8, <2>1, <2>2, <2>3, <2>5 DEF HastyOK, Pods
  <2> QED BY <2>4, <2>5
<1> QED BY <1>5, <1>6, <1>7, <1>9, <1>10 DEF KInv

LEMMA FailContainerKeeps ==
    ASSUME KInv, NEW i \in 1..2, FailContainer(i) PROVE KInv'
<1>1. machine' = machine /\ note' = note /\ canary' = canary /\ time' = time /\ changes' = changes
  BY DEF FailContainer
<1>2. probe[i].pod \in {"pending", "running"} /\ probe[i].told < 0
  BY DEF FailContainer
<1>3. probe \in [1..2 -> Pods] /\ time \in Nat /\ probe[i] \in Pods
  BY DEF KInv, CanaryType
<1>4. /\ probe' \in [1..2 -> Pods]
      /\ probe'[i].pod = "stopped" /\ probe'[i].code = 1 /\ probe'[i].told = probe[i].told
      /\ probe'[i].fresh = probe[i].fresh /\ probe'[i].grace = probe[i].grace
      /\ probe'[i].t0 = probe[i].t0 /\ probe'[i].after = probe[i].after
      /\ \A j \in 1..2 : j # i => probe'[j] = probe[j]
  <2>1. PICK c \in {0, 1, 137, 143} : c = 1
    OBVIOUS
  <2> DEFINE r == [probe[i] EXCEPT !.pod = "stopped", !.code = c]
  <2>2. probe' = [probe EXCEPT ![i] = r]
    BY <2>1 DEF FailContainer
  <2>3. /\ r \in Pods /\ r.pod = "stopped" /\ r.code = c /\ r.told = probe[i].told
        /\ r.fresh = probe[i].fresh /\ r.grace = probe[i].grace /\ r.t0 = probe[i].t0
        /\ r.after = probe[i].after
    BY <1>3 DEF Pods
  <2> HIDE DEF r
  <2> QED BY <1>3, <2>1, <2>2, <2>3
<1>5. CanaryType'
  BY <1>1, <1>4 DEF KInv, CanaryType
<1>6. KeysOK'
  BY <1>1, <1>5, KeysRest DEF KInv, CanaryType
<1>7. StageOK'
  BY <1>1, <1>2, BlanksAre DEF KInv, StageOK
<1>8. probe[i].after < 0
  BY <1>2, <1>3 DEF KInv, ProbesOK, ProbeOK, Pods
<1>9. ProbesOK'
  BY <1>1, <1>2, <1>3, <1>4, <1>8 DEF KInv, ProbesOK, ProbeOK, Pods
<1>10. MatchOK'
  <2> SUFFICES ASSUME Matches(canary.doc.key) PROVE CodesOK' /\ (machine.version = "hasty" => HastyOK')
    BY <1>1 DEF MatchOK, Matches
  <2>1. CodesOK /\ (machine.version = "hasty" => HastyOK)
    BY DEF KInv, MatchOK
  <2>2. CodesOK'
    BY <1>1, <1>4, <2>1, UnitsAre DEF CodesOK
  <2>3. ASSUME machine.version = "hasty" PROVE HastyOK'
    BY <1>1, <1>3, <1>4, <1>8, <2>1, <2>3, UnitsAre DEF HastyOK, Pods
  <2> QED BY <2>2, <2>3
<1> QED BY <1>5, <1>6, <1>7, <1>9, <1>10 DEF KInv

LEMMA VanishKeeps ==
    ASSUME KInv, NEW i \in 1..2, Vanish(i) PROVE KInv'
<1>1. machine' = machine /\ note' = note /\ canary' = canary /\ time' = time /\ changes' = changes + 1
  BY DEF Vanish
<1>2. probe[i].pod = "stopped" /\ probe' = [probe EXCEPT ![i].pod = "gone"]
  BY DEF Vanish
<1>3. probe \in [1..2 -> Pods] /\ time \in Nat /\ probe[i] \in Pods /\ changes \in Nat
  BY DEF KInv, CanaryType
<1>4. /\ probe' \in [1..2 -> Pods]
      /\ probe'[i].pod = "gone" /\ probe'[i].code = probe[i].code /\ probe'[i].told = probe[i].told
      /\ probe'[i].fresh = probe[i].fresh /\ probe'[i].grace = probe[i].grace
      /\ probe'[i].t0 = probe[i].t0 /\ probe'[i].after = probe[i].after
      /\ \A j \in 1..2 : j # i => probe'[j] = probe[j]
  BY <1>2, <1>3 DEF Pods
<1>5. CanaryType'
  BY <1>1, <1>3, <1>4 DEF KInv, CanaryType
<1>6. KeysOK'
  BY <1>1, <1>3, <1>5, KeysRest DEF KInv, CanaryType
<1>7. StageOK'
  BY <1>1, <1>2, BlanksAre DEF KInv, StageOK
<1>8. ProbesOK'
  BY <1>1, <1>2, <1>3, <1>4 DEF KInv, ProbesOK, ProbeOK, Pods
<1>9. MatchOK'
  <2> SUFFICES ASSUME Matches(canary.doc.key) PROVE CodesOK' /\ (machine.version = "hasty" => HastyOK')
    BY <1>1 DEF MatchOK, Matches
  <2>1. CodesOK /\ (machine.version = "hasty" => HastyOK)
    BY DEF KInv, MatchOK
  <2>2. CodesOK'
    BY <1>1, <1>4, <2>1 DEF CodesOK
  <2>3. ASSUME machine.version = "hasty" PROVE HastyOK'
    BY <1>1, <1>2, <1>3, <1>4, <2>1, <2>3 DEF HastyOK, Pods
  <2> QED BY <2>2, <2>3
<1> QED BY <1>5, <1>6, <1>7, <1>8, <1>9 DEF KInv

------------------------------------------------------------------------------
(* The machine.  It changes at most once, so a version that was left is    *)
(* not met again.                                                          *)

LEMMA UpgradeKeeps ==
    ASSUME MaxChanges \in 0..1, KInv, NEW v \in Versions, Upgrade(v) PROVE KInv'
<1>1. note' = note /\ canary' = canary /\ probe' = probe /\ time' = time
  BY DEF Upgrade
<1>2. changes = 0 /\ changes' = 1
  BY DEF Upgrade, KInv, CanaryType
<1>3. v # machine.version /\ machine' = [machine EXCEPT !.version = v]
  BY DEF Upgrade
<1>4. /\ machine' \in [uid : Nat, version : Versions, grace : Int, operator : Int]
      /\ machine'.uid = machine.uid /\ machine'.version = v /\ machine'.grace = machine.grace
      /\ machine.uid \in Nat
  BY <1>3 DEF KInv, CanaryType
<1>5. CanaryType'
  BY <1>1, <1>2, <1>4 DEF KInv, CanaryType
<1>6. /\ note.key.uid <= machine.uid /\ canary.doc.key.uid <= machine.uid
      /\ note.key.uid = machine.uid => note.key.version = machine.version
      /\ canary.doc.key.uid = machine.uid => canary.doc.key.version = machine.version
  BY <1>2 DEF KInv, KeysOK, KeyOK, Matches
<1>7. ~Matches(note.key)' /\ ~Matches(canary.doc.key)'
  BY <1>1, <1>3, <1>4, <1>6 DEF Matches
<1>8. KeysOK'
  BY <1>1, <1>2, <1>4, <1>6, <1>7 DEF KeysOK, KeyOK, Truthful
<1>9. StageOK'
  BY <1>1 DEF KInv, StageOK
<1>10. ProbesOK'
  BY <1>1, <1>4 DEF KInv, ProbesOK, ProbeOK
<1>11. MatchOK'
  BY <1>7 DEF MatchOK
<1> QED BY <1>5, <1>8, <1>9, <1>10, <1>11 DEF KInv

LEMMA RollOutKeeps ==
    ASSUME KInv, RollOut PROVE KInv'
<1>1. note' = note /\ canary' = canary /\ probe' = probe /\ time' = time /\ changes' = changes + 1
  BY DEF RollOut
<1>2. machine' = [machine EXCEPT !.operator = machine.operator + 1]
  BY DEF RollOut
<1>3. /\ machine' \in [uid : Nat, version : Versions, grace : Int, operator : Int]
      /\ machine'.uid = machine.uid /\ machine'.version = machine.version /\ machine'.grace = machine.grace
  <2>1. PICK op \in Int : op = machine.operator + 1
    BY DEF KInv, CanaryType
  <2> QED BY <1>2, <2>1 DEF KInv, CanaryType
<1>4. CanaryType'
  BY <1>1, <1>3 DEF KInv, CanaryType
<1>5. KeysOK'
  BY <1>1, <1>3 DEF KInv, CanaryType, KeysOK, KeyOK, Matches, Truthful
<1>6. StageOK'
  BY <1>1 DEF KInv, StageOK
<1>7. ProbesOK'
  BY <1>1, <1>3 DEF KInv, ProbesOK, ProbeOK
<1>8. MatchOK'
  BY <1>1, <1>3 DEF KInv, MatchOK, Matches, CodesOK, HastyOK
<1> QED BY <1>4, <1>5, <1>6, <1>7, <1>8 DEF KInv

LEMMA ReplaceKeeps ==
    ASSUME KInv, Replace PROVE KInv'
<1>1. note' = NoNote /\ time' = time /\ changes' = changes + 1
  BY DEF Replace
<1>2. /\ machine' = [machine EXCEPT !.uid = machine.uid + 1] /\ canary' = [canary EXCEPT !.held = FALSE]
      /\ probe' = [i \in 1..2 |-> IF probe[i].pod = "none" THEN probe[i] ELSE [probe[i] EXCEPT !.pod = "gone"]]
  BY DEF Replace
<1>3. /\ machine' \in [uid : Nat, version : Versions, grace : Int, operator : Int]
      /\ machine'.uid = machine.uid + 1 /\ machine'.grace = machine.grace /\ machine.uid \in Nat
  <2>1. PICK u \in Nat : u = machine.uid + 1
    BY DEF KInv, CanaryType
  <2> QED BY <1>2, <2>1 DEF KInv, CanaryType
<1>4. /\ canary' \in [step : CanaryAts, at : {1, 2}, ok : BOOLEAN, held : BOOLEAN, taken : Int,
                      doc : Notes, begun : Int]
      /\ canary'.step = canary.step /\ canary'.at = canary.at /\ canary'.ok = canary.ok
      /\ canary'.doc = canary.doc /\ canary'.begun = canary.begun
  BY <1>2 DEF KInv, CanaryType
<1>5. probe \in [1..2 -> Pods]
  BY DEF KInv, CanaryType
<1>6. ASSUME NEW i \in 1..2
      PROVE  /\ probe'[i] \in Pods
             /\ probe'[i].grace = probe[i].grace /\ probe'[i].told = probe[i].told
             /\ probe'[i].t0 = probe[i].t0 /\ probe'[i].after = probe[i].after
             /\ probe[i].pod = "none" => probe'[i] = probe[i]
             /\ probe[i].pod # "none" => probe'[i].pod = "gone"
  <2>1. CASE probe[i].pod = "none"
    BY <1>2, <1>5, <2>1
  <2>2. CASE probe[i].pod # "none"
    <3>1. probe'[i] = [probe[i] EXCEPT !.pod = "gone"] /\ probe[i] \in Pods
      BY <1>2, <1>5, <2>2
    <3> QED BY <2>2, <3>1 DEF Pods
  <2> QED BY <2>1, <2>2
<1>7. probe' \in [1..2 -> Pods]
  BY <1>2, <1>6
<1>8. CanaryType'
  BY <1>1, <1>3, <1>4, <1>7, BlanksAre DEF KInv, CanaryType
<1>9. canary.doc.key.uid <= machine.uid /\ canary.doc.key.uid \in Int
  BY DEF KInv, KeysOK, KeyOK, CanaryType, Notes, Keys
<1>10. ~Matches(canary.doc.key)' /\ canary'.doc.key.uid < machine'.uid
  BY <1>3, <1>4, <1>9 DEF Matches
<1>11. ~Matches(note.key)' /\ note'.key.uid < machine'.uid
  BY <1>1, <1>3, BlanksAre DEF Matches
<1>12. KeysOK'
  <2>1. machine'.uid \in Int /\ note'.key.uid \in Int /\ canary'.doc.key.uid \in Int
    BY <1>3, <1>4, <1>1, <1>9, BlanksAre
  <2> QED BY <1>10, <1>11, <2>1 DEF KeysOK, KeyOK, Truthful
<1>13. StageOK'
  BY <1>1, <1>4, <1>6, BlanksAre DEF KInv, StageOK
<1>14. ProbesOK'
  <2>1. ASSUME NEW i \in 1..2 PROVE ProbeOK(i)'
    BY <1>1, <1>3, <1>4, <1>6 DEF KInv, ProbesOK, ProbeOK
  <2> QED BY <1>4, <1>6, <2>1 DEF KInv, ProbesOK
<1>15. MatchOK'
  BY <1>10 DEF MatchOK
<1> QED BY <1>8, <1>12, <1>13, <1>14, <1>15 DEF KInv

(* The clock moves when no Pod is due.                                     *)
LEMMA TickKeeps ==
    ASSUME KInv, NoneDue, Tick PROVE KInv'
<1>1. machine' = machine /\ note' = note /\ canary' = canary /\ time' = time + 1 /\ changes' = changes
  BY DEF Tick
<1>2. probe' = [i \in 1..2 |-> [probe[i] EXCEPT !.fresh = FALSE]]
  BY DEF Tick
<1>3. probe \in [1..2 -> Pods] /\ time \in Nat
  BY DEF KInv, CanaryType
<1>4. ASSUME NEW i \in 1..2
      PROVE  /\ probe'[i] \in Pods /\ ~probe'[i].fresh /\ probe'[i].pod = probe[i].pod
             /\ probe'[i].grace = probe[i].grace /\ probe'[i].told = probe[i].told
             /\ probe'[i].t0 = probe[i].t0 /\ probe'[i].after = probe[i].after
             /\ probe'[i].code = probe[i].code /\ probe[i] \in Pods
  <2>1. PICK p \in Pods : p = probe[i]
    BY <1>3
  <2>2. PICK b \in BOOLEAN : b = FALSE
    OBVIOUS
  <2> DEFINE r == [p EXCEPT !.fresh = b]
  <2>3. probe'[i] = r
    BY <1>2, <2>1, <2>2
  <2>4. r \in Pods
    BY DEF Pods
  <2>5. /\ r.fresh = b /\ r.pod = p.pod /\ r.grace = p.grace /\ r.told = p.told
        /\ r.t0 = p.t0 /\ r.after = p.after /\ r.code = p.code
    BY DEF Pods
  <2> HIDE DEF r
  <2> QED BY <2>1, <2>2, <2>3, <2>4, <2>5
<1>5. probe' \in [1..2 -> Pods]
  BY <1>2, <1>4
<1>6. CanaryType'
  BY <1>1, <1>3, <1>5 DEF KInv, CanaryType
<1>7. KeysOK'
  BY <1>1, <1>6, KeysRest DEF KInv, CanaryType
<1>8. Budget <= 18 /\ Budget \in Int
  <2>1. probe[1].grace \in Int
    BY <1>4 DEF Pods
  <2> QED BY <2>1, UnitsAre DEF Budget, canaryStopSlack
<1>9. StageOK'
  <2>1. canary.begun \in Int /\ MaxSkew \in Nat
    BY SkewAssumption DEF KInv, CanaryType
  <2>2. CASE canary.step \in {"ask", "stamp"} /\ time < MaxSkew
    BY <1>1, <1>3, <2>1, <2>2 DEF KInv, StageOK
  <2>3. CASE canary.step = "watch" /\ time < canary.begun + Budget
    BY <1>1, <1>3, <1>8, <2>1, <2>3, UnitsAre DEF KInv, StageOK
  <2> QED BY <2>2, <2>3 DEF Tick
<1>10. ProbesOK'
  <2>1. ASSUME NEW i \in 1..2 PROVE ProbeOK(i)'
    <3>1. probe[i].t0 \in Int /\ probe[i].told \in Int
      BY <1>4 DEF Pods
    <3> QED BY <1>1, <1>3, <1>4, <3>1 DEF KInv, ProbesOK, ProbeOK
  <2> QED BY <1>1, <1>4, <2>1 DEF KInv, ProbesOK
<1>11. MatchOK'
  <2> SUFFICES ASSUME Matches(canary.doc.key) PROVE CodesOK' /\ (machine.version = "hasty" => HastyOK')
    BY <1>1 DEF MatchOK, Matches
  <2>1. CodesOK /\ (machine.version = "hasty" => HastyOK)
    BY DEF KInv, MatchOK
  <2>2. CodesOK'
    BY <1>1, <1>4, <2>1 DEF CodesOK
  <2>3. ASSUME machine.version = "hasty" PROVE HastyOK'
    <3>1. probe[2].pod = "running" /\ probe[2].told >= 0 => ~(probe[2].told + 1 <= time)
      <4>1. Outlasts(2) = 1
        BY <2>3, UnitsAre DEF Outlasts
      <4> QED BY <4>1 DEF NoneDue, Due
    <3>2. /\ probe[1].t0 \in Int /\ probe[2].told \in Int /\ probe[2].t0 \in Int
          /\ probe[1].after \in Int /\ probe[2].after \in Int
      BY <1>4 DEF Pods
    <3>3. HastyOK
      BY <2>1, <2>3
    <3>4. probe'[2].pod = "running" /\ probe'[2].told >= 0 =>
             /\ time' <= probe'[2].told + 1
             /\ probe'[2].t0 >= 0 => probe'[2].told <= probe'[2].t0
      BY <1>1, <1>3, <1>4, <3>1, <3>2, <3>3 DEF HastyOK
    <3>5. ~probe'[2].fresh
      <4>1. 2 \in 1..2
        OBVIOUS
      <4> QED BY <1>4, <4>1, Zenon
    <3>6. canary.step = "watch" /\ probe'[1].after < 0 /\ probe'[2].after < 0 => probe'[1].t0 <= probe'[2].t0
      BY <1>4, <3>3 DEF HastyOK
    <3>7. canary.step = "watch" /\ probe'[2].code = 137 /\ probe'[2].after >= 2 =>
             /\ probe'[1].after < 0 => time' >= probe'[1].t0 + 2
             /\ probe'[1].after >= 0 /\ probe'[1].after <= 1 => canary.doc.late
      BY <1>1, <1>3, <1>4, <3>2, <3>3, UnitsAre DEF HastyOK
    <3> QED BY <1>1, <3>4, <3>5, <3>6, <3>7, UnitsAre DEF HastyOK
  <2> QED BY <2>2, <2>3
<1> QED BY <1>6, <1>7, <1>9, <1>10, <1>11 DEF KInv

------------------------------------------------------------------------------
(* The process.                                                            *)

Canaries == [step : CanaryAts, at : {1, 2}, ok : BOOLEAN, held : BOOLEAN, taken : Int,
             doc : Notes, begun : Int]

(* Where a step of the process leads.                                      *)
LEMMA GotoLeads ==
    ASSUME CanaryType, NEW s \in CanaryAts, Goto(s)
    PROVE  /\ canary' \in Canaries /\ canary'.step = s /\ canary'.at = 1 /\ canary'.begun = 0
           /\ canary'.doc = IF s \in {"clear", "release"} THEN NoNote ELSE canary.doc
<1>1. canary \in Canaries
  BY DEF CanaryType, Canaries
<1>2. PICK d \in Notes : d = IF s \in {"clear", "release"} THEN NoNote ELSE canary.doc
  BY <1>1, BlanksAre DEF Canaries
<1>3. PICK z \in Int : z = 0
  OBVIOUS
<1>4. PICK o \in {1, 2} : o = 1
  OBVIOUS
<1>5. PICK b \in BOOLEAN : b = TRUE
  OBVIOUS
<1> DEFINE c == [canary EXCEPT !.step = s, !.at = o, !.ok = b, !.begun = z, !.doc = d]
<1>6. canary' = c
  BY <1>2, <1>3, <1>4, <1>5 DEF Goto
<1>7. c \in Canaries /\ c.step = s /\ c.at = o /\ c.begun = z /\ c.doc = d
  BY <1>1 DEF Canaries
<1> HIDE DEF c
<1> QED BY <1>2, <1>3, <1>4, <1>6, <1>7

(* A canary that is over, or about to be read anew, names no machine.      *)
LEMMA OverKeeps ==
    ASSUME KInv, machine' = machine, changes' = changes, note' \in {note, canary.doc},
           canary' \in Canaries, canary'.doc = NoNote,
           canary'.step \in {"idle", "left", "key", "clear", "release"},
           \/ probe' = probe /\ time' = time /\ canary'.step # "key"
           \/ probe' = [i \in 1..2 |-> NoProbe] /\ time' = 0
    PROVE  KInv'
<1>1. CanaryType'
  BY BlanksAre DEF KInv, CanaryType, Canaries
<1>2. ~Matches(canary.doc.key)'
  BY BlanksAre DEF Matches, KInv, CanaryType
<1>3. KeysOK'
  <2>1. KeyOK(note.key)' /\ Truthful(note)'
    BY DEF KInv, KeysOK, KeyOK, Truthful, Matches
  <2>2. KeyOK(canary.doc.key)' /\ Truthful(canary.doc)'
    BY <1>2, BlanksAre DEF KInv, CanaryType, KeyOK, Truthful, Matches
  <2> QED BY <2>1, <2>2 DEF KeysOK
<1>4. StageOK'
  <2>1. canary'.doc.key.uid = -1 /\ canary'.doc.failed
    BY BlanksAre
  <2>2. canary'.step = "key" => time' <= MaxSkew /\ \A i \in 1..2 : probe'[i] = NoProbe
    BY SkewAssumption
  <2> QED BY <2>1, <2>2 DEF StageOK
<1>5. ProbesOK'
  <2>1. CASE probe' = probe /\ time' = time
    BY <2>1 DEF KInv, ProbesOK, ProbeOK
  <2>2. CASE probe' = [i \in 1..2 |-> NoProbe] /\ time' = 0
    <3>1. probe'[1] = NoProbe /\ probe'[2] = NoProbe
      BY <2>2
    <3> QED BY <2>2, <3>1, BlanksAre DEF ProbesOK, ProbeOK
  <2> QED BY <2>1, <2>2
<1>6. MatchOK'
  BY <1>2 DEF MatchOK
<1> QED BY <1>1, <1>3, <1>4, <1>5, <1>6 DEF KInv

LEMMA TakeWorkerKeeps ==
    ASSUME KInv, takeWorker PROVE KInv'
<1>1. machine' = machine /\ note' = note /\ changes' = changes /\ time' = 0
      /\ probe' = [i \in 1..2 |-> NoProbe]
  BY DEF takeWorker
<1>2. canary' \in Canaries /\ canary'.doc = NoNote /\ canary'.step = "key"
  <2>1. PICK n \in Int : n = canary.taken + 1
    BY DEF KInv, CanaryType
  <2>2. PICK b \in BOOLEAN : b = TRUE
    OBVIOUS
  <2>3. canary' = [AtRest EXCEPT !.step = "key", !.held = b, !.taken = n]
    BY <2>1, <2>2 DEF takeWorker
  <2> QED BY <2>3, BlanksAre DEF Canaries, CanaryAts
<1> QED BY <1>1, <1>2, OverKeeps

(* A step that gives up, stamps, clears the probes, gives the worker back  *)
(* or dies.                                                                *)
LEMMA EndingKeeps ==
    ASSUME KInv, machine' = machine, changes' = changes,
           \/ Goto("clear") /\ UNCHANGED <<note, probe, time>>
           \/ Goto("release") /\ UNCHANGED <<note, probe, time>>
           \/ stampCanary \/ releaseProbes \/ giveBack \/ Die
    PROVE  KInv'
<1>1. note' \in {note, canary.doc}
  BY DEF stampCanary, releaseProbes, giveBack, Die
<1>2. \/ probe' = probe /\ time' = time
      \/ probe' = [i \in 1..2 |-> NoProbe] /\ time' = 0
  BY DEF stampCanary, releaseProbes, giveBack, Die
<1>3. /\ canary' \in Canaries /\ canary'.doc = NoNote
      /\ canary'.step \in {"idle", "left", "clear", "release"}
  <2>1. CASE Goto("clear")
    BY <2>1, GotoLeads DEF KInv, CanaryAts
  <2>2. CASE Goto("release")
    BY <2>2, GotoLeads DEF KInv, CanaryAts
  <2>3. CASE giveBack \/ Die
    <3>1. PICK n \in Int, h \in BOOLEAN : n = canary.taken /\ h = canary.held
      BY DEF KInv, CanaryType
    <3>2. \/ canary' = [AtRest EXCEPT !.taken = n]
          \/ canary' = [AtRest EXCEPT !.taken = n, !.step = "left", !.held = h]
      BY <2>3, <3>1 DEF giveBack, Die
    <3> QED BY <3>2, BlanksAre DEF Canaries, CanaryAts
  <2> QED BY <2>1, <2>2, <2>3 DEF stampCanary, releaseProbes
<1> QED BY <1>1, <1>2, <1>3, OverKeeps

LEMMA LoseNodeKeeps ==
    ASSUME KInv, LoseNode PROVE KInv'
<1>1. machine' = machine /\ note' = note /\ probe' = probe /\ time' = time /\ changes' = changes + 1
  BY DEF LoseNode
<1>2. canary' = [canary EXCEPT !.held = FALSE]
  BY DEF LoseNode
<1>3. /\ canary' \in Canaries /\ canary'.step = canary.step /\ canary'.at = canary.at
      /\ canary'.ok = canary.ok /\ canary'.doc = canary.doc /\ canary'.begun = canary.begun
  BY <1>2 DEF KInv, CanaryType, Canaries
<1>4. CanaryType'
  BY <1>1, <1>3 DEF KInv, CanaryType, Canaries
<1>5. KeysOK'
  BY <1>1, <1>3, <1>4, KeysRest DEF KInv, CanaryType
<1>6. StageOK'
  BY <1>1, <1>3 DEF KInv, StageOK
<1>7. ProbesOK'
  BY <1>1, <1>3 DEF KInv, ProbesOK, ProbeOK
<1>8. MatchOK'
  BY <1>1, <1>3 DEF KInv, MatchOK, Matches, CodesOK, HastyOK
<1> QED BY <1>4, <1>5, <1>6, <1>7, <1>8 DEF KInv

LEMMA ReadNodeKeeps ==
    ASSUME KInv, readNode PROVE KInv'
<1>1. /\ canary.step = "key" /\ machine' = machine /\ note' = note /\ probe' = probe /\ time' = time
      /\ changes' = changes
  BY DEF readNode
<1>2. CASE Goto("release")
  BY <1>1, <1>2, EndingKeeps
<1>3. CASE canary' = [canary EXCEPT !.step = "create", !.doc.key.uid = machine.uid,
                                    !.doc.key.version = machine.version]
  <2>1. PICK u \in Int, v \in Versions : u = machine.uid /\ v = machine.version
    BY DEF KInv, CanaryType
  <2>2. PICK d \in Notes : d = canary.doc
    BY DEF KInv, CanaryType
  <2> DEFINE k == [d.key EXCEPT !.uid = u, !.version = v]
             e == [d EXCEPT !.key = k]
  <2>3. k \in Keys /\ k.uid = u /\ k.version = v
    BY DEF Keys, Notes
  <2> HIDE DEF k
  <2>4. e \in Notes /\ e.key = k /\ e.failed = d.failed
    BY <2>3 DEF Notes
  <2> HIDE DEF e
  <2>5. /\ canary' \in Canaries /\ canary'.step = "create" /\ canary'.at = canary.at
        /\ canary'.doc.key.uid = u /\ canary'.doc.key.version = v
        /\ canary'.doc.failed = canary.doc.failed
    <3>1. canary \in Canaries
      BY DEF KInv, CanaryType, Canaries
    <3>2. canary' = [canary EXCEPT !.step = "create", !.doc = e]
      BY ZenonT(60), <1>3, <2>1, <2>2, <3>1 DEF e, k, Canaries, Notes, Keys
    <3>3. canary' \in Canaries /\ canary'.step = "create" /\ canary'.at = canary.at /\ canary'.doc = e
      BY <2>4, <3>1, <3>2 DEF Canaries, CanaryAts
    <3> QED BY <2>2, <2>3, <2>4, <3>3
  <2>6. probe[1] = NoProbe /\ probe[2] = NoProbe /\ time <= MaxSkew /\ canary.doc.failed
    BY <1>1 DEF KInv, StageOK
  <2>7. CanaryType'
    BY <1>1, <2>5 DEF KInv, CanaryType, Canaries
  <2>8. canary'.doc.key.uid = machine.uid /\ canary'.doc.key.version = machine.version /\ canary'.doc.failed
    BY <2>1, <2>5, <2>6
  <2>9. KeysOK'
    <3>1. KeyOK(note.key)' /\ Truthful(note)'
      BY <1>1 DEF KInv, KeysOK, KeyOK, Truthful, Matches
    <3>2. KeyOK(canary.doc.key)'
      BY <1>1, <2>8 DEF KInv, CanaryType, KeyOK, Matches
    <3>3. Truthful(canary.doc)'
      BY <2>8 DEF Truthful
    <3> QED BY <3>1, <3>2, <3>3 DEF KeysOK
  <2>10. StageOK'
    BY <1>1, <2>5, <2>6, <2>8 DEF StageOK
  <2>11. ProbesOK'
    BY <1>1, <2>5, <2>6, BlanksAre DEF KInv, ProbesOK, ProbeOK
  <2>12. MatchOK'
    BY <1>1, <2>5, <2>6, BlanksAre, UnitsAre DEF MatchOK, CodesOK, HastyOK
  <2> QED BY <2>7, <2>9, <2>10, <2>11, <2>12 DEF KInv
<1> QED BY <1>2, <1>3 DEF readNode

LEMMA CreateProbeKeeps ==
    ASSUME KInv, createProbe PROVE KInv'
<1>1. /\ canary.step = "create" /\ machine' = machine /\ note' = note /\ time' = time
      /\ changes' = changes
  BY DEF createProbe
<1>2. CASE Goto("clear") /\ UNCHANGED probe
  BY <1>1, <1>2, EndingKeeps
<1>3. CASE /\ probe' = [probe EXCEPT ![canary.at] = [@ EXCEPT !.pod = "pending", !.grace = machine.grace]]
           /\ IF canary.at = 1 THEN canary' = [canary EXCEPT !.at = 2] ELSE Goto("start")
  <2>1. PICK i \in 1..2 : i = canary.at
    BY DEF KInv, CanaryType
  <2>2. probe \in [1..2 -> Pods] /\ probe[i] \in Pods /\ time \in Nat /\ canary \in Canaries
    BY DEF KInv, CanaryType, Canaries
  <2>3. /\ probe' \in [1..2 -> Pods]
        /\ probe'[i].pod = "pending" /\ probe'[i].code = probe[i].code /\ probe'[i].told = probe[i].told
        /\ probe'[i].fresh = probe[i].fresh /\ probe'[i].grace = machine.grace
        /\ probe'[i].t0 = probe[i].t0 /\ probe'[i].after = probe[i].after
        /\ \A j \in 1..2 : j # i => probe'[j] = probe[j]
    <3>1. PICK g \in Int : g = machine.grace
      BY DEF KInv, CanaryType
    <3> DEFINE r == [probe[i] EXCEPT !.pod = "pending", !.grace = g]
    <3>2. probe' = [probe EXCEPT ![i] = r]
      BY <1>3, <2>1, <3>1
    <3>3. /\ r \in Pods /\ r.pod = "pending" /\ r.grace = g /\ r.told = probe[i].told
          /\ r.fresh = probe[i].fresh /\ r.code = probe[i].code /\ r.t0 = probe[i].t0
          /\ r.after = probe[i].after
      BY <2>2 DEF Pods
    <3> HIDE DEF r
    <3> QED BY <2>2, <3>1, <3>2, <3>3
  <2>4. /\ canary' \in Canaries /\ canary'.doc = canary.doc /\ canary'.step \in {"create", "start"}
        /\ canary'.step = "start" => canary'.at = 1
    <3>1. CASE canary.at = 1
      <4>1. canary' = [canary EXCEPT !.at = 2]
        BY <1>3, <3>1
      <4> QED BY <1>1, <2>2, <4>1 DEF Canaries
    <3>2. CASE canary.at # 1
      <4>1. Goto("start")
        BY <1>3, <3>2
      <4> QED BY <4>1, GotoLeads DEF KInv, CanaryAts
    <3> QED BY <3>1, <3>2
  <2>5. CanaryType'
    BY <1>1, <2>3, <2>4 DEF KInv, CanaryType, Canaries
  <2>6. KeysOK'
    BY <1>1, <2>4, <2>5, KeysRest DEF KInv, CanaryType
  <2>7. StageOK'
    BY <1>1, <2>4 DEF KInv, StageOK
  <2>8. /\ probe[1].told = -1 /\ probe[2].told = -1 /\ probe[1].after = -1 /\ probe[2].after = -1
        /\ probe[2].t0 = -1
    BY <1>1 DEF KInv, ProbesOK, ProbeOK
  <2>9. ProbesOK'
    BY <1>1, <2>2, <2>3, <2>4, <2>8 DEF KInv, ProbesOK, ProbeOK, Pods
  <2>10. MatchOK'
    <3> SUFFICES ASSUME Matches(canary.doc.key) PROVE CodesOK' /\ (machine.version = "hasty" => HastyOK')
      BY <1>1, <2>4 DEF MatchOK, Matches
    <3>1. CodesOK'
      BY <1>1, <2>3 DEF KInv, MatchOK, CodesOK
    <3>2. HastyOK'
      BY <2>3, <2>4, <2>8 DEF HastyOK
    <3> QED BY <3>1, <3>2
  <2> QED BY <2>5, <2>6, <2>7, <2>9, <2>10 DEF KInv
<1> QED BY <1>2, <1>3 DEF createProbe

(* Both probes were read running in one round before either is asked.      *)
LEMMA AwaitRunningKeeps ==
    ASSUME KInv, awaitProbesRunning PROVE KInv'
<1>1. /\ canary.step = "start" /\ machine' = machine /\ note' = note /\ probe' = probe /\ time' = time
      /\ changes' = changes
  BY DEF awaitProbesRunning
<1>2. PICK i \in 1..2 : i = canary.at
  BY DEF KInv, CanaryType
<1>3. canary \in Canaries
  BY SMTT(30) DEF KInv, CanaryType, Canaries
<1>4. PICK b \in BOOLEAN :
         /\ b => canary.ok /\ probe[i].pod = "running"
         /\ \/ Goto("clear") \/ Goto("start")
            \/ i = 1 /\ canary' = [canary EXCEPT !.at = 2, !.ok = b]
            \/ i = 2 /\ b /\ Goto("ask")
  <2>1. PICK read \in BOOLEAN :
           LET pod == probe[canary.at].pod
               ok  == canary.ok /\ read /\ pod = "running"
           IN CASE read /\ pod = "stopped" -> Goto("clear")
                [] ~(read /\ pod = "stopped") /\ canary.at = 1 -> canary' = [canary EXCEPT !.at = 2, !.ok = ok]
                [] OTHER -> IF ok THEN Goto("ask") ELSE Goto("start") \/ Goto("clear")
    BY DEF awaitProbesRunning
  <2>2. PICK b \in BOOLEAN : b = (canary.ok /\ read /\ probe[i].pod = "running")
    OBVIOUS
  <2>3. CASE read /\ probe[i].pod = "stopped"
    <3>1. Goto("clear")
      BY <1>2, <2>1, <2>3
    <3> QED BY <2>2, <3>1
  <2>4. CASE ~(read /\ probe[i].pod = "stopped") /\ i = 1
    <3>1. canary' = [canary EXCEPT !.at = 2, !.ok = b]
      BY SMTT(30), <1>2, <2>1, <2>2, <2>4
    <3> QED BY <2>2, <2>4, <3>1
  <2>5. CASE ~(read /\ probe[i].pod = "stopped") /\ i # 1
    <3>1. IF b THEN Goto("ask") ELSE Goto("start") \/ Goto("clear")
      BY <1>2, <2>1, <2>2, <2>5
    <3>2. i = 2
      BY <2>5
    <3>3. CASE b
      <4>1. Goto("ask")
        BY <3>1, <3>3
      <4> QED BY <2>2, <3>2, <3>3, <4>1
    <3>4. CASE ~b
      BY <3>1, <3>4
    <3> QED BY <3>3, <3>4
  <2> QED BY <2>3, <2>4, <2>5
<1>5. CASE Goto("clear")
  BY <1>1, <1>5, EndingKeeps
<1>6. CASE ~Goto("clear")
  <2>1. /\ canary' \in Canaries /\ canary'.doc = canary.doc /\ canary'.step \in {"start", "ask"}
        /\ canary'.step = "start" /\ canary'.at = 2 /\ canary'.ok => probe[1].pod = "running"
        /\ canary'.step = "ask" =>
             canary'.at = 1 /\ canary.at = 2 /\ canary.ok /\ probe[2].pod = "running"
    <3>1. CASE Goto("start")
      BY <3>1, GotoLeads DEF KInv, CanaryAts
    <3>2. CASE i = 1 /\ canary' = [canary EXCEPT !.at = 2, !.ok = b]
      <4>1. canary' \in Canaries /\ canary'.doc = canary.doc /\ canary'.step = "start" /\ canary'.ok = b
        BY <1>1, <1>3, <3>2 DEF Canaries
      <4> QED BY <1>4, <3>2, <4>1
    <3>3. CASE i = 2 /\ b /\ Goto("ask")
      BY <1>2, <1>4, <3>3, GotoLeads DEF KInv, CanaryAts
    <3> QED BY <1>4, <1>6, <3>1, <3>2, <3>3
  <2>2. CanaryType'
    BY <1>1, <2>1 DEF KInv, CanaryType, Canaries
  <2>3. KeysOK'
    BY <1>1, <2>1, <2>2, KeysRest DEF KInv, CanaryType
  <2>4. StageOK'
    BY <1>1, <2>1 DEF KInv, StageOK
  <2>5. /\ probe[1].told = -1 /\ probe[2].told = -1 /\ probe[1].after = -1 /\ probe[2].after = -1
        /\ probe[2].t0 = -1
    BY <1>1 DEF KInv, ProbesOK, ProbeOK
  <2>6. canary'.step = "ask" => probe[1].pod \notin {"none", "pending"}
    BY <1>1, <2>1 DEF KInv, ProbesOK
  <2>7. ProbesOK'
    BY <1>1, <2>1, <2>5, <2>6 DEF KInv, ProbesOK, ProbeOK
  <2>8. MatchOK'
    <3> SUFFICES ASSUME Matches(canary.doc.key) PROVE CodesOK' /\ (machine.version = "hasty" => HastyOK')
      BY <1>1, <2>1 DEF MatchOK, Matches
    <3>1. CodesOK'
      BY <1>1 DEF KInv, MatchOK, CodesOK
    <3>2. HastyOK'
      BY <1>1, <2>1, <2>5 DEF HastyOK
    <3> QED BY <3>1, <3>2
  <2> QED BY <2>2, <2>3, <2>4, <2>7, <2>8 DEF KInv
<1> QED BY <1>5, <1>6

LEMMA DeleteProbeKeeps ==
    ASSUME KInv, deleteProbe PROVE KInv'
<1>1. /\ canary.step = "ask" /\ machine' = machine /\ note' = note /\ time' = time /\ changes' = changes
  BY DEF deleteProbe
<1>2. CASE Goto("clear") /\ UNCHANGED probe
  BY <1>1, <1>2, EndingKeeps
<1>3. CASE probe' = [probe EXCEPT ![canary.at].told = time] /\ canary' = [canary EXCEPT !.step = "stamp"]
  <2>1. PICK i \in 1..2 : i = canary.at
    BY DEF KInv, CanaryType
  <2>2. probe \in [1..2 -> Pods] /\ probe[i] \in Pods /\ time \in Nat /\ canary \in Canaries
    BY DEF KInv, CanaryType, Canaries
  <2>3. /\ probe' \in [1..2 -> Pods]
        /\ probe'[i].pod = probe[i].pod /\ probe'[i].code = probe[i].code /\ probe'[i].told = time
        /\ probe'[i].fresh = probe[i].fresh /\ probe'[i].grace = probe[i].grace
        /\ probe'[i].t0 = probe[i].t0 /\ probe'[i].after = probe[i].after
        /\ \A j \in 1..2 : j # i => probe'[j] = probe[j]
    BY <1>3, <2>1, <2>2 DEF Pods
  <2>4. /\ canary' \in Canaries /\ canary'.doc = canary.doc /\ canary'.step = "stamp"
        /\ canary'.at = canary.at
    BY <1>3, <2>2 DEF Canaries, CanaryAts
  <2>5. CanaryType'
    BY <1>1, <2>3, <2>4 DEF KInv, CanaryType, Canaries
  <2>6. KeysOK'
    BY <1>1, <2>4, <2>5, KeysRest DEF KInv, CanaryType
  <2>7. StageOK'
    BY <1>1, <2>4 DEF KInv, StageOK
  <2>8. probe[1].after = -1 /\ probe[2].after = -1 /\ probe[2].t0 = -1
    BY <1>1 DEF KInv, ProbesOK, ProbeOK
  <2>9. ProbesOK'
    BY <1>1, <2>2, <2>3, <2>4, <2>8 DEF KInv, ProbesOK, ProbeOK, Pods
  <2>10. MatchOK'
    <3> SUFFICES ASSUME Matches(canary.doc.key) PROVE CodesOK' /\ (machine.version = "hasty" => HastyOK')
      BY <1>1, <2>4 DEF MatchOK, Matches
    <3>1. CodesOK'
      BY <1>1, <2>3 DEF KInv, MatchOK, CodesOK
    <3>2. ASSUME machine.version = "hasty" PROVE HastyOK'
      BY <1>1, <2>2, <2>3, <2>4, <2>8, <3>2 DEF KInv, MatchOK, HastyOK, Pods
    <3> QED BY <3>1, <3>2
  <2> QED BY <2>5, <2>6, <2>7, <2>9, <2>10 DEF KInv
<1> QED BY <1>2, <1>3 DEF deleteProbe

(* A probe's clock starts no earlier than its delete, and the honouring    *)
(* one's no later than the ignoring one's.                                 *)
LEMMA StampDeletedKeeps ==
    ASSUME KInv, stampDeleted PROVE KInv'
<1>1. /\ canary.step = "stamp" /\ machine' = machine /\ note' = note /\ time' = time /\ changes' = changes
      /\ probe' = [probe EXCEPT ![canary.at].t0 = time]
  BY DEF stampDeleted
<1>2. PICK i \in 1..2 : i = canary.at
  BY DEF KInv, CanaryType
<1>3. probe \in [1..2 -> Pods] /\ probe[i] \in Pods /\ time \in Nat /\ canary \in Canaries
  BY DEF KInv, CanaryType, Canaries
<1>4. /\ probe' \in [1..2 -> Pods]
      /\ probe'[i].pod = probe[i].pod /\ probe'[i].code = probe[i].code /\ probe'[i].told = probe[i].told
      /\ probe'[i].fresh = probe[i].fresh /\ probe'[i].grace = probe[i].grace
      /\ probe'[i].t0 = time /\ probe'[i].after = probe[i].after
      /\ \A j \in 1..2 : j # i => probe'[j] = probe[j]
  BY <1>1, <1>2, <1>3 DEF Pods
<1>5. /\ canary' \in Canaries /\ canary'.doc = canary.doc
      /\ i = 1 => canary'.step = "ask"
      /\ i = 2 => canary'.step = "watch" /\ canary'.begun = time
  <2>1. CASE i = 1
    <3>1. PICK o \in {1, 2} : o = 2
      OBVIOUS
    <3>2. canary' = [canary EXCEPT !.step = "ask", !.at = o]
      BY <1>2, <2>1, <3>1 DEF stampDeleted
    <3>3. canary' \in Canaries /\ canary'.doc = canary.doc /\ canary'.step = "ask"
      BY <1>3, <3>2 DEF Canaries, CanaryAts
    <3> QED BY <2>1, <3>3
  <2>2. CASE i = 2
    <3>1. PICK o \in {1, 2} : o = 1
      OBVIOUS
    <3>2. PICK n \in Int : n = time
      BY <1>3
    <3>3. canary' = [canary EXCEPT !.step = "watch", !.at = o, !.begun = n]
      BY <1>2, <2>2, <3>1, <3>2 DEF stampDeleted
    <3>4. canary' \in Canaries /\ canary'.doc = canary.doc /\ canary'.step = "watch" /\ canary'.begun = n
      BY <1>3, <3>3 DEF Canaries, CanaryAts
    <3> QED BY <2>2, <3>2, <3>4
  <2> QED BY <2>1, <2>2
<1>6. CanaryType'
  BY <1>1, <1>4, <1>5 DEF KInv, CanaryType, Canaries
<1>7. KeysOK'
  BY <1>1, <1>5, <1>6, KeysRest DEF KInv, CanaryType
<1>8. StageOK'
  <2>1. time <= MaxSkew /\ MaxSkew \in Nat
    BY <1>1, SkewAssumption DEF KInv, StageOK
  <2> QED BY <1>1, <1>3, <1>5, <2>1, UnitsAre DEF KInv, StageOK
<1>9. probe[1].after = -1 /\ probe[2].after = -1 /\ probe[2].t0 = -1
  BY <1>1 DEF KInv, ProbesOK, ProbeOK
<1>10. ProbesOK'
  <2>1. CASE i = 1
    BY <1>1, <1>3, <1>4, <1>5, <1>9, <2>1 DEF KInv, ProbesOK, ProbeOK, Pods
  <2>2. CASE i = 2
    <3>1. probe[1].t0 >= 0 /\ canary'.step = "watch" /\ probe'[1] = probe[1]
      BY <1>1, <1>2, <1>4, <1>5, <2>2 DEF KInv, ProbesOK
    <3>2. ProbeOK(1)'
      <4>1. ProbeOK(1)
        BY DEF KInv, ProbesOK
      <4> QED BY <1>1, <3>1, <4>1 DEF ProbeOK
    <3>3. ProbeOK(2)'
      BY <1>1, <1>3, <1>4, <2>2, <3>1 DEF KInv, ProbesOK, ProbeOK
    <3> QED BY <3>1, <3>2, <3>3 DEF ProbesOK
  <2> QED BY <2>1, <2>2
<1>11. MatchOK'
  <2> SUFFICES ASSUME Matches(canary.doc.key) PROVE CodesOK' /\ (machine.version = "hasty" => HastyOK')
    BY <1>1, <1>5 DEF MatchOK, Matches
  <2>1. CodesOK'
    BY <1>1, <1>4 DEF KInv, MatchOK, CodesOK
  <2>2. ASSUME machine.version = "hasty" PROVE HastyOK'
    <3>1. HastyOK
      BY <2>2 DEF KInv, MatchOK
    <3>2. probe[1].t0 <= time /\ probe[2].told <= time
      BY DEF KInv, ProbesOK, ProbeOK
    <3> QED BY <1>1, <1>3, <1>4, <1>5, <1>9, <3>1, <3>2, UnitsAre DEF HastyOK, Pods
  <2> QED BY <2>1, <2>2
<1> QED BY <1>6, <1>7, <1>8, <1>10, <1>11 DEF KInv

(* A read that finds a probe stopped: on a hasty machine an ignoring probe *)
(* that looks like a survivor was read late, after the honouring one, or   *)
(* the honouring one will not look prompt.                                 *)
LEMMA ReadStoppedKeeps ==
    ASSUME KInv, NEW i \in 1..2, readStopped(i) PROVE KInv'
<1>1. /\ canary.step = "watch" /\ probe[i].after < 0 /\ probe[i].pod = "stopped"
      /\ machine' = machine /\ note' = note /\ time' = time /\ changes' = changes
  BY DEF KInv, CanaryType, Pods, readStopped, Terminated
<1>2. probe \in [1..2 -> Pods] /\ probe[i] \in Pods /\ time \in Nat /\ canary \in Canaries
  BY DEF KInv, CanaryType, Canaries
<1>3. probe[i].t0 \in Int /\ probe[i].t0 >= 0 /\ probe[i].t0 <= time
  BY <1>1, <1>2 DEF KInv, ProbesOK, ProbeOK, Pods
<1>4. PICK a \in Int : a = StoppedAfter(i)
  BY <1>2, <1>3, UnitsAre DEF StoppedAfter
<1>5. a >= 0 /\ (a >= 2 <=> time >= probe[i].t0 + 2) /\ (a <= 1 <=> time <= probe[i].t0 + 1)
  BY <1>2, <1>3, <1>4, UnitsAre DEF StoppedAfter
<1>6. /\ probe' \in [1..2 -> Pods]
      /\ probe'[i].pod = "stopped" /\ probe'[i].code = probe[i].code /\ probe'[i].told = probe[i].told
      /\ ~probe'[i].fresh /\ probe'[i].grace = probe[i].grace
      /\ probe'[i].t0 = 0 /\ probe'[i].after = a
      /\ \A j \in 1..2 : j # i => probe'[j] = probe[j]
  <2>1. PICK z \in Int : z = 0
    OBVIOUS
  <2>2. PICK b \in BOOLEAN : b = FALSE
    OBVIOUS
  <2> DEFINE r == [probe[i] EXCEPT !.after = a, !.t0 = z, !.fresh = b]
  <2>3. probe' = [probe EXCEPT ![i] = r]
    BY <1>4, <2>1, <2>2 DEF readStopped
  <2>4. /\ r \in Pods /\ r.pod = probe[i].pod /\ r.code = probe[i].code /\ r.told = probe[i].told
        /\ r.fresh = b /\ r.grace = probe[i].grace /\ r.t0 = z /\ r.after = a
    BY <1>2 DEF Pods
  <2> HIDE DEF r
  <2> QED BY <1>1, <1>2, <2>1, <2>2, <2>3, <2>4
<1>7. PICK l \in BOOLEAN : l <=> (i = 2 /\ probe[1].after >= 0 /\ ~probe[2].fresh)
  <2>1. \/ (i = 2 /\ probe[1].after >= 0 /\ ~probe[2].fresh)
        \/ ~(i = 2 /\ probe[1].after >= 0 /\ ~probe[2].fresh)
    OBVIOUS
  <2> QED BY <2>1
<1>8. /\ canary' \in Canaries /\ canary'.step = "watch" /\ canary'.begun = canary.begun
      /\ canary'.doc.key = canary.doc.key /\ canary'.doc.failed = canary.doc.failed
      /\ canary'.doc.late = l
  <2>1. (i = 2 /\ Terminated(1) /\ ~probe[2].fresh) = l
    BY <1>7, Zenon DEF Terminated
  <2>2. canary' = [canary EXCEPT !.doc.late = l]
    BY <2>1, Zenon DEF readStopped
  <2>3. PICK d \in Notes : d = canary.doc
    BY <1>2 DEF Canaries
  <2> DEFINE e == [d EXCEPT !.late = l]
  <2>4. e \in Notes /\ e.key = d.key /\ e.failed = d.failed /\ e.late = l
    BY DEF Notes
  <2>5. canary' = [canary EXCEPT !.doc = e]
    BY <1>2, <2>2, <2>3 DEF Canaries
  <2> HIDE DEF e
  <2>6. canary' \in Canaries /\ canary'.step = canary.step /\ canary'.begun = canary.begun /\ canary'.doc = e
    BY <1>2, <2>4, <2>5 DEF Canaries
  <2> QED BY <1>1, <2>3, <2>4, <2>6
<1>9. CanaryType'
  BY <1>1, <1>6, <1>8 DEF KInv, CanaryType, Canaries
<1>10. canary.doc.failed
  BY <1>1 DEF KInv, StageOK
<1>11. KeysOK'
  <2>1. KeyOK(note.key)' /\ Truthful(note)'
    BY <1>1 DEF KInv, KeysOK, KeyOK, Truthful, Matches
  <2>2. KeyOK(canary.doc.key)'
    BY <1>1, <1>8 DEF KInv, KeysOK, KeyOK, Matches
  <2>3. Truthful(canary.doc)'
    BY <1>8, <1>10 DEF Truthful
  <2> QED BY <2>1, <2>2, <2>3 DEF KeysOK
<1>12. StageOK'
  BY <1>1, <1>8, <1>10 DEF KInv, StageOK
<1>13. ProbesOK'
  <2>1. ProbeOK(1) /\ ProbeOK(2)
    BY DEF KInv, ProbesOK
  <2>2. ASSUME NEW j \in 1..2 PROVE ProbeOK(j)'
    <3>1. CASE j = i
      BY <1>1, <1>2, <1>5, <1>6, <1>8, <2>1, <3>1 DEF ProbeOK
    <3>2. CASE j # i
      BY <1>1, <1>6, <1>8, <2>1, <3>2 DEF ProbeOK
    <3> QED BY <3>1, <3>2
  <2> QED BY <1>8, <2>2 DEF ProbesOK
<1>14. MatchOK'
  <2> SUFFICES ASSUME Matches(canary.doc.key) PROVE CodesOK' /\ (machine.version = "hasty" => HastyOK')
    BY <1>1, <1>8 DEF MatchOK, Matches
  <2>1. CodesOK'
    BY <1>1, <1>6 DEF KInv, MatchOK, CodesOK
  <2>2. ASSUME machine.version = "hasty" PROVE HastyOK'
    <3>1. HastyOK
      BY <2>2 DEF KInv, MatchOK
    <3>2. CASE i = 1
      <4>1. probe'[2] = probe[2] /\ probe'[1].after = a
        BY <1>6, <3>2
      <4>2. probe[2].code = killExitCode /\ probe[2].after >= 2 => a >= 2
        BY <1>1, <1>5, <3>1, <3>2, UnitsAre DEF HastyOK
      <4> QED BY <1>1, <1>5, <1>8, <3>1, <4>1, <4>2, UnitsAre DEF HastyOK
    <3>3. CASE i = 2
      <4>1. /\ probe'[1] = probe[1] /\ probe'[2].after = a /\ probe'[2].pod = "stopped"
            /\ ~probe'[2].fresh /\ probe'[2].code = probe[2].code
        BY <1>6, <3>3
      <4>2. probe[1] \in Pods /\ probe[2] \in Pods
        BY <1>2
      <4>3. probe[1].after < 0 => probe[1].t0 <= probe[2].t0
        BY <1>1, <3>1, <3>3 DEF HastyOK
      <4>4. probe[1].after < 0 /\ a >= 2 => time >= probe[1].t0 + 2
        BY <1>2, <1>5, <3>3, <4>2, <4>3 DEF Pods
      <4>5. a >= 2 => ~probe[2].fresh
        BY <1>1, <1>2, <1>3, <1>5, <3>1, <3>3 DEF HastyOK
      <4>6. probe[1].after >= 0 /\ a >= 2 => l
        BY <1>7, <3>3, <4>5
      <4> QED BY <1>1, <1>5, <1>8, <4>1, <4>4, <4>6, UnitsAre DEF HastyOK
    <3> QED BY <3>2, <3>3
  <2> QED BY <2>1, <2>2
<1> QED BY <1>9, <1>11, <1>12, <1>13, <1>14 DEF KInv

(* The verdict: only what the contract, or a late reading of a hasty       *)
(* runtime, leaves behind is without a failed claim.                       *)
LEMMA EndWatchKeeps ==
    ASSUME KInv, endWatch PROVE KInv'
<1>1. /\ canary.step = "watch" /\ machine' = machine /\ note' = note /\ changes' = changes /\ time' = 0
      /\ probe' = [i \in 1..2 |-> NoProbe]
  BY DEF endWatch
<1>2. probe[1] \in Pods /\ probe[2] \in Pods /\ canary \in Canaries /\ machine.operator \in Int
  BY DEF KInv, CanaryType, Canaries
<1>3. PICK o \in Int : canary' = [canary EXCEPT !.step = "record", !.doc.failed = ~judgeCanary,
                                                !.doc.key = Key(canary.doc.key, probe[1].grace, o)]
  <2>1. PICK o \in operatorImageID :
           canary' = [canary EXCEPT !.step = "record", !.doc.failed = ~judgeCanary,
                                    !.doc.key = Key(canary.doc.key, probe[1].grace, o)]
    BY Zenon DEF endWatch
  <2>2. o \in Int
    BY <1>2 DEF operatorImageID
  <2> QED BY <2>1, <2>2
<1>4. PICK f \in BOOLEAN : f = (~judgeCanary)
  BY DEF judgeCanary
<1>5. PICK d \in Notes : d = canary.doc
  BY <1>2 DEF Canaries
<1> DEFINE k == Key(d.key, probe[1].grace, o)
           e == [d EXCEPT !.failed = f, !.key = k]
<1>6. k \in Keys /\ k.uid = d.key.uid /\ k.version = d.key.version
  BY <1>2 DEF Key, Keys, Notes, Pods
<1>7. canary' = [canary EXCEPT !.step = "record", !.doc = e]
  BY <1>2, <1>3, <1>4, <1>5 DEF Canaries, Notes
<1> HIDE DEF k
<1>8. e \in Notes /\ e.key = k /\ e.failed = f /\ e.late = d.late
  BY <1>6 DEF Notes
<1> HIDE DEF e
<1>9. canary' \in Canaries /\ canary'.step = "record" /\ canary'.doc = e
  BY <1>2, <1>7, <1>8 DEF Canaries, CanaryAts
<1>10. probe'[1] = NoProbe /\ probe'[2] = NoProbe
  BY <1>1
<1>11. CanaryType'
  BY <1>1, <1>9, BlanksAre DEF KInv, CanaryType, Canaries
<1>12. Truthful(canary.doc)'
  <2> SUFFICES ASSUME Matches(canary.doc.key), judgeCanary
               PROVE  /\ machine.grace = terminationGraceSec
                      /\ machine.version = "contract" \/ (machine.version = "hasty" /\ canary.doc.late)
    BY <1>1, <1>4, <1>5, <1>6, <1>8, <1>9 DEF Truthful, Matches
  <2>1. /\ probe[1].grace = terminationGraceSec /\ probe[1].after >= 0
        /\ probe[1].code = honorExitCode /\ probe[1].after <= canaryPromptWithin
        /\ probe[2].after >= canarySurvivesAtLeast /\ probe[2].code = killExitCode
    BY DEF judgeCanary, Terminated
  <2>2. machine.grace = terminationGraceSec
    BY <2>1, UnitsAre DEF KInv, ProbesOK, ProbeOK
  <2>3. machine.version \in {"contract", "hasty"}
    BY <2>1 DEF KInv, MatchOK, CodesOK
  <2>4. machine.version = "hasty" => canary.doc.late
    BY <1>1, <2>1 DEF KInv, MatchOK, HastyOK
  <2> QED BY <2>2, <2>3, <2>4
<1>13. KeysOK'
  <2>1. KeyOK(note.key)' /\ Truthful(note)'
    BY <1>1 DEF KInv, KeysOK, KeyOK, Truthful, Matches
  <2>2. KeyOK(canary.doc.key)'
    BY <1>1, <1>5, <1>6, <1>8, <1>9 DEF KInv, KeysOK, KeyOK, Matches
  <2> QED BY <1>12, <2>1, <2>2 DEF KeysOK
<1>14. StageOK'
  <2>1. MaxSkew \in Nat
    BY SkewAssumption
  <2> QED BY <1>1, <1>9, <1>10, <2>1 DEF StageOK
<1>15. ProbesOK'
  BY <1>1, <1>9, <1>10, BlanksAre DEF ProbesOK, ProbeOK
<1>16. MatchOK'
  BY <1>9, <1>10, BlanksAre, UnitsAre DEF MatchOK, CodesOK, HastyOK
<1> QED BY <1>11, <1>13, <1>14, <1>15, <1>16 DEF KInv

LEMMA CanaryStepsKeep ==
    ASSUME KInv, CanarySteps PROVE KInv'
<1>1. CASE \E i \in 1..2 : StopContainer(i)
  BY <1>1, StopContainerKeeps
<1>2. CASE takeWorker
  BY <1>2, TakeWorkerKeeps
<1>3. CASE readNode
  BY <1>3, ReadNodeKeeps
<1>4. CASE createProbe
  BY <1>4, CreateProbeKeeps
<1>5. CASE awaitProbesRunning
  BY <1>5, AwaitRunningKeeps
<1>6. CASE deleteProbe
  BY <1>6, DeleteProbeKeeps
<1>7. CASE stampDeleted
  BY <1>7, StampDeletedKeeps
<1>8. CASE endWatch
  BY <1>8, EndWatchKeeps
<1>9. CASE stampCanary \/ releaseProbes \/ giveBack \/ Die
  <2>1. machine' = machine /\ changes' = changes
    BY <1>9 DEF stampCanary, releaseProbes, giveBack, Die
  <2> QED BY <1>9, <2>1, EndingKeeps
<1>10. CASE NoneDue /\ Tick
  BY <1>10, TickKeeps
<1>11. CASE LoseNode
  BY <1>11, LoseNodeKeeps
<1>12. CASE \E i \in 1..2 : readStopped(i) \/ StartContainer(i) \/ FailContainer(i) \/ Vanish(i)
  BY <1>12, ReadStoppedKeeps, StartContainerKeeps, FailContainerKeeps, VanishKeeps
<1> QED BY <1>1, <1>2, <1>3, <1>4, <1>5, <1>6, <1>7, <1>8, <1>9, <1>10, <1>11, <1>12 DEF CanarySteps

LEMMA MachineChangesKeep ==
    ASSUME MaxChanges \in 0..1, KInv, MachineChanges PROVE KInv'
BY RollOutKeeps, ReplaceKeeps, UpgradeKeeps DEF MachineChanges

(* A run that consulted the canary, or gave up before, needs it no more.   *)
LEMMA DropCanaryKeeps ==
    ASSUME DropCanary PROVE KInv'
<1>1. machine' \in [uid : Nat, version : Versions, grace : Int, operator : Int]
  BY UnitsAre DEF DropCanary, Versions
<1>2. /\ note' = NoNote /\ canary' = AtRest /\ probe' = [i \in 1..2 |-> NoProbe] /\ time' = 0
      /\ changes' = 0
  BY DEF DropCanary
<1>3. CanaryType'
  BY <1>1, <1>2, BlanksAre DEF CanaryType
<1>4. machine'.uid \in Nat
  BY <1>1
<1>5. KeysOK'
  BY <1>2, <1>4, BlanksAre DEF KeysOK, KeyOK, Matches, Truthful
<1>6. StageOK'
  BY <1>2, BlanksAre DEF StageOK
<1>7. probe'[1] = NoProbe /\ probe'[2] = NoProbe
  BY <1>2
<1>8. ProbesOK'
  BY <1>2, <1>7, BlanksAre DEF ProbesOK, ProbeOK
<1>9. MatchOK'
  BY <1>2, <1>4, BlanksAre DEF MatchOK, Matches
<1> QED BY <1>3, <1>5, <1>6, <1>8, <1>9 DEF KInv

(* A run stands only on a canary that tells the truth of the machine it    *)
(* consults it on, whatever the grace periods, the skew of the deletes and *)
(* the number of canaries, while one change befalls the machine: an        *)
(* upgrade that is undone before the consult fits the key again            *)
(* (judgeCanary, stampCanary, checkTerminationCanary).                     *)
THEOREM ContrastHolds ==
    ASSUME MaxChanges \in 0..1 PROVE Spec => []StandsOnContrast
<1>1. Init => KInv
  <2> SUFFICES ASSUME Init PROVE KInv
    OBVIOUS
  <2>1. machine \in [uid : Nat, version : Versions, grace : Int, operator : Int]
    <3>1. machine \in [uid : {0}, version : Versions, grace : DefaultGraces, operator : {0}]
      BY DEF Init, KInit
    <3>2. \A g \in DefaultGraces : g \in Int
      BY SkewAssumption
    <3>3. machine.uid \in Nat /\ machine.version \in Versions /\ machine.grace \in Int /\ machine.operator \in Int
      BY <3>1, <3>2
    <3> QED BY <3>1, <3>3
  <2> QED BY <2>1, KInvAtRest DEF Init, KInit
<1>2. KInv /\ [Next]_vars => KInv'
  <2> SUFFICES ASSUME KInv, [Next]_vars PROVE KInv'
    OBVIOUS
  <2>1. CASE canaryRuns
    BY <2>1, CanaryStepsKeep, MachineChangesKeep DEF canaryRuns
  <2>2. CASE DropCanary
    BY <2>2, DropCanaryKeeps
  <2>3. CASE UNCHANGED kvars
    <3>1. /\ machine' = machine /\ note' = note /\ canary' = canary /\ probe' = probe /\ time' = time
          /\ changes' = changes
      BY <2>3 DEF kvars
    <3> QED BY <3>1 DEF KInv, CanaryType, KeysOK, KeyOK, Truthful, Matches, StageOK, ProbesOK, ProbeOK,
                        MatchOK, CodesOK, HastyOK
  <2>4. CASE connect \/ acquireWorker \/ startOwnershipSentinel \/ qualifyWorker
    BY <2>2, <2>3, <2>4 DEF connect, acquireWorker, startOwnershipSentinel, qualifyWorker
  <2>5. CASE setUp \/ startCollector \/ observing \/ Interrupted \/ SubmitFails \/ judge
    BY <2>3, <2>5 DEF setUp, startCollector, observing, Interrupted, SubmitFails, judge
  <2>6. CASE Diverges \/ tearingDown \/ tearDownBeforeRelease \/ auditedRelease \/ finish \/ report
    BY <2>3, <2>6 DEF Diverges, tearingDown, tearDownBeforeRelease, auditedRelease, finish, report
  <2>7. CASE UNCHANGED vars
    BY <2>3, <2>7 DEF vars
  <2> QED BY <2>1, <2>4, <2>5, <2>6, <2>7 DEF Next
<1>3. KInv => StandsOnContrast
  <2> SUFFICES ASSUME KInv, NEW op \in operatorImageID, checkTerminationCanary(op)
               PROVE  /\ machine.grace = terminationGraceSec
                      /\ machine.version = "contract" \/ (machine.version = "hasty" /\ note.late)
    BY DEF StandsOnContrast
  <2>1. note.key.uid = machine.uid /\ note.key.version = machine.version /\ ~note.failed
    BY DEF checkTerminationCanary, Key
  <2> QED BY <2>1 DEF KInv, KeysOK, Truthful, Matches
<1> QED BY <1>1, <1>2, <1>3, PTL DEF Spec
=============================================================================
