---------------------------- MODULE CollectorProofs ----------------------------
(***************************************************************************)
(* Proofs about the collector of the lab run (LabRun), for any schedule,    *)
(* arms, bounds and machines: what the queues, the cache, the pending       *)
(* observations and the ledger hold of what happened (CInv), and that the   *)
(* ledger has no hole.                                                      *)
(***************************************************************************)
EXTENDS LabRun, FiniteSetTheorems, TLAPS

------------------------------------------------------------------------------
(* Natural numbers, sums.                                                  *)

(* A set of naturals that is not empty has a least element.                *)
LEMMA NatLeast ==
    ASSUME NEW T \in SUBSET Nat, T # {}
    PROVE  \E x \in T : \A y \in T : x <= y
<1> DEFINE R == {ss \in Nat \X Nat : ss[1] < ss[2]}
<1>1. IsWellFoundedOn(R, Nat)
  BY NatLessThanWellFounded DEF OpToRel
<1>2. PICK x \in T : \A y \in T : ~(<<y, x>> \in R)
  <2> HIDE DEF R
  <2> QED BY <1>1, WFMin
<1>3. ASSUME NEW y \in T PROVE x <= y
  <2>1. x \in Nat /\ y \in Nat
    OBVIOUS
  <2>2. ~(y < x)
    BY <1>2, <2>1
  <2> QED BY <2>1, <2>2
<1> QED BY <1>3

(* What holds of 0 and is handed on by each number below n holds of n.     *)
LEMMA NatReaches ==
    ASSUME NEW n \in Nat, NEW H \in SUBSET Nat, 0 \in H,
           \A i \in 0..(n - 1) : i \in H => i + 1 \in H
    PROVE  \A i \in 0..n : i \in H
<1> DEFINE B == {i \in 0..n : i \notin H}
<1> SUFFICES ASSUME B # {} PROVE FALSE
  OBVIOUS
<1>1. PICK i \in B : \A j \in B : i <= j
  <2>1. B \in SUBSET Nat
    OBVIOUS
  <2> HIDE DEF B
  <2> QED BY <2>1, NatLeast
<1>2. i # 0 /\ i - 1 \in 0..(n - 1) /\ i - 1 \notin B
  BY <1>1
<1> QED BY <1>2

(* A finite set of integers that is not empty has a greatest element.      *)
LEMMA MaxIsGreatest ==
    ASSUME NEW S \in SUBSET Int, IsFiniteSet(S), S # {}
    PROVE  Max(S) \in S /\ \A y \in S : Max(S) >= y
<1> DEFINE Topped(U) == \E x \in U : \A y \in U : x >= y
           T == {n \in Nat : \E U \in SUBSET S : U # {} /\ Cardinality(U) = n /\ ~Topped(U)}
<1>1. Topped(S)
  <2> SUFFICES ASSUME ~Topped(S) PROVE FALSE
    OBVIOUS
  <2>1. T # {}
    BY FS_CardinalityType
  <2>2. PICK n \in T : \A m \in T : n <= m
    BY <2>1, NatLeast
  <2>3. PICK U \in SUBSET S : U # {} /\ Cardinality(U) = n /\ ~Topped(U)
    BY <2>2
  <2>4. PICK x \in U : TRUE
    BY <2>3
  <2>5. IsFiniteSet(U)
    BY FS_Subset
  <2>6. Cardinality(U \ {x}) = n - 1 /\ IsFiniteSet(U \ {x})
    BY <2>3, <2>4, <2>5, FS_RemoveElement
  <2>7. n - 1 \in Nat
    BY <2>6, FS_CardinalityType
  <2>8. n - 1 \notin T
    BY <2>2, <2>7
  <2>9. U \ {x} = {} \/ Topped(U \ {x})
    BY <2>6, <2>7, <2>8
  <2> QED BY <2>3, <2>4, <2>9
<1> QED BY <1>1 DEF Max

(* And a least one.                                                        *)
LEMMA MinIsLeast ==
    ASSUME NEW S \in SUBSET Nat, S # {}
    PROVE  Min(S) \in S /\ \A y \in S : Min(S) <= y
BY NatLeast DEF Min

(* A sum over 1..n exists and takes one value at a time.                   *)
Adds(f, v, n) == f = [i \in 0..n |-> IF i = 0 THEN 0 ELSE f[i - 1] + v[i]]

(* A sum of n terms is extended by one term at a time,                     *)
LEMMA AddsExtend ==
    ASSUME NEW n \in Nat, NEW v, NEW f, Adds(f, v, n)
    PROVE  Adds([i \in 0..(n + 1) |-> IF i = n + 1 THEN f[n] + v[n + 1] ELSE f[i]], v, n + 1)
BY DEF Adds

(* so the function that sums exists for every number of terms,             *)
LEMMA AddsExists ==
    ASSUME NEW N \in Nat, NEW v
    PROVE  \E f : Adds(f, v, N)
<1> DEFINE H == {n \in Nat : \E f : Adds(f, v, n)}
<1>1. 0 \in H
  <2>1. Adds([i \in 0..0 |-> 0], v, 0)
    BY DEF Adds
  <2> QED BY <2>1
<1>2. \A n \in 0..(N - 1) : n \in H => n + 1 \in H
  <2> SUFFICES ASSUME NEW n \in 0..(N - 1), n \in H PROVE n + 1 \in H
    OBVIOUS
  <2>1. PICK f : Adds(f, v, n)
    OBVIOUS
  <2>2. n \in Nat /\ n + 1 \in Nat
    OBVIOUS
  <2> QED BY <2>1, <2>2, AddsExtend
<1> HIDE DEF H
<1>3. N \in H
  <2>1. H \in SUBSET Nat BY DEF H
  <2> QED BY <1>1, <1>2, <2>1, NatReaches
<1> QED BY <1>3 DEF H

(* there is only one of them,                                              *)
LEMMA AddsUnique ==
    ASSUME NEW n \in Nat, NEW v, NEW f, NEW g, NEW m \in 0..n,
           Adds(f, v, n), Adds(g, v, m)
    PROVE  \A i \in 0..m : f[i] = g[i]
<1> DEFINE H == {i \in Nat : f[i] = g[i]}
<1>1. 0 \in H BY DEF Adds
<1>2. \A i \in 0..(m - 1) : i \in H => i + 1 \in H BY DEF Adds
<1>3. H \in SUBSET Nat OBVIOUS
<1> HIDE DEF H
<1>4. \A i \in 0..m : i \in H BY <1>1, <1>2, <1>3, NatReaches
<1> QED BY <1>4 DEF H

(* and Total takes its value from it:                                      *)
LEMMA TotalAdds ==
    ASSUME NEW v, NEW n \in Nat
    PROVE  \A f : Adds(f, v, n) => Total(v, n) = f[n]
<1> DEFINE g == CHOOSE f : f = [i \in 0..n |-> IF i = 0 THEN 0 ELSE f[i - 1] + v[i]]
<1>1. Total(v, n) = g[n]
  BY DEF Total
<1>2. Adds(g, v, n)
  BY AddsExists DEF Adds
<1> HIDE DEF g
<1> QED BY <1>1, <1>2, AddsUnique

(* nothing for no term, and each further term added to those before it.    *)
LEMMA TotalSteps ==
    ASSUME NEW v, NEW n \in Nat
    PROVE  Total(v, 0) = 0 /\ Total(v, n + 1) = Total(v, n) + v[n + 1]
<1>1. PICK f : Adds(f, v, n) BY AddsExists
<1>2. Total(v, n) = f[n] BY <1>1, TotalAdds
<1> DEFINE g == [i \in 0..(n + 1) |-> IF i = n + 1 THEN f[n] + v[n + 1] ELSE f[i]]
<1>3. Adds(g, v, n + 1) BY <1>1, AddsExtend
<1>4. Total(v, n + 1) = g[n + 1] BY <1>3, TotalAdds
<1>5. PICK h : Adds(h, v, 0) BY AddsExists
<1>6. Total(v, 0) = h[0] /\ h[0] = 0
  <2>1. 0 \in Nat OBVIOUS
  <2>2. Total(v, 0) = h[0] BY <1>5, <2>1, TotalAdds
  <2> QED BY <1>5, <2>2 DEF Adds
<1> QED BY <1>2, <1>4, <1>6

------------------------------------------------------------------------------
(* Attempts and the books of a row (internal/queuelab).                    *)

(* Events with an instant.                                                 *)
Instantaneous(ev) == \A i \in DOMAIN ev : ev[i].at \in Nat

(* The attempts of a row are finitely many, and none starts with another.  *)
LEMMA AttemptsAreApart ==
    ASSUME NEW S, NEW ev \in Seq(S), Instantaneous(ev), NEW job, NEW h
    PROVE  /\ IsFiniteSet(Attempts(ev, job, h))
           /\ \A a \in Attempts(ev, job, h) : a.readyNs \in Nat /\ a.seq \in Nat
           /\ \A a, b \in Attempts(ev, job, h) : a.seq = b.seq => a = b
           /\ \A a \in Attempts(ev, job, h) : a.stopped => a.stopNs \in Nat
<1> DEFINE I == Of(ev, job, "PodReady", h)
           A == Attempts(ev, job, h)
           f == [i \in I |-> Attempt(ev, job, ev[i].uid, h)]
           Ready(u) == {i \in I : ev[i].uid = u}
           Halts(u) == {i \in Of(ev, job, "AttemptStopped", h) : ev[i].uid = u /\ ReadyBefore(ev, i, h)}
<1>1. I \subseteq 1..Len(ev) /\ Len(ev) \in Nat
  BY DEF Of
<1>2. IsFiniteSet(I)
  <2>1. IsFiniteSet(1..Len(ev)) /\ I \in SUBSET (1..Len(ev))
    BY <1>1, FS_Interval
  <2> QED BY <2>1, FS_Subset
<1>3. f \in Surjection(I, A)
  <2>1. \A i \in I : Attempt(ev, job, ev[i].uid, h) \in A
    BY DEF Attempts
  <2>2. f \in [I -> A]
    BY Zenon, <2>1
  <2>3. \A a \in A : \E i \in I : f[i] = a
    BY Zenon DEF Attempts
  <2> QED BY Zenon, <2>2, <2>3 DEF Surjection
<1>4. IsFiniteSet(A)
  BY Zenon, <1>2, <1>3, FS_Surjection
<1>5. ASSUME NEW a \in A
      PROVE  \E u : /\ Ready(u) # {} /\ a.uid = u
                    /\ a.readyNs = Min({ev[i].at : i \in Ready(u)}) /\ a.seq = Min(Ready(u))
                    /\ a.stopped = (Halts(u) # {})
                    /\ a.stopped => a.stopNs = Min({ev[i].at : i \in Halts(u)})
                    /\ a = Attempt(ev, job, u, h)
  <2>1. PICK i \in I : a = Attempt(ev, job, ev[i].uid, h)
    BY DEF Attempts
  <2>2. i \in Ready(ev[i].uid)
    OBVIOUS
  <2> QED BY Zenon, <2>1, <2>2 DEF Attempt
<1>6. ASSUME NEW J \in SUBSET (1..Len(ev)), J # {}
      PROVE  Min({ev[i].at : i \in J}) \in Nat /\ Min(J) \in J
  <2>1. {ev[i].at : i \in J} \in SUBSET Nat /\ {ev[i].at : i \in J} # {}
    <3>1. \A i \in J : ev[i].at \in Nat
      BY DEF Instantaneous
    <3> QED BY <1>6, <3>1
  <2>2. J \in SUBSET Nat
    OBVIOUS
  <2>3. Min({ev[i].at : i \in J}) \in {ev[i].at : i \in J}
    <3> DEFINE Q == {ev[i].at : i \in J}
    <3>1. Q \in SUBSET Nat /\ Q # {} BY <2>1
    <3> HIDE DEF Q
    <3>2. Min(Q) \in Q BY <3>1, MinIsLeast
    <3> QED BY <3>2 DEF Q
  <2>4. Min(J) \in J
    BY <1>6, <2>2, MinIsLeast
  <2> QED BY <2>1, <2>3, <2>4
<1>7. \A u : Ready(u) \in SUBSET (1..Len(ev)) /\ Halts(u) \in SUBSET (1..Len(ev))
  BY <1>1 DEF Of
<1>8. ASSUME NEW a \in A PROVE a.readyNs \in Nat /\ a.seq \in Nat /\ (a.stopped => a.stopNs \in Nat)
  <2>1. PICK u : /\ Ready(u) # {}
                 /\ a.readyNs = Min({ev[i].at : i \in Ready(u)}) /\ a.seq = Min(Ready(u))
                 /\ a.stopped = (Halts(u) # {})
                 /\ a.stopped => a.stopNs = Min({ev[i].at : i \in Halts(u)})
    BY <1>5
  <2>2. a.readyNs \in Nat /\ a.seq \in Ready(u)
    BY <1>6, <1>7, <2>1
  <2>3. a.stopped => a.stopNs \in Nat
    <3> HIDE DEF Halts
    <3> QED BY <1>6, <1>7, <2>1
  <2> QED BY <1>7, <2>2, <2>3
<1>9. ASSUME NEW a \in A, NEW b \in A, a.seq = b.seq PROVE a = b
  <2>1. PICK u : Ready(u) # {} /\ a.seq = Min(Ready(u)) /\ a = Attempt(ev, job, u, h)
    BY <1>5
  <2>2. PICK v : Ready(v) # {} /\ b.seq = Min(Ready(v)) /\ b = Attempt(ev, job, v, h)
    BY <1>5
  <2>3. a.seq \in Ready(u) /\ b.seq \in Ready(v)
    BY <1>6, <1>7, <2>1, <2>2
  <2>4. u = v
    BY <1>9, <2>3
  <2> QED BY <2>1, <2>2, <2>4
<1> QED BY <1>4, <1>8, <1>9

(* Finitely many attempts can be counted off in the order they start.      *)
LEMMA StartOrderCounts ==
    ASSUME NEW A, IsFiniteSet(A),
           \A a \in A : a.readyNs \in Nat /\ a.seq \in Nat,
           \A a, b \in A : a.seq = b.seq => a = b,
           NEW n \in 1..Cardinality(A)
    PROVE  \E a \in A : Cardinality({b \in A : StartsBefore(b, a)}) = n - 1
<1> DEFINE Ahead(a) == {b \in A : StartsBefore(b, a)}
           N == Cardinality(A)
           f == [a \in A |-> Cardinality(Ahead(a))]
<1>0. N \in Nat
  BY FS_CardinalityType
<1>1. ASSUME NEW a \in A
      PROVE  IsFiniteSet(Ahead(a)) /\ f[a] \in 0..(N - 1)
  <2>1. Ahead(a) \in SUBSET A /\ a \notin Ahead(a)
    BY DEF StartsBefore
  <2>2. IsFiniteSet(Ahead(a)) /\ Cardinality(Ahead(a)) <= N /\ Cardinality(Ahead(a)) \in Nat
    BY <2>1, FS_Subset, FS_CardinalityType
  <2>3. Cardinality(Ahead(a)) # N
    BY <2>1, FS_Subset
  <2> QED BY <1>0, <2>2, <2>3
<1>2. ASSUME NEW a \in A, NEW b \in A, StartsBefore(a, b) PROVE f[a] < f[b]
  <2>1. Ahead(a) \in SUBSET Ahead(b) /\ a \in Ahead(b) /\ a \notin Ahead(a)
    BY <1>2 DEF StartsBefore
  <2>2. Cardinality(Ahead(a)) <= Cardinality(Ahead(b)) /\ Cardinality(Ahead(a)) # Cardinality(Ahead(b))
    BY <1>1, <2>1, FS_Subset
  <2>3. f[a] = Cardinality(Ahead(a)) /\ f[b] = Cardinality(Ahead(b))
    OBVIOUS
  <2>4. f[a] \in Int /\ f[b] \in Int
    <3> HIDE DEF f
    <3>1. f[a] \in 0..(N - 1) /\ f[b] \in 0..(N - 1)
      BY <1>1
    <3> QED BY <1>0, <3>1
  <2> HIDE DEF f, Ahead
  <2> QED BY <2>2, <2>3, <2>4
<1>3. \A a, b \in A : a = b \/ StartsBefore(a, b) \/ StartsBefore(b, a)
  BY DEF StartsBefore
<1>4. f \in Injection(A, 0..(N - 1))
  <2> HIDE DEF f
  <2>1. ASSUME NEW a \in A, NEW b \in A, f[a] = f[b] PROVE a = b
    <3>1. f[a] \in 0..(N - 1) /\ f[b] \in 0..(N - 1)
      BY <1>1
    <3> HIDE DEF f, N
    <3>2. f[a] \in Int /\ f[b] \in Int
      BY <1>0, <3>1
    <3> QED BY <1>2, <1>3, <2>1, <3>2
  <2>2. f \in [A -> 0..(N - 1)]
    BY <1>1 DEF f
  <2> HIDE DEF N
  <2> QED BY <2>1, <2>2 DEF Injection, IsInjective
<1>5. f \in Surjection(A, 0..(N - 1))
  <2>1. IsFiniteSet(0..(N - 1)) /\ Cardinality(0..(N - 1)) = N
    <3>1. 0 \in Int /\ N - 1 \in Int BY <1>0
    <3> HIDE DEF N
    <3> QED BY <1>0, <3>1, FS_Interval
  <2> QED BY <1>4, <2>1, FS_Injection
<1>6. PICK a \in A : f[a] = n - 1
  <2>1. n - 1 \in 0..(N - 1)
    BY <1>0
  <2> HIDE DEF f, N
  <2> QED BY <1>5, <2>1 DEF Surjection
<1> QED BY <1>6

(* The row's attempts in start order are a sequence of its attempts.       *)
LEMMA StartOrderIs ==
    ASSUME NEW S, NEW ev \in Seq(S), Instantaneous(ev), NEW job, NEW h
    PROVE  attemptsInStartOrder(ev, job, h) \in Seq(Attempts(ev, job, h))
<1> DEFINE A == Attempts(ev, job, h)
           as == attemptsInStartOrder(ev, job, h)
<1>1. /\ IsFiniteSet(A)
      /\ \A a \in A : a.readyNs \in Nat /\ a.seq \in Nat
      /\ \A a, b \in A : a.seq = b.seq => a = b
  BY AttemptsAreApart
<1> HIDE DEF A
<1>2. Cardinality(A) \in Nat
  BY <1>1, FS_CardinalityType
<1>3. \A n \in 1..Cardinality(A) : \E a \in A : Cardinality({b \in A : StartsBefore(b, a)}) = n - 1
  BY <1>1, StartOrderCounts
<1>4. as = [n \in 1..Cardinality(A) |->
              CHOOSE a \in A : Cardinality({b \in A : StartsBefore(b, a)}) = n - 1]
  BY DEF attemptsInStartOrder, A
<1>5. as \in [1..Cardinality(A) -> A]
  BY <1>3, <1>4
<1> QED BY <1>2, <1>5 DEF A

(* An attempt holds its devices for some time or for none.                 *)
LEMMA HeldIsCount ==
    ASSUME NEW S, NEW ev \in Seq(S), Instantaneous(ev), NEW job, NEW h \in Int,
           NEW a \in Attempts(ev, job, h)
    PROVE  Held(ev, job, a, h) \in Nat
<1> DEFINE done == Instants(ev, job, "Completed", h)
           end  == CASE a.stopped -> Min({a.stopNs, h})
                     [] ~a.stopped /\ done # {} -> Min(done)
                     [] OTHER -> h
<1>1. a.readyNs \in Nat /\ (a.stopped => a.stopNs \in Nat)
  BY AttemptsAreApart
<1>0. \A x, y \in Int : /\ Min({x, y}) \in Int
                        /\ Max({x, y}) \in Int /\ Max({x, y}) >= y
  <2> SUFFICES ASSUME NEW x \in Int, NEW y \in Int
               PROVE  Min({x, y}) \in Int /\ Max({x, y}) \in Int /\ Max({x, y}) >= y
    OBVIOUS
  <2>1. CASE x <= y
    <3>1. Min({x, y}) = x \/ Min({x, y}) = y
      BY <2>1 DEF Min
    <3>2. Max({x, y}) = y
      BY <2>1 DEF Max
    <3> QED BY <3>1, <3>2
  <2>2. CASE ~(x <= y)
    <3>1. Min({x, y}) = y
      BY <2>2 DEF Min
    <3>2. Max({x, y}) = x
      BY <2>2 DEF Max
    <3> QED BY <2>2, <3>1, <3>2
  <2> QED BY <2>1, <2>2
<1>2. a.stopped => Min({a.stopNs, h}) \in Int
  <2>1. a.stopped => a.stopNs \in Int
    BY <1>1
  <2> QED BY <1>0, <2>1
<1>3. done # {} => Min(done) \in Int
  <2>1. done \in SUBSET Nat
    BY DEF Instants, Of, Instantaneous
  <2> HIDE DEF done
  <2>2. done # {} => Min(done) \in done
    BY <2>1, MinIsLeast
  <2>3. done # {} => Min(done) \in Nat
    BY <2>1, <2>2
  <2> QED BY <2>3
<1>4. a.stopped \in BOOLEAN
  <2>1. PICK u : a = Attempt(ev, job, u, h)
    BY DEF Attempts
  <2> QED BY <2>1 DEF Attempt
<1>5. end \in Int
  <2> HIDE DEF done
  <2> QED BY <1>2, <1>3, <1>4
<1>6. occupancyEnd(ev, job, a, h) = Max({end, a.readyNs})
  BY DEF occupancyEnd
<1> HIDE DEF end
<1>7. Max({end, a.readyNs}) \in Int /\ Max({end, a.readyNs}) >= a.readyNs
  <2>1. a.readyNs \in Int
    BY <1>1
  <2> QED BY Zenon, <1>0, <1>5, <2>1
<1> QED BY <1>1, <1>6, <1>7 DEF Held

(* A sum of counts is a count.                                             *)
LEMMA TotalIsCount ==
    ASSUME NEW N \in Nat, NEW v, \A i \in 1..N : v[i] \in Nat
    PROVE  \A m \in 0..N : Total(v, m) \in Nat
<1> DEFINE H == {n \in Nat : Total(v, n) \in Nat}
<1>1. 0 \in H
  <2>1. 0 \in Nat /\ Total(v, 0) = 0
    BY TotalSteps
  <2> QED BY <2>1
<1>2. ASSUME NEW i \in 0..(N - 1), i \in H PROVE i + 1 \in H
  <2>1. i \in Nat /\ i + 1 \in 1..N
    OBVIOUS
  <2>2. Total(v, i + 1) = Total(v, i) + v[i + 1] /\ v[i + 1] \in Nat
    BY <2>1, TotalSteps
  <2> QED BY <1>2, <2>1, <2>2
<1>3. H \in SUBSET Nat
  OBVIOUS
<1> HIDE DEF H
<1>4. \A i \in 0..N : i \in H
  BY <1>1, <1>2, <1>3, NatReaches
<1> QED BY <1>4 DEF H

(* A sum of more counts is no smaller.                                     *)
LEMMA TotalGrows ==
    ASSUME NEW N \in Nat, NEW v, \A i \in 1..N : v[i] \in Nat, NEW m \in 0..N
    PROVE  Total(v, m) <= Total(v, N)
<1> DEFINE H == {n \in Nat : n + m <= N => Total(v, m) <= Total(v, n + m)}
<1>0. Total(v, m) \in Nat
  BY TotalIsCount
<1>1. 0 \in H
  BY <1>0
<1>2. ASSUME NEW i \in 0..(N - 1), i \in H PROVE i + 1 \in H
  <2> SUFFICES ASSUME i + 1 + m <= N PROVE Total(v, m) <= Total(v, i + 1 + m)
    OBVIOUS
  <2>1. i + m \in Nat /\ i + m + 1 \in 1..N /\ i + m \in 0..N
    OBVIOUS
  <2>2. Total(v, i + m + 1) = Total(v, i + m) + v[i + m + 1] /\ v[i + m + 1] \in Nat
    BY <2>1, TotalSteps
  <2>3. Total(v, i + m) \in Nat
    BY <2>1, TotalIsCount
  <2>4. Total(v, m) <= Total(v, i + m)
    BY <1>2, <2>1
  <2>5. i + 1 + m = i + m + 1
    OBVIOUS
  <2> QED BY <1>0, <2>2, <2>3, <2>4, <2>5
<1>3. H \in SUBSET Nat
  OBVIOUS
<1> HIDE DEF H
<1>4. \A i \in 0..N : i \in H
  BY <1>1, <1>2, <1>3, NatReaches
<1>5. N - m \in H
  BY <1>4
<1>6. (N - m) + m = N
  OBVIOUS
<1> QED BY <1>5, <1>6 DEF H

(* A sum of smaller counts is smaller.                                     *)
LEMMA TotalsCompare ==
    ASSUME NEW N \in Nat, NEW v, NEW w,
           \A i \in 1..N : v[i] \in Nat /\ w[i] \in Nat /\ v[i] <= w[i]
    PROVE  Total(v, N) <= Total(w, N)
<1> DEFINE H == {n \in Nat : n <= N => Total(v, n) <= Total(w, n)}
<1>1. 0 \in H
  <2>1. 0 \in Nat /\ Total(v, 0) = 0 /\ Total(w, 0) = 0
    BY TotalSteps
  <2> QED BY <2>1
<1>2. ASSUME NEW i \in 0..(N - 1), i \in H PROVE i + 1 \in H
  <2>1. i \in Nat /\ i + 1 \in 1..N /\ i \in 0..N
    OBVIOUS
  <2>2. /\ Total(v, i + 1) = Total(v, i) + v[i + 1]
        /\ Total(w, i + 1) = Total(w, i) + w[i + 1]
    BY <2>1, TotalSteps
  <2>3. Total(v, i) \in Nat /\ Total(w, i) \in Nat
    BY <2>1, TotalIsCount
  <2>4. v[i + 1] \in Nat /\ w[i + 1] \in Nat /\ v[i + 1] <= w[i + 1]
    BY <2>1
  <2>5. Total(v, i) <= Total(w, i)
    BY <1>2, <2>1
  <2>6. Total(v, i + 1) <= Total(w, i + 1)
    BY <2>2, <2>3, <2>4, <2>5
  <2> QED BY <2>1, <2>6
<1>3. H \in SUBSET Nat
  OBVIOUS
<1> HIDE DEF H
<1>4. \A i \in 0..N : i \in H
  BY <1>1, <1>2, <1>3, NatReaches
<1> QED BY <1>4 DEF H

(* Sums are added term by term.                                            *)
LEMMA TotalsAdd ==
    ASSUME NEW N \in Nat, NEW v, NEW w, NEW x,
           \A i \in 1..N : v[i] \in Nat /\ w[i] \in Nat /\ x[i] \in Nat /\ v[i] + w[i] = x[i]
    PROVE  Total(v, N) + Total(w, N) = Total(x, N)
<1> DEFINE H == {n \in Nat : n <= N => Total(v, n) + Total(w, n) = Total(x, n)}
<1>1. 0 \in H
  <2>1. 0 \in Nat /\ Total(v, 0) = 0 /\ Total(w, 0) = 0 /\ Total(x, 0) = 0
    BY TotalSteps
  <2> QED BY <2>1
<1>2. ASSUME NEW i \in 0..(N - 1), i \in H PROVE i + 1 \in H
  <2>1. i \in Nat /\ i + 1 \in 1..N /\ i \in 0..N
    OBVIOUS
  <2>2. /\ Total(v, i + 1) = Total(v, i) + v[i + 1]
        /\ Total(w, i + 1) = Total(w, i) + w[i + 1]
        /\ Total(x, i + 1) = Total(x, i) + x[i + 1]
    BY <2>1, TotalSteps
  <2>3. Total(v, i) \in Nat /\ Total(w, i) \in Nat /\ Total(x, i) \in Nat
    BY <2>1, TotalIsCount
  <2>4. v[i + 1] \in Nat /\ w[i + 1] \in Nat /\ x[i + 1] \in Nat /\ v[i + 1] + w[i + 1] = x[i + 1]
    BY <2>1
  <2>5. Total(v, i) + Total(w, i) = Total(x, i)
    BY <1>2, <2>1
  <2>6. Total(v, i + 1) + Total(w, i + 1) = Total(x, i + 1)
    BY <2>2, <2>3, <2>4, <2>5
  <2> QED BY <2>1, <2>6
<1>3. H \in SUBSET Nat
  OBVIOUS
<1> HIDE DEF H
<1>4. \A i \in 0..N : i \in H
  BY <1>1, <1>2, <1>3, NatReaches
<1> QED BY <1>4 DEF H

(* The books of the first n of a row's attempts add up to what they held.  *)
LEMMA BooksAddUp ==
    ASSUME NEW ev, NEW job, NEW h, NEW A, NEW all \in Seq(A), NEW some \in Seq(A),
           \A a \in A : Held(ev, job, a, h) \in Nat,
           Len(some) <= Len(all), \A i \in 1..Len(some) : some[i] = all[i]
    PROVE  LET sum(books) == Total(HeldUnder(ev, job, some, books, h), Len(some))
           IN /\ 0 <= sum({"wasted"}) /\ sum({"wasted"}) <= sum({"wasted", "censored"})
              /\ 0 <= sum({"ineffective", "credited", "unknown"})
              /\ sum({"wasted", "censored"}) + sum({"ineffective", "credited", "unknown"})
                   <= Total([i \in 1..Len(all) |-> Held(ev, job, all[i], h)], Len(all))
<1> DEFINE w == HeldUnder(ev, job, some, {"wasted"}, h)
           l == HeldUnder(ev, job, some, {"wasted", "censored"}, h)
           u == HeldUnder(ev, job, some, {"ineffective", "credited", "unknown"}, h)
           o == [i \in 1..Len(all) |-> Held(ev, job, all[i], h)]
           n == Len(some)
<1>1. n \in Nat /\ Len(all) \in Nat /\ n \in 0..Len(all)
  OBVIOUS
<1>2. \A a : chargeWaste(ev, job, a, h) \in {"wasted", "censored", "ineffective", "credited", "unknown"}
  BY DEF chargeWaste
<1>3. \A i \in 1..n : /\ w[i] \in Nat /\ l[i] \in Nat /\ u[i] \in Nat /\ o[i] \in Nat
                      /\ w[i] <= l[i] /\ l[i] + u[i] = o[i]
  <2> SUFFICES ASSUME NEW i \in 1..n
               PROVE  /\ w[i] \in Nat /\ l[i] \in Nat /\ u[i] \in Nat /\ o[i] \in Nat
                      /\ w[i] <= l[i] /\ l[i] + u[i] = o[i]
    OBVIOUS
  <2> DEFINE held == Held(ev, job, some[i], h)
             book == chargeWaste(ev, job, some[i], h)
  <2>1. /\ w[i] = IF book \in {"wasted"} THEN held ELSE 0
        /\ l[i] = IF book \in {"wasted", "censored"} THEN held ELSE 0
        /\ u[i] = IF book \in {"ineffective", "credited", "unknown"} THEN held ELSE 0
        /\ o[i] = held
    BY <1>1 DEF HeldUnder
  <2>2. held \in Nat
    OBVIOUS
  <2>3. book \in {"wasted", "censored", "ineffective", "credited", "unknown"}
    BY <1>2
  <2> HIDE DEF held, book, w, l, u, o
  <2> QED BY <2>1, <2>2, <2>3
<1>4. \A i \in 1..Len(all) : o[i] \in Nat
  OBVIOUS
<1> HIDE DEF w, l, u, o, n
<1>5. Total(w, n) <= Total(l, n) /\ Total(l, n) + Total(u, n) = Total(o, n)
  <2>1. Total(w, n) <= Total(l, n)
    BY <1>1, <1>3, TotalsCompare
  <2>2. Total(l, n) + Total(u, n) = Total(o, n)
    <3>1. \A i \in 1..n : l[i] \in Nat /\ u[i] \in Nat /\ o[i] \in Nat /\ l[i] + u[i] = o[i]
      BY <1>3
    <3>2. n \in Nat
      BY <1>1
    <3>3. \A p, q, r : (\A i \in 1..n : /\ p[i] \in Nat /\ q[i] \in Nat /\ r[i] \in Nat
                                          /\ p[i] + q[i] = r[i])
                          => Total(p, n) + Total(q, n) = Total(r, n)
      BY <3>2, TotalsAdd
    <3> QED BY <3>1, <3>3
  <2> QED BY <2>1, <2>2
<1>6. Total(w, n) \in Nat /\ Total(l, n) \in Nat /\ Total(u, n) \in Nat
  <2>1. n \in 0..n
    BY <1>1
  <2> QED BY <1>1, <1>3, <2>1, TotalIsCount
<1>7. Total(o, n) <= Total(o, Len(all))
  BY <1>1, <1>4, TotalGrows
<1>8. Total(o, n) \in Nat /\ Total(o, Len(all)) \in Nat
  <2>1. Len(all) \in 0..Len(all)
    BY <1>1
  <2> QED BY <1>1, <1>4, <2>1, TotalIsCount
<1>9. /\ 0 <= Total(w, n) /\ Total(w, n) <= Total(l, n) /\ 0 <= Total(u, n)
      /\ Total(l, n) + Total(u, n) <= Total(o, Len(all))
  BY <1>5, <1>6, <1>7, <1>8
<1> QED BY <1>9 DEF w, l, u, o, n

(* What is charged to a row's preempted attempts is part of what the row   *)
(* held, when no more preemptions are counted than attempts.               *)
LEMMA ChargesAddUp ==
    ASSUME NEW S, NEW ev \in Seq(S), Instantaneous(ev), NEW job, NEW h \in Int,
           Cardinality(Of(ev, job, "Preempted", h)) <= Len(attemptsInStartOrder(ev, job, h))
    PROVE  LET o == WorkloadOutcome(ev, job, h)
           IN /\ 0 <= o.wasted /\ o.wasted <= o.lowerBound /\ 0 <= o.unattributed
              /\ o.lowerBound + o.unattributed <= o.occupancy
<1> DEFINE all == attemptsInStartOrder(ev, job, h)
           A   == Attempts(ev, job, h)
           n   == Cardinality(Of(ev, job, "Preempted", h))
           some == pairPreemptionsToAttempts(all, n)
<1>1. all \in Seq(A)
  BY StartOrderIs
<1>2. n \in Nat
  <2>1. Of(ev, job, "Preempted", h) \in SUBSET (1..Len(ev)) /\ Len(ev) \in Nat
    BY DEF Of
  <2>2. IsFiniteSet(1..Len(ev))
    BY <2>1, FS_Interval
  <2> QED BY <2>1, <2>2, FS_Subset, FS_CardinalityType
<1>3. \A a \in A : Held(ev, job, a, h) \in Nat
  BY HeldIsCount
<1>4. some \in Seq(A) /\ Len(some) <= Len(all) /\ \A i \in 1..Len(some) : some[i] = all[i]
  <2> SUFFICES ASSUME NEW X, NEW s \in Seq(X), NEW m \in Nat, m <= Len(s)
               PROVE  /\ SubSeq(s, 1, m) \in Seq(X) /\ Len(SubSeq(s, 1, m)) <= Len(s)
                      /\ \A i \in 1..Len(SubSeq(s, 1, m)) : SubSeq(s, 1, m)[i] = s[i]
    BY <1>1, <1>2 DEF pairPreemptionsToAttempts
  <2> QED OBVIOUS
<1>5. LET sum(books) == Total(HeldUnder(ev, job, some, books, h), Len(some))
      IN /\ 0 <= sum({"wasted"}) /\ sum({"wasted"}) <= sum({"wasted", "censored"})
         /\ 0 <= sum({"ineffective", "credited", "unknown"})
         /\ sum({"wasted", "censored"}) + sum({"ineffective", "credited", "unknown"})
              <= Total([i \in 1..Len(all) |-> Held(ev, job, all[i], h)], Len(all))
  <2> HIDE DEF A, all, some
  <2> QED BY <1>1, <1>3, <1>4, BooksAddUp
<1> QED BY <1>5 DEF WorkloadOutcome

------------------------------------------------------------------------------
(* Positions of events among those of their object.                        *)

(* The events of an object.                                                *)
Kindred(s, u) == {j \in DOMAIN s : s[j].uid = u}

(* How many events of an object a sequence holds.                          *)
Recorded(s, u) == Cardinality(Kindred(s, u))

(* An object's events are finitely many, so their number is one.           *)
LEMMA KindredAre ==
    ASSUME NEW S, NEW s \in Seq(S), NEW u
    PROVE  /\ IsFiniteSet(Kindred(s, u)) /\ Kindred(s, u) \in SUBSET (1..Len(s))
           /\ Recorded(s, u) \in Nat /\ Len(s) \in Nat
           /\ Recorded(s, u) = 0 <=> Kindred(s, u) = {}
<1>1. Kindred(s, u) \in SUBSET (1..Len(s)) /\ Len(s) \in Nat
  BY DEF Kindred
<1>2. IsFiniteSet(1..Len(s))
  BY <1>1, FS_Interval
<1>3. IsFiniteSet(Kindred(s, u))
  BY <1>1, <1>2, FS_Subset
<1> QED BY <1>1, <1>3, FS_CardinalityType, FS_EmptySet DEF Recorded

(* One more event is counted with its own object and with no other.        *)
LEMMA RecordedAppend ==
    ASSUME NEW S, NEW s \in Seq(S), NEW e \in S, NEW u
    PROVE  Recorded(Append(s, e), u) = Recorded(s, u) + (IF e.uid = u THEN 1 ELSE 0)
<1>1. IsFiniteSet(Kindred(s, u)) /\ Recorded(s, u) \in Nat /\ Len(s) + 1 \notin Kindred(s, u)
  BY KindredAre
<1>2. CASE e.uid = u
  <2>1. Kindred(Append(s, e), u) = Kindred(s, u) \cup {Len(s) + 1}
    BY <1>2 DEF Kindred
  <2>2. Cardinality(Kindred(s, u) \cup {Len(s) + 1}) = Cardinality(Kindred(s, u)) + 1
    BY <1>1, FS_AddElement
  <2> QED BY <1>2, <2>1, <2>2 DEF Recorded
<1>3. CASE e.uid # u
  <2>1. Kindred(Append(s, e), u) = Kindred(s, u)
    BY <1>3 DEF Kindred
  <2> QED BY <1>1, <1>3, <2>1 DEF Recorded
<1> QED BY <1>2, <1>3

(* An event's position among those of its object.                          *)
LEMMA NthBounds ==
    ASSUME NEW S, NEW s \in Seq(S), NEW i \in DOMAIN s
    PROVE  Nth(s, i) \in Nat /\ 1 <= Nth(s, i) /\ Nth(s, i) <= Recorded(s, s[i].uid)
<1> DEFINE J == {j \in 1..i : s[j].uid = s[i].uid}
           K == Kindred(s, s[i].uid)
<1>1. i \in 1..Len(s) /\ Len(s) \in Nat
  OBVIOUS
<1>2. J \in SUBSET K /\ i \in J
  BY <1>1 DEF Kindred
<1>3. IsFiniteSet(K) /\ Cardinality(K) \in Nat
  BY KindredAre DEF Recorded
<1>4. IsFiniteSet(J) /\ Cardinality(J) <= Cardinality(K)
  BY <1>2, <1>3, FS_Subset
<1>5. Cardinality(J) \in Nat /\ Cardinality(J) # 0
  BY <1>2, <1>4, FS_CardinalityType, FS_EmptySet
<1> HIDE DEF J, K
<1>6. 1 <= Cardinality(J)
  BY <1>5
<1> QED BY <1>4, <1>5, <1>6 DEF J, K, Nth, Recorded

(* The events of one object are told apart by their positions.             *)
LEMMA NthGrows ==
    ASSUME NEW S, NEW s \in Seq(S), NEW i \in DOMAIN s, NEW j \in DOMAIN s,
           s[i].uid = s[j].uid, i < j
    PROVE  Nth(s, i) < Nth(s, j)
<1> DEFINE I == {n \in 1..i : s[n].uid = s[i].uid}
           J == {n \in 1..j : s[n].uid = s[j].uid}
<1>1. i \in 1..Len(s) /\ j \in 1..Len(s) /\ Len(s) \in Nat
  OBVIOUS
<1>2. I \in SUBSET J /\ j \in J /\ j \notin I
  BY <1>1
<1>3. IsFiniteSet(1..j)
  BY <1>1, FS_Interval
<1>4. IsFiniteSet(J)
  BY <1>3, FS_Subset
<1>5. Cardinality(I) <= Cardinality(J) /\ Cardinality(I) # Cardinality(J) /\ IsFiniteSet(I)
  BY <1>2, <1>4, FS_Subset
<1>6. Cardinality(I) \in Nat /\ Cardinality(J) \in Nat
  BY <1>4, <1>5, FS_CardinalityType
<1> HIDE DEF I, J
<1>7. Cardinality(I) < Cardinality(J)
  BY <1>5, <1>6
<1> QED BY <1>7 DEF I, J, Nth

(* Two events of one object at the same position are the same event.       *)
LEMMA NthUnique ==
    ASSUME NEW S, NEW s \in Seq(S), NEW i \in DOMAIN s, NEW j \in DOMAIN s,
           s[i].uid = s[j].uid, Nth(s, i) = Nth(s, j)
    PROVE  i = j
<1>1. i \in Nat /\ j \in Nat /\ Nth(s, i) \in Nat
  BY NthBounds
<1>2. ~(i < j) /\ ~(j < i)
  BY <1>1, NthGrows
<1> QED BY <1>1, <1>2

(* An event that is appended leaves every position as it was, and is its   *)
(* object's next.                                                          *)
LEMMA NthAppend ==
    ASSUME NEW S, NEW s \in Seq(S), NEW e \in S
    PROVE  /\ \A i \in DOMAIN s : Nth(Append(s, e), i) = Nth(s, i)
           /\ Nth(Append(s, e), Len(s) + 1) = Recorded(s, e.uid) + 1
<1>1. ASSUME NEW i \in DOMAIN s PROVE Nth(Append(s, e), i) = Nth(s, i)
  <2>1. \A n \in 1..i : Append(s, e)[n] = s[n]
    OBVIOUS
  <2>2. Append(s, e)[i] = s[i]
    OBVIOUS
  <2>3. {j \in 1..i : Append(s, e)[j].uid = Append(s, e)[i].uid} = {j \in 1..i : s[j].uid = s[i].uid}
    BY <2>1, <2>2
  <2> QED BY <2>3 DEF Nth
<1>2. Nth(Append(s, e), Len(s) + 1) = Recorded(s, e.uid) + 1
  <2> DEFINE t == Append(s, e)
             n == Len(s) + 1
  <2>1. t[n] = e /\ DOMAIN t = 1..n
    OBVIOUS
  <2>2. {j \in 1..n : t[j].uid = t[n].uid} = Kindred(t, e.uid)
    BY <2>1 DEF Kindred
  <2>3. Recorded(t, e.uid) = Recorded(s, e.uid) + 1
    BY RecordedAppend
  <2> QED BY <2>2, <2>3 DEF Nth, Recorded
<1> QED BY <1>1, <1>2

(* The last event of an object has as many up to itself as there are.      *)
LEMMA LastIsLatest ==
    ASSUME NEW S, NEW s \in Seq(S), NEW u, Kindred(s, u) # {}
    PROVE  /\ Max(Kindred(s, u)) \in DOMAIN s /\ s[Max(Kindred(s, u))].uid = u
           /\ Nth(s, Max(Kindred(s, u))) = Recorded(s, u)
<1> DEFINE m == Max(Kindred(s, u))
<1>1. IsFiniteSet(Kindred(s, u)) /\ Kindred(s, u) \in SUBSET (1..Len(s)) /\ Len(s) \in Nat
  BY KindredAre
<1>2. Kindred(s, u) \in SUBSET Int
  BY <1>1
<1>3. m \in Kindred(s, u) /\ \A i \in Kindred(s, u) : m >= i
  BY <1>1, <1>2, MaxIsGreatest
<1> HIDE DEF m
<1>4. m \in DOMAIN s /\ s[m].uid = u /\ m \in 1..Len(s)
  BY <1>1, <1>3 DEF Kindred
<1>5. {j \in 1..m : s[j].uid = s[m].uid} = Kindred(s, u)
  <2>1. ASSUME NEW j \in Kindred(s, u) PROVE j \in 1..m /\ s[j].uid = s[m].uid
    <3>1. j \in 1..Len(s) /\ m >= j
      BY <1>1, <1>3
    <3>2. s[j].uid = u
      BY DEF Kindred
    <3> QED BY <1>1, <1>4, <3>1, <3>2
  <2>2. ASSUME NEW j \in 1..m, s[j].uid = s[m].uid PROVE j \in Kindred(s, u)
    <3>1. j \in DOMAIN s
      BY <1>1, <1>4
    <3> QED BY <1>4, <2>2, <3>1 DEF Kindred
  <2> QED BY <2>1, <2>2
<1> QED BY <1>4, <1>5 DEF m, Nth, Recorded

------------------------------------------------------------------------------
(* The chain from what happens to what is recorded.                        *)

(* What the collector handles: the state of TypeOK for it.                 *)
Types   == {"Admitted", "Preempted", "PodReady", "AttemptStopped", "Completed"}
Reasons == {"none", "Admitted", "Ready", "InCohortReclamation", "Succeeded", "Failed", "Complete"}

(* The objects the streams tell of.                                        *)
Uids == ({"Job", "Workload"} \X Rows) \cup ({"Pod"} \X (Rows \cup {"stray"}) \X Nat)

Transitions == [uid : Uids, row : Rows \cup {"stray"}, delta : {"Upsert", "Delete"},
                type : Types \cup {"none"}, reason : Reasons, bad : BOOLEAN]

Observed == [uid : Uids, row : Rows \cup {"stray"}, delta : {"Upsert", "Delete"},
             type : Types \cup {"none"}, reason : Reasons, bad : BOOLEAN, at : Nat]

Entries == [type : Types, job : Rows \cup {"stray"}, uid : Uids, at : Nat, reason : Reasons]
             \cup [type : {"Submitted"}, job : Rows, uid : {"MLTrainingJob"} \X Rows,
                   at : Nat, reason : {"none"}]

(* The events on their way to the ledger: those pending, from the m-th on, *)
(* and those queued, each with its position among the events of its object *)
(* that happened (pp and qq).                                              *)
Named(e)       == e.type # "none" /\ e.uid # Stray
InWindow(h, e) == h = -1 \/ e.at <= h

(* None of the events before the i-th condemns the ledger;                 *)
CleanTo(s, m, i) == \A n \in (m + 1)..(i - 1) : ~s[n].bad

(* one of them is the event of u at position r.                            *)
Waits(s, m, ranks, u, r, i) ==
    \E n \in (m + 1)..(i - 1) : Named(s[n]) /\ s[n].uid = u /\ ranks[n] = r

(* An event with that position is one the builder takes for new after the  *)
(* one before it.                                                          *)
Fresh(H, u, r) == \A i, j \in DOMAIN H :
    H[i].uid = u /\ H[j].uid = u /\ Nth(H, j) = r /\ Nth(H, i) = r - 1 => H[i].type # H[j].type

(* An event with this object, row, type and reason happened at position r. *)
Matched(H, e, r) == \E j \in DOMAIN H :
    /\ H[j].uid = e.uid /\ H[j].row = e.row /\ H[j].type = e.type /\ H[j].reason = e.reason
    /\ Nth(H, j) = r

(* What was recorded in the window is what happened, position by position. *)
LedgerOK(h, H, L) == \A i \in DOMAIN L :
    L[i].type # "Submitted" /\ InWindow(h, L[i]) =>
      \E j \in DOMAIN H :
         /\ H[j].uid = L[i].uid /\ H[j].row = L[i].job
         /\ H[j].type = L[i].type /\ H[j].reason = L[i].reason
         /\ Nth(H, j) = Nth(L, i)

(* What is pending follows what is recorded or pending before it,          *)
PenOK(h, H, L, v, pen, m, pp) ==
    ~v => \A i \in (m + 1)..Len(pen) :
      Named(pen[i]) /\ InWindow(h, pen[i]) /\ CleanTo(pen, m, i) =>
        /\ Recorded(L, pen[i].uid) <= pp[i]
        /\ Fresh(H, pen[i].uid, pp[i])
        /\ \A r \in Nat : Recorded(L, pen[i].uid) < r /\ r < pp[i] => Waits(pen, m, pp, pen[i].uid, r, i)

(* so does what an open stream still holds,                                *)
QueOK(h, O, H, L, v, pen, m, pp, que, qq) ==
    h = -1 /\ ~v /\ CleanTo(pen, m, Len(pen) + 1) => \A k \in O : \A i \in DOMAIN que[k] :
      Named(que[k][i]) /\ CleanTo(que[k], 0, i) =>
        /\ Recorded(L, que[k][i].uid) <= qq[k][i]
        /\ Fresh(H, que[k][i].uid, qq[k][i])
        /\ \A r \in Nat : Recorded(L, que[k][i].uid) < r /\ r < qq[k][i] =>
             \/ Waits(pen, m, pp, que[k][i].uid, r, Len(pen) + 1)
             \/ Waits(que[k], 0, qq[k], que[k][i].uid, r, i)

(* and the last of an object that was told is there.                       *)
AllOK(h, O, E, H, L, v, pen, m, pp, que, qq) ==
    h = -1 /\ ~v /\ CleanTo(pen, m, Len(pen) + 1) => \A k \in O :
      CleanTo(que[k], 0, Len(que[k]) + 1) => \A u \in Uids \ {Stray} :
        KindOf(u) = k =>
          /\ u \in E
          /\ \A r \in Nat : Fresh(H, u, r)
          /\ \A r \in Nat : Recorded(L, u) < r /\ r <= Recorded(H, u) =>
               \/ Waits(pen, m, pp, u, r, Len(pen) + 1)
               \/ Waits(que[k], 0, qq[k], u, r, Len(que[k]) + 1)

(* Each event on its way happened at its position, and none overtakes an   *)
(* earlier one of its object.                                              *)
RankOK(H, pen, pp, que, qq) ==
    /\ pp \in Seq(Nat) /\ Len(pp) = Len(pen)
    /\ \A k \in Kinds : qq[k] \in Seq(Nat) /\ Len(qq[k]) = Len(que[k])
    /\ \A i \in DOMAIN pen : Named(pen[i]) => Matched(H, pen[i], pp[i])
    /\ \A k \in Kinds : \A i \in DOMAIN que[k] : Named(que[k][i]) => Matched(H, que[k][i], qq[k][i])
    /\ \A i, j \in DOMAIN pen :
         i < j /\ Named(pen[i]) /\ Named(pen[j]) /\ pen[i].uid = pen[j].uid => pp[i] <= pp[j]
    /\ \A k \in Kinds : \A i \in DOMAIN pen, j \in DOMAIN que[k] :
         Named(pen[i]) /\ Named(que[k][j]) /\ pen[i].uid = que[k][j].uid => pp[i] <= qq[k][j]
    /\ \A k \in Kinds : \A i, j \in DOMAIN que[k] :
         i < j /\ Named(que[k][i]) /\ Named(que[k][j]) /\ que[k][i].uid = que[k][j].uid
           => qq[k][i] <= qq[k][j]

(* Instants grow along the ledger and what is pending.                     *)
AtOK(L, pen, m) ==
    /\ \A i, j \in DOMAIN pen : i < j => pen[i].at < pen[j].at
    /\ \A i \in DOMAIN L, j \in (m + 1)..Len(pen) : L[i].type # "Submitted" => L[i].at < pen[j].at

(* How what happened, what is on its way and what is recorded hang together. *)
Chain(h, O, E, H, L, v, pen, m, pp, que, qq) ==
    /\ LedgerOK(h, H, L)
    /\ PenOK(h, H, L, v, pen, m, pp)
    /\ QueOK(h, O, H, L, v, pen, m, pp, que, qq)
    /\ AllOK(h, O, E, H, L, v, pen, m, pp, que, qq)
    /\ RankOK(H, pen, pp, que, qq)
    /\ AtOK(L, pen, m)

(* What a sequence holds is an element.                                    *)
LEMMA HoldsElements ==
    ASSUME NEW S, NEW s \in Seq(S), NEW i \in DOMAIN s PROVE s[i] \in S
OBVIOUS

(* The builder has dealt with the next pending event.                      *)
LEMMA Advances ==
    ASSUME NEW h \in Int, NEW O \in SUBSET Kinds, NEW E, NEW H \in Seq(Transitions), NEW L \in Seq(Entries),
           NEW v \in BOOLEAN, NEW pen \in Seq(Observed), NEW m \in Nat, m < Len(pen),
           NEW pp, NEW que, NEW qq, \A k \in Kinds : que[k] \in Seq(Transitions),
           Chain(h, O, E, H, L, v, pen, m, pp, que, qq),
           NEW M \in Seq(Entries), NEW w \in BOOLEAN, w \/ (~v /\ ~pen[m + 1].bad),
           LedgerOK(h, H, M), AtOK(M, pen, m + 1),
           \A u : u # pen[m + 1].uid \/ ~Named(pen[m + 1]) => Recorded(M, u) = Recorded(L, u),
           ~w /\ Named(pen[m + 1]) /\ InWindow(h, pen[m + 1]) => Recorded(M, pen[m + 1].uid) = pp[m + 1]
    PROVE  Chain(h, O, E, H, M, w, pen, m + 1, pp, que, qq)
<1> DEFINE e == pen[m + 1]
<1>1. /\ Len(pen) \in Nat /\ m + 1 \in DOMAIN pen /\ m + 1 \in (m + 1)..Len(pen)
      /\ \A u : Recorded(L, u) \in Nat /\ Recorded(M, u) \in Nat
      /\ \A i \in DOMAIN pen : pen[i].at \in Nat /\ pp[i] \in Nat
      /\ \A k \in Kinds : \A i \in DOMAIN que[k] : qq[k][i] \in Nat
  <2>1. Len(pen) \in Nat /\ m + 1 \in DOMAIN pen /\ m + 1 \in (m + 1)..Len(pen)
    OBVIOUS
  <2>2. \A u : Recorded(L, u) \in Nat /\ Recorded(M, u) \in Nat
    BY KindredAre
  <2>3. \A i \in DOMAIN pen : pen[i].at \in Nat
    <3>1. \A x \in Observed : x.at \in Nat
      BY DEF Observed
    <3>2. \A i \in DOMAIN pen : pen[i] \in Observed
      OBVIOUS
    <3> QED BY <3>1, <3>2
  <2>4. \A i \in DOMAIN pen : pp[i] \in Nat
    BY DEF Chain, RankOK
  <2>5. ASSUME NEW k \in Kinds, NEW i \in DOMAIN que[k] PROVE qq[k][i] \in Nat
    <3>1. qq[k] \in Seq(Nat) /\ Len(qq[k]) = Len(que[k]) /\ que[k] \in Seq(Transitions)
      BY DEF Chain, RankOK
    <3>2. i \in DOMAIN qq[k]
      BY <3>1
    <3> QED BY Zenon, <3>1, <3>2, HoldsElements
  <2> QED BY <2>1, <2>2, <2>3, <2>4, <2>5
<1>2. CleanTo(pen, m, m + 1)
  BY DEF CleanTo
<1>3. ASSUME NEW i \in Int, CleanTo(pen, m + 1, i), ~w PROVE CleanTo(pen, m, i)
  BY <1>3 DEF CleanTo
<1>4. ASSUME ~w, NEW u, ~Named(e) \/ e.uid # u \/ InWindow(h, e)
      PROVE  Recorded(L, u) <= Recorded(M, u)
  <2>1. CASE u # e.uid \/ ~Named(e)
    BY <1>1, <2>1
  <2>2. CASE u = e.uid /\ Named(e)
    <3>1. Recorded(L, u) <= pp[m + 1]
      BY <1>1, <1>2, <1>4, <2>2 DEF Chain, PenOK
    <3> QED BY <1>4, <2>2, <3>1
  <2> QED BY <2>1, <2>2
<1>5. ASSUME ~w, NEW u, NEW r \in Nat, NEW i \in Int, Recorded(M, u) < r, Waits(pen, m, pp, u, r, i),
             ~Named(e) \/ e.uid # u \/ InWindow(h, e)
      PROVE  Waits(pen, m + 1, pp, u, r, i)
  <2>1. PICK n \in (m + 1)..(i - 1) : Named(pen[n]) /\ pen[n].uid = u /\ pp[n] = r
    BY <1>5 DEF Waits
  <2>2. n # m + 1
    BY <1>1, <1>5, <2>1
  <2>3. n \in (m + 1 + 1)..(i - 1)
    BY <2>1, <2>2
  <2> QED BY <2>1, <2>3 DEF Waits
<1>6. PenOK(h, H, M, w, pen, m + 1, pp)
  <2> SUFFICES ASSUME ~w, NEW i \in (m + 1 + 1)..Len(pen),
                      Named(pen[i]), InWindow(h, pen[i]), CleanTo(pen, m + 1, i)
               PROVE  /\ Recorded(M, pen[i].uid) <= pp[i]
                      /\ Fresh(H, pen[i].uid, pp[i])
                      /\ \A r \in Nat : Recorded(M, pen[i].uid) < r /\ r < pp[i]
                           => Waits(pen, m + 1, pp, pen[i].uid, r, i)
    BY DEF PenOK
  <2>1. i \in (m + 1)..Len(pen) /\ i \in DOMAIN pen /\ m + 1 < i /\ i \in Int
    BY <1>1
  <2>2. InWindow(h, e)
    <3>1. e.at < pen[i].at
      BY <1>1, <2>1 DEF Chain, AtOK
    <3> QED BY <1>1, <2>1, <3>1 DEF InWindow
  <2>3. CleanTo(pen, m, i)
    BY <1>3, <2>1
  <2>4. /\ Recorded(L, pen[i].uid) <= pp[i]
        /\ Fresh(H, pen[i].uid, pp[i])
        /\ \A r \in Nat : Recorded(L, pen[i].uid) < r /\ r < pp[i] => Waits(pen, m, pp, pen[i].uid, r, i)
    BY <2>1, <2>3 DEF Chain, PenOK
  <2>5. Recorded(M, pen[i].uid) <= pp[i]
    <3>1. CASE Named(e) /\ e.uid = pen[i].uid
      <4>1. pp[m + 1] <= pp[i]
        BY <1>1, <2>1, <3>1 DEF Chain, RankOK
      <4> QED BY <2>2, <3>1, <4>1
    <3> QED BY <2>4, <3>1
  <2>6. ASSUME NEW r \in Nat, Recorded(M, pen[i].uid) < r, r < pp[i]
        PROVE  Waits(pen, m + 1, pp, pen[i].uid, r, i)
    <3>1. Recorded(L, pen[i].uid) < r
      <4>1. Recorded(L, pen[i].uid) <= Recorded(M, pen[i].uid)
        BY <1>4, <2>2
      <4> QED BY <1>1, <2>6, <4>1
    <3>2. Waits(pen, m, pp, pen[i].uid, r, i)
      BY <2>4, <2>6, <3>1
    <3> QED BY <1>5, <2>1, <2>2, <2>6, <3>2
  <2> QED BY <2>4, <2>5, <2>6
<1>7. ASSUME h = -1, ~w, CleanTo(pen, m + 1, Len(pen) + 1)
      PROVE  ~v /\ CleanTo(pen, m, Len(pen) + 1) /\ InWindow(h, e)
  BY <1>1, <1>3, <1>7 DEF InWindow
<1>8. QueOK(h, O, H, M, w, pen, m + 1, pp, que, qq)
  <2> SUFFICES ASSUME h = -1, ~w, CleanTo(pen, m + 1, Len(pen) + 1),
                      NEW k \in O, NEW i \in DOMAIN que[k],
                      Named(que[k][i]), CleanTo(que[k], 0, i)
               PROVE  /\ Recorded(M, que[k][i].uid) <= qq[k][i]
                      /\ Fresh(H, que[k][i].uid, qq[k][i])
                      /\ \A r \in Nat : Recorded(M, que[k][i].uid) < r /\ r < qq[k][i] =>
                           \/ Waits(pen, m + 1, pp, que[k][i].uid, r, Len(pen) + 1)
                           \/ Waits(que[k], 0, qq[k], que[k][i].uid, r, i)
    BY DEF QueOK
  <2>1. ~v /\ CleanTo(pen, m, Len(pen) + 1) /\ InWindow(h, e)
    BY <1>7
  <2>2. /\ Recorded(L, que[k][i].uid) <= qq[k][i]
        /\ Fresh(H, que[k][i].uid, qq[k][i])
        /\ \A r \in Nat : Recorded(L, que[k][i].uid) < r /\ r < qq[k][i] =>
             \/ Waits(pen, m, pp, que[k][i].uid, r, Len(pen) + 1)
             \/ Waits(que[k], 0, qq[k], que[k][i].uid, r, i)
    BY <2>1 DEF Chain, QueOK
  <2>3. Recorded(M, que[k][i].uid) <= qq[k][i]
    <3>1. CASE Named(e) /\ e.uid = que[k][i].uid
      <4>1. pp[m + 1] <= qq[k][i]
        BY <1>1, <3>1 DEF Chain, RankOK
      <4> QED BY <2>1, <3>1, <4>1
    <3> QED BY <2>2, <3>1
  <2>4. ASSUME NEW r \in Nat, Recorded(M, que[k][i].uid) < r, r < qq[k][i]
        PROVE  \/ Waits(pen, m + 1, pp, que[k][i].uid, r, Len(pen) + 1)
               \/ Waits(que[k], 0, qq[k], que[k][i].uid, r, i)
    <3>1. Recorded(L, que[k][i].uid) < r
      <4>1. Recorded(L, que[k][i].uid) <= Recorded(M, que[k][i].uid)
        BY <1>4, <2>1
      <4> QED BY <1>1, <2>4, <4>1
    <3>2. \/ Waits(pen, m, pp, que[k][i].uid, r, Len(pen) + 1)
          \/ Waits(que[k], 0, qq[k], que[k][i].uid, r, i)
      BY <2>2, <2>4, <3>1
    <3>3. Len(pen) + 1 \in Int
      BY <1>1
    <3> QED BY <1>5, <2>1, <2>4, <3>2, <3>3
  <2> QED BY <2>2, <2>3, <2>4
<1>9. AllOK(h, O, E, H, M, w, pen, m + 1, pp, que, qq)
  <2> SUFFICES ASSUME h = -1, ~w, CleanTo(pen, m + 1, Len(pen) + 1),
                      NEW k \in O, CleanTo(que[k], 0, Len(que[k]) + 1),
                      NEW u \in Uids \ {Stray}, KindOf(u) = k
               PROVE  /\ u \in E
                      /\ \A r \in Nat : Fresh(H, u, r)
                      /\ \A r \in Nat : Recorded(M, u) < r /\ r <= Recorded(H, u) =>
                           \/ Waits(pen, m + 1, pp, u, r, Len(pen) + 1)
                           \/ Waits(que[k], 0, qq[k], u, r, Len(que[k]) + 1)
    BY DEF AllOK
  <2>1. ~v /\ CleanTo(pen, m, Len(pen) + 1) /\ InWindow(h, e)
    BY <1>7
  <2>2. /\ u \in E
        /\ \A r \in Nat : Fresh(H, u, r)
        /\ \A r \in Nat : Recorded(L, u) < r /\ r <= Recorded(H, u) =>
             \/ Waits(pen, m, pp, u, r, Len(pen) + 1)
             \/ Waits(que[k], 0, qq[k], u, r, Len(que[k]) + 1)
    BY <2>1 DEF Chain, AllOK
  <2>3. ASSUME NEW r \in Nat, Recorded(M, u) < r, r <= Recorded(H, u)
        PROVE  \/ Waits(pen, m + 1, pp, u, r, Len(pen) + 1)
               \/ Waits(que[k], 0, qq[k], u, r, Len(que[k]) + 1)
    <3>1. Recorded(L, u) < r
      <4>1. Recorded(L, u) <= Recorded(M, u)
        BY <1>4, <2>1
      <4> QED BY <1>1, <2>3, <4>1
    <3>2. \/ Waits(pen, m, pp, u, r, Len(pen) + 1)
          \/ Waits(que[k], 0, qq[k], u, r, Len(que[k]) + 1)
      BY <2>2, <2>3, <3>1
    <3>3. Len(pen) + 1 \in Int
      BY <1>1
    <3> QED BY <1>5, <2>1, <2>3, <3>2, <3>3
  <2> QED BY <2>2, <2>3
<1> QED BY <1>6, <1>8, <1>9 DEF Chain

------------------------------------------------------------------------------
(* The builder takes one event (LedgerBuilder.Observe).                    *)

(* Only the trace's own submissions bear the uid of an MLTrainingJob.      *)
LEMMA EntriesAre ==
    /\ \A e \in Entries : /\ e.at \in Nat
                          /\ e.uid \in Uids \/ e.type = "Submitted"
                          /\ e.type = "Submitted" => e.uid \notin Uids
    /\ \A e \in Observed : e.uid \in Uids /\ e.at \in Nat /\ e.bad \in BOOLEAN /\ e.type # "Submitted"
                           /\ [type |-> e.type, job |-> e.row, uid |-> e.uid, at |-> e.at, reason |-> e.reason]
                                \in [type : Types \cup {"none"}, job : Rows \cup {"stray"}, uid : Uids, at : Nat, reason : Reasons]
    /\ \A e \in Transitions : e.uid \in Uids /\ e.type # "Submitted"
<1>1. \A u \in Uids : u[1] # "MLTrainingJob"
  BY DEF Uids
<1>2. \A u \in {"MLTrainingJob"} \X Rows : u \notin Uids
  BY <1>1
<1> QED BY <1>2 DEF Entries, Observed, Transitions, Types

(* The position of an event whose object's last one recorded is of type    *)
(* last.                                                                   *)
KnownOrNew(L, e, last, x) ==
    /\ e.type = last => x = Recorded(L, e.uid)
    /\ e.type # last => x = Recorded(L, e.uid) + 1

(* The next pending event of an object is the last one the ledger holds of *)
(* it, or the one that follows.                                            *)
LEMMA NextIsKnownOrNew ==
    ASSUME NEW h \in Int, NEW H \in Seq(Transitions), NEW L \in Seq(Entries),
           NEW pen \in Seq(Observed), NEW m \in Nat, m < Len(pen),
           NEW pp, NEW e, e = pen[m + 1], NEW x \in Nat, x = pp[m + 1], Matched(H, e, x),
           NEW v \in BOOLEAN, ~v, NEW last, last = LastOf([ledger |-> L, invalid |-> v], e.uid),
           LedgerOK(h, H, L), PenOK(h, H, L, v, pen, m, pp), AtOK(L, pen, m), Named(e), InWindow(h, e)
    PROVE  KnownOrNew(L, e, last, x)
<1> USE DEF KnownOrNew
<1> DEFINE u == e.uid
           c == Recorded(L, u)
           I == {i \in DOMAIN L : L[i].uid = u}
<1>1. m + 1 \in (m + 1)..Len(pen) /\ m + 1 \in DOMAIN pen /\ CleanTo(pen, m, m + 1) /\ c \in Nat /\ x \in Nat
  BY KindredAre DEF CleanTo
<1>2. c <= x /\ Fresh(H, u, x) /\ \A r \in Nat : c < r /\ r < x => Waits(pen, m, pp, u, r, m + 1)
  BY <1>1 DEF PenOK
<1>3. x <= c + 1
  <2> SUFFICES ASSUME c + 1 < x PROVE FALSE
    BY <1>1
  <2>1. c + 1 \in Nat /\ c < c + 1
    BY <1>1
  <2>2. Waits(pen, m, pp, u, c + 1, m + 1)
    BY <1>2, <2>1
  <2> QED BY <2>2 DEF Waits
<1>4. PICK j \in DOMAIN H : H[j].uid = u /\ H[j].type = e.type /\ Nth(H, j) = x
  BY DEF Matched
<1>5. 1 <= x
  BY <1>4, NthBounds
<1>6. I = Kindred(L, u)
  BY DEF Kindred
<1>7. last = IF I = {} THEN "none" ELSE L[Max(I)].type
  BY DEF LastOf
<1>8. CASE I = {}
  <2>1. c = 0
    BY <1>6, <1>8, KindredAre
  <2>2. x = c + 1
    BY <1>3, <1>5, <2>1
  <2>3. e.type # last
    BY <1>7, <1>8 DEF Named
  <2> QED BY <2>2, <2>3
<1>9. CASE I # {}
  <2> DEFINE i == Max(I)
  <2>1. i \in DOMAIN L /\ L[i].uid = u /\ Nth(L, i) = c
    <3>1. Kindred(L, u) # {} /\ i = Max(Kindred(L, u))
      BY <1>6, <1>9
    <3> HIDE DEF I
    <3> QED BY <3>1, LastIsLatest
  <2>2. u \in Uids /\ e.at \in Nat
    BY <1>1, EntriesAre
  <2>3. L[i].type # "Submitted" /\ L[i].at \in Nat
    BY <2>1, <2>2, EntriesAre
  <2>4. L[i].at < e.at
    BY <1>1, <2>1, <2>3 DEF AtOK
  <2>5. InWindow(h, L[i])
    BY <2>2, <2>3, <2>4 DEF InWindow
  <2>6. PICK k \in DOMAIN H : H[k].uid = u /\ H[k].type = L[i].type /\ Nth(H, k) = c
    BY <2>1, <2>3, <2>5 DEF LedgerOK
  <2>7. last = H[k].type
    BY <1>7, <1>9, <2>6
  <2>8. CASE x = c
    <3>1. j = k
      BY <1>4, <2>6, <2>8, NthUnique
    <3> QED BY <1>1, <1>4, <2>7, <2>8, <3>1
  <2>9. CASE x = c + 1
    <3>1. Nth(H, k) = x - 1
      BY <1>1, <2>6, <2>9
    <3>2. H[k].type # H[j].type
      BY <1>2, <1>4, <2>6, <3>1 DEF Fresh
    <3> QED BY <1>4, <2>7, <2>9, <3>2
  <2>10. c <= x
    BY <1>2
  <2>11. x = c \/ x = c + 1
    BY <1>1, <1>3, <2>10
  <2> QED BY Zenon, <2>8, <2>9, <2>11
<1> QED BY <1>8, <1>9

(* Recording one more event extends the ledger and touches no other object's *)
(* count.                                                                  *)
LEMMA LedgerExtended ==
    ASSUME NEW L, NEW v, NEW y
    PROVE  [[ledger |-> L, invalid |-> v] EXCEPT !.ledger = Append(@, y)] = [ledger |-> Append(L, y), invalid |-> v]
  OBVIOUS

(* Observe takes the next pending event.                                   *)
LEMMA ObserveKeeps ==
    ASSUME NEW h \in Int, NEW O \in SUBSET Kinds, NEW E, NEW H \in Seq(Transitions), NEW L \in Seq(Entries),
           NEW v \in BOOLEAN, NEW pen \in Seq(Observed), NEW m \in Nat, m < Len(pen),
           NEW pp, NEW que, NEW qq, \A k \in Kinds : que[k] \in Seq(Transitions),
           Chain(h, O, E, H, L, v, pen, m, pp, que, qq),
           pen[m + 1].uid # Stray
    PROVE  LET b == Observe([ledger |-> L, invalid |-> v], pen[m + 1])
           IN /\ b = [ledger |-> b.ledger, invalid |-> b.invalid]
              /\ b.ledger \in Seq(Entries) /\ b.invalid \in BOOLEAN
              /\ v => b.invalid
              /\ Chain(h, O, E, H, b.ledger, b.invalid, pen, m + 1, pp, que, qq)
<1> DEFINE e == pen[m + 1]
           u == e.uid
           b0 == [ledger |-> L, invalid |-> v]
           new == [type |-> e.type, job |-> e.row, uid |-> u, at |-> e.at, reason |-> e.reason]
           old == e.type \in {"none", LastOf(b0, u)}
           M == IF v \/ e.bad \/ old THEN L ELSE Append(L, new)
           w == IF v \/ e.bad THEN TRUE ELSE e.delta = "Delete" /\ LastOf([ledger |-> M, invalid |-> v], u) = "PodReady"
           b == Observe(b0, e)
<1>1. m + 1 \in DOMAIN pen /\ e \in Observed /\ e.at \in Nat /\ u \in Uids /\ e.bad \in BOOLEAN
  BY EntriesAre
<1>2. b = [ledger |-> M, invalid |-> w]
  <2>1. CASE v
    BY <2>1 DEF Observe
  <2>2. CASE ~v /\ e.bad
    BY <2>2 DEF Observe
  <2>3. CASE ~v /\ ~e.bad
    <3>1. CASE old
      BY <2>3, <3>1 DEF Observe
    <3>2. CASE ~old
      <4> DEFINE c == [b0 EXCEPT !.ledger = Append(@, new)]
      <4>1. c = [ledger |-> Append(L, new), invalid |-> v]
        <5> HIDE DEF new
        <5> QED BY Zenon, LedgerExtended
      <4>2. c = [ledger |-> M, invalid |-> v]
        BY <2>3, <3>2, <4>1
      <4>3. b = [c EXCEPT !.invalid = e.delta = "Delete" /\ LastOf(c, u) = "PodReady"]
        BY <2>3, <3>2 DEF Observe
      <4>4. w = (e.delta = "Delete" /\ LastOf(c, u) = "PodReady")
        BY <2>3, <4>2
      <4>5. b = [c EXCEPT !.invalid = w]
        BY <4>3, <4>4
      <4> HIDE DEF c, M, w, b
      <4> QED BY <4>2, <4>5
    <3> QED BY <3>1, <3>2
  <2> QED BY <2>1, <2>2, <2>3
<1>3. ~v /\ ~e.bad /\ ~old => new \in Entries
  <2>1. new \in [type : Types \cup {"none"}, job : Rows \cup {"stray"}, uid : Uids, at : Nat, reason : Reasons]
    BY <1>1, EntriesAre
  <2> QED BY <2>1 DEF Entries
<1>4. M \in Seq(Entries) /\ w \in BOOLEAN
  <2>1. CASE v \/ e.bad \/ old
    BY <2>1
  <2>2. CASE ~(v \/ e.bad \/ old)
    <3>1. M = Append(L, new) /\ new \in Entries
      BY <1>3, <2>2
    <3>2. M \in Seq(Entries)
      BY <3>1
    <3>3. w \in BOOLEAN
      BY <2>2
    <3> QED BY <3>2, <3>3
  <2> QED BY <2>1, <2>2
<1>5. w \/ (~v /\ ~e.bad)
  OBVIOUS
<1>6. /\ LedgerOK(h, H, L) /\ PenOK(h, H, L, v, pen, m, pp) /\ AtOK(L, pen, m)
      /\ RankOK(H, pen, pp, que, qq)
  BY DEF Chain
<1>7. pp[m + 1] \in Nat /\ (Named(e) => Matched(H, e, pp[m + 1]))
  <2>1. pp \in Seq(Nat) /\ m + 1 \in DOMAIN pp
    BY <1>1, <1>6 DEF RankOK
  <2>2. pp[m + 1] \in Nat
    BY <2>1
  <2>3. \A i \in DOMAIN pen : Named(pen[i]) => Matched(H, pen[i], pp[i])
    BY <1>6 DEF RankOK
  <2> QED BY <1>1, <2>2, <2>3
<1>9. ASSUME ~v, ~e.bad, Named(e), InWindow(h, e)
      PROVE  /\ e.type = LastOf(b0, u) => pp[m + 1] = Recorded(L, u)
             /\ e.type # LastOf(b0, u) => pp[m + 1] = Recorded(L, u) + 1
  <2> DEFINE x == pp[m + 1]
             last == LastOf([ledger |-> L, invalid |-> v], e.uid)
  <2>1. Matched(H, e, x) /\ x \in Nat
    BY <1>7, <1>9
  <2>2. e = pen[m + 1] /\ x = pp[m + 1] /\ last = LastOf([ledger |-> L, invalid |-> v], e.uid)
    OBVIOUS
  <2> HIDE DEF e, x, last, u, b0, b, w, M, new, old
  <2>3. KnownOrNew(L, e, last, x)
    BY Zenon, <1>6, <1>9, <2>1, <2>2, NextIsKnownOrNew
  <2> QED BY <2>3 DEF KnownOrNew, e, x, last, u, b0
<1>10. CASE v \/ e.bad \/ old
  <2>1. M = L
    BY <1>10
  <2>2. AtOK(L, pen, m + 1)
    BY <1>6 DEF AtOK
  <2>3. ~w /\ Named(e) /\ InWindow(h, e) => Recorded(L, u) = pp[m + 1]
    <3> SUFFICES ASSUME ~w, Named(e), InWindow(h, e) PROVE Recorded(L, u) = pp[m + 1]
      OBVIOUS
    <3>1. ~v /\ ~e.bad /\ e.type = LastOf(b0, u)
      BY <1>5, <1>10 DEF Named
    <3> QED BY <1>9, <3>1, KindredAre
  <2> HIDE DEF M, w
  <2> QED BY <1>2, <1>4, <1>5, <1>6, <2>1, <2>2, <2>3, Advances
<1>11. CASE ~(v \/ e.bad \/ old)
  <2>1. M = Append(L, new) /\ new \in Entries
    BY <1>3, <1>11
  <2>2. Named(e) /\ Len(L) \in Nat /\ Len(M) = Len(L) + 1 /\ DOMAIN L = 1..Len(L) /\ DOMAIN M = 1..(Len(L) + 1)
    BY <1>11, <2>1 DEF Named
  <2>3. /\ \A i \in DOMAIN L : M[i] = L[i] /\ Nth(M, i) = Nth(L, i)
        /\ M[Len(L) + 1] = new /\ Nth(M, Len(L) + 1) = Recorded(L, u) + 1
    BY <2>1, NthAppend
  <2>4. Recorded(M, u) = Recorded(L, u) + 1
    <3>1. new.uid = u
      OBVIOUS
    <3> QED BY <2>1, <3>1, RecordedAppend
  <2>5. ASSUME NEW y, y # u PROVE Recorded(M, y) = Recorded(L, y)
    <3>1. new.uid # y
      BY <2>5
    <3>2. Recorded(M, y) = Recorded(L, y) + 0
      BY <2>1, <3>1, RecordedAppend
    <3> QED BY <3>2, KindredAre
  <2>6. InWindow(h, e) => pp[m + 1] = Recorded(L, u) + 1
    BY <1>9, <1>11, <2>2
  <2>7. LedgerOK(h, H, M)
    <3> SUFFICES ASSUME NEW i \in DOMAIN M, M[i].type # "Submitted", InWindow(h, M[i])
                 PROVE  \E j \in DOMAIN H :
                          /\ H[j].uid = M[i].uid /\ H[j].row = M[i].job
                          /\ H[j].type = M[i].type /\ H[j].reason = M[i].reason
                          /\ Nth(H, j) = Nth(M, i)
      BY DEF LedgerOK
    <3>1. CASE i \in DOMAIN L
      <4>1. M[i] = L[i] /\ Nth(M, i) = Nth(L, i)
        BY <2>3, <3>1
      <4> QED BY <1>6, <3>1, <4>1 DEF LedgerOK
    <3>2. CASE i = Len(L) + 1
      <4>1. M[i] = new /\ Nth(M, i) = Recorded(L, u) + 1
        BY <2>3, <3>2
      <4>2. InWindow(h, e)
        BY <4>1 DEF InWindow
      <4>3. Matched(H, e, Recorded(L, u) + 1)
        BY <1>7, <2>2, <2>6, <4>2
      <4>4. PICK j \in DOMAIN H :
              /\ H[j].uid = e.uid /\ H[j].row = e.row /\ H[j].type = e.type /\ H[j].reason = e.reason
              /\ Nth(H, j) = Recorded(L, u) + 1
        BY <4>3 DEF Matched
      <4>5. /\ M[i].uid = e.uid /\ M[i].job = e.row /\ M[i].type = e.type /\ M[i].reason = e.reason
            /\ Nth(M, i) = Recorded(L, u) + 1
        BY <4>1
      <4> QED BY <4>4, <4>5
    <3>3. i \in 1..(Len(L) + 1) /\ (i \in 1..Len(L) \/ i = Len(L) + 1)
      BY <2>2
    <3>4. i \in DOMAIN L \/ i = Len(L) + 1
      BY <2>2, <3>3
    <3> HIDE DEF M
    <3> QED BY <3>1, <3>2, <3>4
  <2>8. AtOK(M, pen, m + 1)
    <3> SUFFICES ASSUME NEW i \in DOMAIN M, NEW j \in (m + 1 + 1)..Len(pen), M[i].type # "Submitted"
                 PROVE  M[i].at < pen[j].at
      BY <1>6 DEF AtOK
    <3>1. j \in DOMAIN pen /\ j \in (m + 1)..Len(pen) /\ m + 1 < j
      OBVIOUS
    <3>2. CASE i \in DOMAIN L
      BY <1>6, <2>3, <3>1, <3>2 DEF AtOK
    <3>3. CASE i = Len(L) + 1
      <4>1. M[i].at = e.at
        BY <2>3, <3>3
      <4>2. e.at < pen[j].at
        BY <1>1, <1>6, <3>1 DEF AtOK
      <4> QED BY <4>1, <4>2
    <3> QED BY <2>2, <3>2, <3>3
  <2>9. \A y : y # u \/ ~Named(e) => Recorded(M, y) = Recorded(L, y)
    BY <2>2, <2>5
  <2>10. ~w /\ Named(e) /\ InWindow(h, e) => Recorded(M, u) = pp[m + 1]
    BY <2>4, <2>6
  <2> HIDE DEF M, w
  <2> QED BY <1>2, <1>4, <1>5, <2>7, <2>8, <2>9, <2>10, Advances
<1> QED BY <1>10, <1>11

------------------------------------------------------------------------------
(* The builder takes all that is pending (collector.flush).                *)

(* The builder takes the pending events one at a time.                     *)
Builds(f, b, p, n) == f = [i \in 0..n |-> IF i = 0 THEN b ELSE Observe(f[i - 1], p[i])]

(* The builder extends over one more event,                                *)
LEMMA BuildsExtend ==
    ASSUME NEW n \in Nat, NEW b, NEW p, NEW f, Builds(f, b, p, n)
    PROVE  Builds([i \in 0..(n + 1) |-> IF i = n + 1 THEN Observe(f[n], p[n + 1]) ELSE f[i]], b, p, n + 1)
BY DEF Builds

(* so it exists over any number of them,                                   *)
LEMMA BuildsExists ==
    ASSUME NEW N \in Nat, NEW b, NEW p
    PROVE  \E f : Builds(f, b, p, N)
<1> DEFINE H == {n \in Nat : \E f : Builds(f, b, p, n)}
<1>1. 0 \in H
  <2>1. Builds([i \in 0..0 |-> b], b, p, 0)
    BY DEF Builds
  <2> QED BY <2>1
<1>2. \A n \in 0..(N - 1) : n \in H => n + 1 \in H
  <2> SUFFICES ASSUME NEW n \in 0..(N - 1), n \in H PROVE n + 1 \in H
    OBVIOUS
  <2>1. PICK f : Builds(f, b, p, n)
    OBVIOUS
  <2>2. n \in Nat /\ n + 1 \in Nat
    OBVIOUS
  <2> QED BY <2>1, <2>2, BuildsExtend
<1> HIDE DEF H
<1>3. N \in H
  <2>1. H \in SUBSET Nat BY DEF H
  <2> QED BY <1>1, <1>2, <2>1, NatReaches
<1> QED BY <1>3 DEF H

(* and each event it takes is observed after those before it (flush).      *)
LEMMA BuiltSteps ==
    ASSUME NEW b, NEW S, NEW p \in Seq(S)
    PROVE  /\ Built(b, p)[0] = b
           /\ \A m \in 0..(Len(p) - 1) : Built(b, p)[m + 1] = Observe(Built(b, p)[m], p[m + 1])
<1> DEFINE g == CHOOSE f : f = [i \in 0..Len(p) |-> IF i = 0 THEN b ELSE Observe(f[i - 1], p[i])]
<1>1. Built(b, p) = g
  BY DEF Built
<1>2. Len(p) \in Nat
  OBVIOUS
<1>3. Builds(g, b, p, Len(p))
  BY <1>2, BuildsExists DEF Builds
<1> HIDE DEF g
<1>4. g = [i \in 0..Len(p) |-> IF i = 0 THEN b ELSE Observe(g[i - 1], p[i])]
  BY <1>3 DEF Builds
<1>5. g[0] = b
  BY <1>2, <1>4
<1>6. ASSUME NEW m \in 0..(Len(p) - 1) PROVE g[m + 1] = Observe(g[m], p[m + 1])
  <2>1. m + 1 \in 0..Len(p) /\ m + 1 # 0 /\ (m + 1) - 1 = m
    BY <1>2
  <2>2. g[m + 1] = Observe(g[(m + 1) - 1], p[m + 1])
    BY <1>4, <2>1
  <2> QED BY <2>1, <2>2
<1> QED BY <1>1, <1>5, <1>6

(* Invalid stays invalid.                                                  *)
LEMMA BuiltStaysInvalid ==
    ASSUME NEW L, NEW S, NEW p \in Seq(S)
    PROVE  Built([ledger |-> L, invalid |-> TRUE], p)[Len(p)] = [ledger |-> L, invalid |-> TRUE]
<1> DEFINE b == [ledger |-> L, invalid |-> TRUE]
           H == {m \in Nat : Built(b, p)[m] = b}
<1>1. \A t : Observe(b, t) = b
  BY DEF Observe
<1> HIDE DEF b
<1>2. 0 \in H
  BY BuiltSteps
<1>3. \A m \in 0..(Len(p) - 1) : m \in H => m + 1 \in H
  BY <1>1, BuiltSteps
<1>4. H \in SUBSET Nat
  OBVIOUS
<1> HIDE DEF H
<1>5. Len(p) \in H
  <2>1. PICK n \in Nat : n = Len(p)
    OBVIOUS
  <2>2. n \in 0..n /\ \A m \in 0..(n - 1) : m \in H => m + 1 \in H
    BY <1>3, <2>1
  <2>3. n \in H
    BY <1>2, <1>4, <2>2, NatReaches
  <2> QED BY <2>1, <2>3
<1> QED BY <1>5 DEF H, b

(* The builder deals with all that is pending.                             *)
LEMMA BuiltKeeps ==
    ASSUME NEW h \in Int, NEW O \in SUBSET Kinds, NEW E, NEW H \in Seq(Transitions), NEW L \in Seq(Entries),
           NEW v \in BOOLEAN, NEW pen \in Seq(Observed),
           NEW pp, NEW que, NEW qq, \A k \in Kinds : que[k] \in Seq(Transitions),
           Chain(h, O, E, H, L, v, pen, 0, pp, que, qq),
           \A i \in DOMAIN pen : pen[i].uid # Stray
    PROVE  LET b == Built([ledger |-> L, invalid |-> v], pen)[Len(pen)]
           IN /\ b.ledger \in Seq(Entries) /\ b.invalid \in BOOLEAN
              /\ v => b.invalid
              /\ Chain(h, O, E, H, b.ledger, b.invalid, pen, Len(pen), pp, que, qq)
<1> DEFINE b0 == [ledger |-> L, invalid |-> v]
           b(m) == Built(b0, pen)[m]
           Good(c, m) == /\ c = [ledger |-> c.ledger, invalid |-> c.invalid]
                         /\ c.ledger \in Seq(Entries) /\ c.invalid \in BOOLEAN
                         /\ v => c.invalid
                         /\ Chain(h, O, E, H, c.ledger, c.invalid, pen, m, pp, que, qq)
           T == {m \in Nat : Good(b(m), m)}
<1>1. 0 \in T
  <2>1. b(0) = b0
    BY BuiltSteps
  <2>2. Good(b0, 0)
    OBVIOUS
  <2> HIDE DEF b0, Good
  <2> QED BY <2>1, <2>2
<1>2. ASSUME NEW m \in 0..(Len(pen) - 1), m \in T PROVE m + 1 \in T
  <2>1. m \in Nat /\ m < Len(pen) /\ m + 1 \in DOMAIN pen
    OBVIOUS
  <2>2. PICK M, w : b(m) = [ledger |-> M, invalid |-> w] /\ b(m).ledger = M /\ b(m).invalid = w
    BY <1>2
  <2>3. /\ M \in Seq(Entries) /\ w \in BOOLEAN /\ (v => w)
        /\ Chain(h, O, E, H, M, w, pen, m, pp, que, qq)
    BY <1>2, <2>2
  <2>4. b(m + 1) = Observe([ledger |-> M, invalid |-> w], pen[m + 1])
    BY <2>2, BuiltSteps
  <2> DEFINE c == Observe([ledger |-> M, invalid |-> w], pen[m + 1])
  <2>5. Good(c, m + 1)
    <3>1. /\ c = [ledger |-> c.ledger, invalid |-> c.invalid]
          /\ c.ledger \in Seq(Entries) /\ c.invalid \in BOOLEAN
          /\ w => c.invalid
          /\ Chain(h, O, E, H, c.ledger, c.invalid, pen, m + 1, pp, que, qq)
      <4> HIDE DEF Good
      <4> QED BY SMTT(60), <2>1, <2>3, ObserveKeeps
    <3> QED BY <2>3, <3>1
  <2> HIDE DEF c, Good
  <2> QED BY <2>1, <2>4, <2>5 DEF c
<1>3. Len(pen) \in Nat /\ T \in SUBSET Nat
  OBVIOUS
<1>4. Len(pen) \in T
  <2> HIDE DEF T
  <2> QED BY <1>1, <1>2, <1>3, NatReaches
<1> QED BY <1>4

(* What has been dealt with no longer counts as pending.                   *)
LEMMA FlushKeeps ==
    ASSUME NEW h \in Int, NEW O \in SUBSET Kinds, NEW E, NEW H, NEW L, NEW v, NEW pen \in Seq(Observed),
           NEW pp, NEW que, NEW qq,
           Chain(h, O, E, H, L, v, pen, Len(pen), pp, que, qq)
    PROVE  Chain(h, O, E, H, L, v, <<>>, 0, <<>>, que, qq)
<1> DEFINE e == <<>>
<1>1. Len(pen) \in Nat /\ Len(e) = 0 /\ DOMAIN e = {} /\ e \in Seq(Nat)
  OBVIOUS
<1> HIDE DEF e
<1>2. CleanTo(pen, Len(pen), Len(pen) + 1)
  BY <1>1 DEF CleanTo
<1>3. \A u, r : ~Waits(pen, Len(pen), pp, u, r, Len(pen) + 1)
  BY <1>1 DEF Waits
<1>4. PenOK(h, H, L, v, e, 0, e)
  BY <1>1 DEF PenOK
<1>5. QueOK(h, O, H, L, v, e, 0, e, que, qq)
  BY <1>2, <1>3 DEF Chain, QueOK
<1>6. AllOK(h, O, E, H, L, v, e, 0, e, que, qq)
  BY <1>2, <1>3 DEF Chain, AllOK
<1>7. RankOK(H, e, e, que, qq)
  BY <1>1 DEF Chain, RankOK
<1>8. AtOK(L, e, 0)
  BY <1>1 DEF AtOK
<1> QED BY <1>4, <1>5, <1>6, <1>7, <1>8 DEF Chain, e

------------------------------------------------------------------------------
(* Streams: what is sent, taken, dropped.                                  *)

(* A stream's events are of objects of its kind.                           *)
Kinded(que) == \A k \in Kinds : que[k] \in Seq(Transitions) /\ \A i \in DOMAIN que[k] : KindOf(que[k][i].uid) = k

(* A stream that ends, a ledger that becomes invalid and a deadline that   *)
(* passes leave less to keep.                                              *)
LEMMA ChainWeakens ==
    ASSUME NEW h, NEW O, NEW E, NEW H, NEW L, NEW v, NEW pen, NEW pp, NEW que, NEW qq,
           Chain(h, O, E, H, L, v, pen, 0, pp, que, qq),
           NEW g, g = h \/ (h = -1 /\ g # -1), NEW P, P \subseteq O, NEW F, E \subseteq F, NEW w, v => w
    PROVE  Chain(g, P, F, H, L, w, pen, 0, pp, que, qq)
<1>1. \A e : InWindow(g, e) => InWindow(h, e)
  BY DEF InWindow
<1>2. g = -1 => h = -1
  OBVIOUS
<1>3. LedgerOK(g, H, L)
  BY <1>1 DEF Chain, LedgerOK
<1>4. PenOK(g, H, L, w, pen, 0, pp)
  BY <1>1 DEF Chain, PenOK
<1>5. QueOK(g, P, H, L, w, pen, 0, pp, que, qq)
  BY <1>2 DEF Chain, QueOK
<1>6. AllOK(g, P, F, H, L, w, pen, 0, pp, que, qq)
  BY <1>2 DEF Chain, AllOK
<1> QED BY <1>3, <1>4, <1>5, <1>6 DEF Chain

(* An instant past the deadline and past every event so far.               *)
Past(h, L, pen, a) ==
    /\ h = -1 \/ a > h
    /\ \A i \in DOMAIN pen : pen[i].at < a
    /\ \A i \in DOMAIN L : L[i].at < a

(* The head of a stream's queue becomes pending.                           *)
LEMMA ChainPends ==
    ASSUME NEW h \in Int, NEW O \in SUBSET Kinds, NEW E, NEW H \in Seq(Transitions), NEW L \in Seq(Entries),
           NEW v \in BOOLEAN, NEW pen \in Seq(Observed), NEW pp, NEW que, NEW qq, Kinded(que),
           Chain(h, O, E, H, L, v, pen, 0, pp, que, qq),
           NEW k \in O, que[k] # <<>>, NEW a \in Nat, Past(h, L, pen, a)
    PROVE  Chain(h, O, E, H, L, v, Append(pen, Stamped(Head(que[k]), a)), 0, Append(pp, qq[k][1]), que, qq)
<1> USE DEF Past
<1> DEFINE t  == que[k][1]
           s  == Stamped(t, a)
           n  == Len(pen) + 1
           pn == Append(pen, s)
           x  == qq[k][1]
           px == Append(pp, x)
<1>1. /\ k \in Kinds /\ que[k] \in Seq(Transitions) /\ Head(que[k]) = t /\ 1 \in DOMAIN que[k]
      /\ t \in Transitions
  BY DEF Kinded
<1>2. /\ s.uid = t.uid /\ s.row = t.row /\ s.type = t.type /\ s.reason = t.reason
      /\ s.bad = t.bad /\ s.at = a /\ (Named(s) <=> Named(t))
  BY DEF Stamped, Named
<1>3. RankOK(H, pen, pp, que, qq)
  BY DEF Chain
<1>4. qq[k] \in Seq(Nat) /\ Len(qq[k]) = Len(que[k]) /\ pp \in Seq(Nat) /\ Len(pp) = Len(pen)
  BY <1>1, <1>3 DEF RankOK
<1>5. x \in Nat
  <2>1. 1 \in DOMAIN qq[k]
    BY <1>1, <1>4
  <2> QED BY <1>4, <2>1
<1>6. /\ Len(pen) \in Nat /\ DOMAIN pen = 1..Len(pen) /\ DOMAIN pn = 1..n /\ Len(pn) = n
      /\ DOMAIN px = 1..n /\ Len(px) = n
      /\ \A i \in 1..Len(pen) : pn[i] = pen[i] /\ px[i] = pp[i]
      /\ pn[n] = s /\ px[n] = x /\ px \in Seq(Nat)
  <2>1. Len(pen) \in Nat /\ DOMAIN pen = 1..Len(pen) /\ DOMAIN pp = 1..Len(pen)
    BY <1>4
  <2>2. DOMAIN pn = 1..n /\ Len(pn) = n /\ pn[n] = s /\ \A i \in 1..Len(pen) : pn[i] = pen[i]
    <3> HIDE DEF s
    <3> QED BY <2>1
  <2>3. DOMAIN px = 1..n /\ Len(px) = n /\ px[n] = x /\ px \in Seq(Nat) /\ \A i \in 1..Len(pen) : px[i] = pp[i]
    <3> HIDE DEF x
    <3> QED BY <1>4, <1>5, <2>1
  <2> QED BY <2>1, <2>2, <2>3
<1>16. /\ n \in Int /\ n <= n
       /\ \A i \in DOMAIN pen : i \in Int /\ i < n
       /\ \A i \in DOMAIN pn : i \in Int /\ (i = n \/ i \in DOMAIN pen) /\ i <= n
  BY <1>6
<1>17. \A i \in DOMAIN pen : pn[i] = pen[i] /\ px[i] = pp[i]
  BY <1>6
<1> HIDE DEF t, s, pn, x, px
<1>7. \A i \in Int : i <= n => /\ CleanTo(pn, 0, i) <=> CleanTo(pen, 0, i)
                               /\ \A u, r : Waits(pn, 0, px, u, r, i) <=> Waits(pen, 0, pp, u, r, i)
  <2> SUFFICES ASSUME NEW i \in Int, i <= n
               PROVE  /\ CleanTo(pn, 0, i) <=> CleanTo(pen, 0, i)
                      /\ \A u, r : Waits(pn, 0, px, u, r, i) <=> Waits(pen, 0, pp, u, r, i)
    OBVIOUS
  <2>1. \A j \in (0 + 1)..(i - 1) : pn[j] = pen[j] /\ px[j] = pp[j]
    BY <1>6
  <2> QED BY <2>1 DEF CleanTo, Waits
<1>8. CleanTo(pn, 0, n + 1) => CleanTo(pen, 0, Len(pen) + 1)
  <2>1. CleanTo(pn, 0, n + 1) => CleanTo(pn, 0, n)
    BY <1>6 DEF CleanTo
  <2>2. CleanTo(pn, 0, n) <=> CleanTo(pen, 0, n)
    BY <1>7, <1>16
  <2> QED BY <2>1, <2>2
<1>9. \A u, r : Waits(pen, 0, pp, u, r, Len(pen) + 1) => Waits(pn, 0, px, u, r, n + 1)
  <2>1. \A u, r : Waits(pn, 0, px, u, r, n) => Waits(pn, 0, px, u, r, n + 1)
    BY <1>6 DEF Waits
  <2> QED BY SMTT(30), <1>6, <1>7, <2>1
<1>10. PenOK(h, H, L, v, pn, 0, px)
  <2> SUFFICES ASSUME ~v, NEW i \in (0 + 1)..Len(pn), Named(pn[i]), InWindow(h, pn[i]), CleanTo(pn, 0, i)
               PROVE  /\ Recorded(L, pn[i].uid) <= px[i]
                      /\ Fresh(H, pn[i].uid, px[i])
                      /\ \A r \in Nat : Recorded(L, pn[i].uid) < r /\ r < px[i] => Waits(pn, 0, px, pn[i].uid, r, i)
    BY DEF PenOK
  <2>1. CASE i \in 1..Len(pen)
    <3>1. pn[i] = pen[i] /\ px[i] = pp[i] /\ CleanTo(pen, 0, i) /\ i \in (0 + 1)..Len(pen)
      BY <1>6, <1>7, <2>1
    <3>2. /\ Recorded(L, pen[i].uid) <= pp[i]
          /\ Fresh(H, pen[i].uid, pp[i])
          /\ \A r \in Nat : Recorded(L, pen[i].uid) < r /\ r < pp[i] => Waits(pen, 0, pp, pen[i].uid, r, i)
      BY <3>1 DEF Chain, PenOK
    <3> QED BY <1>6, <1>7, <2>1, <3>1, <3>2
  <2>2. CASE i = n
    <3>1. h = -1
      BY <1>2, <1>6, <2>2 DEF InWindow
    <3>2. CleanTo(pen, 0, Len(pen) + 1) /\ Named(t) /\ CleanTo(que[k], 0, 1)
      BY <1>2, <1>6, <1>7, <2>2 DEF CleanTo
    <3>3. /\ Recorded(L, que[k][1].uid) <= qq[k][1]
          /\ Fresh(H, que[k][1].uid, qq[k][1])
          /\ \A r \in Nat : Recorded(L, que[k][1].uid) < r /\ r < qq[k][1] =>
               \/ Waits(pen, 0, pp, que[k][1].uid, r, Len(pen) + 1)
               \/ Waits(que[k], 0, qq[k], que[k][1].uid, r, 1)
      BY <1>1, <3>1, <3>2 DEF Chain, QueOK, t
    <3>4. \A u, r : ~Waits(que[k], 0, qq[k], u, r, 1)
      BY DEF Waits
    <3>5. \A u, r : Waits(pen, 0, pp, u, r, Len(pen) + 1) => Waits(pn, 0, px, u, r, n)
      BY <1>7, <1>16
    <3> QED BY <1>2, <1>6, <2>2, <3>3, <3>4, <3>5 DEF t, x
  <2> QED BY <1>6, <2>1, <2>2
<1>11. QueOK(h, O, H, L, v, pn, 0, px, que, qq)
  BY <1>6, <1>8, <1>9 DEF Chain, QueOK
<1>12. AllOK(h, O, E, H, L, v, pn, 0, px, que, qq)
  BY <1>6, <1>8, <1>9 DEF Chain, AllOK
<1>13. RankOK(H, pn, px, que, qq)
  <2>1. \A i \in DOMAIN pn : Named(pn[i]) => Matched(H, pn[i], px[i])
    <3>1. Named(s) => Matched(H, s, x)
      BY <1>1, <1>2, <1>3 DEF RankOK, Matched, t, x
    <3> SUFFICES ASSUME NEW i \in DOMAIN pn, Named(pn[i]) PROVE Matched(H, pn[i], px[i])
      OBVIOUS
    <3>2. CASE i \in DOMAIN pen
      BY <1>3, <1>17, <3>2 DEF RankOK
    <3>3. CASE i = n
      BY <1>6, <3>1, <3>3
    <3> QED BY <1>16, <3>2, <3>3
  <2>2. \A j \in DOMAIN pn :
          j < n /\ Named(pn[j]) /\ Named(pn[n]) /\ pn[j].uid = pn[n].uid => px[j] <= px[n]
    <3> SUFFICES ASSUME NEW j \in DOMAIN pn, j < n, Named(pn[j]), Named(pn[n]), pn[j].uid = pn[n].uid
                 PROVE  px[j] <= px[n]
      OBVIOUS
    <3>1. j \in DOMAIN pen
      BY <1>16
    <3>2. Named(pen[j]) /\ Named(que[k][1]) /\ pen[j].uid = que[k][1].uid
      BY <1>2, <1>6, <1>17, <3>1 DEF t
    <3>3. pp[j] <= qq[k][1]
      BY <1>1, <1>3, <3>1, <3>2 DEF RankOK
    <3> QED BY <1>6, <1>17, <3>1, <3>3 DEF x
  <2>3. \A i, j \in DOMAIN pn :
          i < j /\ Named(pn[i]) /\ Named(pn[j]) /\ pn[i].uid = pn[j].uid => px[i] <= px[j]
    <3> SUFFICES ASSUME NEW i \in DOMAIN pn, NEW j \in DOMAIN pn,
                        i < j, Named(pn[i]), Named(pn[j]), pn[i].uid = pn[j].uid
                 PROVE  px[i] <= px[j]
      OBVIOUS
    <3>1. i \in DOMAIN pen
      BY <1>16
    <3>2. CASE j \in DOMAIN pen
      BY <1>3, <1>17, <3>1, <3>2 DEF RankOK
    <3> QED BY <1>16, <2>2, <3>2
  <2>4. \A l \in Kinds : \A j \in DOMAIN que[l] :
          Named(s) /\ Named(que[l][j]) /\ s.uid = que[l][j].uid => x <= qq[l][j]
    <3> SUFFICES ASSUME NEW l \in Kinds, NEW j \in DOMAIN que[l], Named(s), Named(que[l][j]), s.uid = que[l][j].uid
                 PROVE  x <= qq[l][j]
      OBVIOUS
    <3>1. l = k
      <4>1. KindOf(t.uid) = k /\ KindOf(que[l][j].uid) = l
        BY <1>1 DEF Kinded, t
      <4> QED BY <1>2, <4>1
    <3>2. j = 1 \/ 1 < j
      BY <1>1, <3>1
    <3>3. CASE 1 < j
      BY <1>1, <1>2, <1>3, <3>1, <3>3 DEF RankOK, t, x
    <3> QED BY <1>5, <3>1, <3>2, <3>3 DEF x
  <2>5. \A l \in Kinds : \A i \in DOMAIN pn, j \in DOMAIN que[l] :
          Named(pn[i]) /\ Named(que[l][j]) /\ pn[i].uid = que[l][j].uid => px[i] <= qq[l][j]
    <3> SUFFICES ASSUME NEW l \in Kinds, NEW i \in DOMAIN pn, NEW j \in DOMAIN que[l],
                        Named(pn[i]), Named(que[l][j]), pn[i].uid = que[l][j].uid
                 PROVE  px[i] <= qq[l][j]
      OBVIOUS
    <3>1. CASE i \in DOMAIN pen
      BY <1>3, <1>17, <3>1 DEF RankOK
    <3>2. CASE i = n
      BY <1>6, <2>4, <3>2
    <3> QED BY <1>16, <3>1, <3>2
  <2> QED BY <1>3, <1>6, <2>1, <2>3, <2>5 DEF RankOK
<1>14. AtOK(L, pn, 0)
  <2>0. AtOK(L, pen, 0)
    BY DEF Chain
  <2>1. ASSUME NEW i \in DOMAIN pn, NEW j \in DOMAIN pn, i < j PROVE pn[i].at < pn[j].at
    <3>1. i \in DOMAIN pen
      BY <1>16, <2>1
    <3>2. CASE j \in DOMAIN pen
      BY <1>17, <2>0, <2>1, <3>1, <3>2 DEF AtOK
    <3>3. CASE j = n
      BY <1>2, <1>6, <1>17, <3>1, <3>3
    <3> QED BY <1>16, <3>2, <3>3
  <2>2. ASSUME NEW i \in DOMAIN L, NEW j \in (0 + 1)..Len(pn), L[i].type # "Submitted"
        PROVE  L[i].at < pn[j].at
    <3>1. CASE j = n
      BY <1>2, <1>6, <3>1
    <3>2. CASE j # n
      <4>1. j \in (0 + 1)..Len(pen) /\ j \in DOMAIN pen
        BY <1>6, <3>2
      <4> QED BY <1>17, <2>0, <2>2, <4>1 DEF AtOK
    <3> QED BY <3>1, <3>2
  <2> QED BY <2>1, <2>2 DEF AtOK
<1>15. LedgerOK(h, H, L)
  BY DEF Chain
<1> QED BY <1>1, <1>10, <1>11, <1>12, <1>13, <1>14, <1>15 DEF Chain, s, pn, x, px

(* What a tail of a sequence holds.                                        *)
LEMMA TailsAgree ==
    ASSUME NEW S, NEW s \in Seq(S), NEW T, NEW t \in Seq(T), s # <<>>, Len(t) = Len(s)
    PROVE  /\ Tail(t) \in Seq(T) /\ Len(Tail(t)) = Len(Tail(s))
           /\ Len(s) \in Nat /\ Len(Tail(s)) = Len(s) - 1 /\ DOMAIN Tail(s) = 1..Len(Tail(s))
           /\ DOMAIN s = 1..Len(s)
           /\ \A i \in DOMAIN Tail(s) :
                 i \in Int /\ i + 1 \in DOMAIN s /\ Tail(s)[i] = s[i + 1] /\ Tail(t)[i] = t[i + 1]
OBVIOUS

(* What a stream hands over and drops has been told before,                *)
Settled(h, pen, pp, que, qq, k) ==
    h = -1 /\ CleanTo(pen, 0, Len(pen) + 1) =>
      /\ ~que[k][1].bad
      /\ Named(que[k][1]) => Waits(pen, 0, pp, que[k][1].uid, qq[k][1], Len(pen) + 1)

(* and is gone from the stream.                                            *)
Shortened(que, qq, Q, R, k) ==
    /\ Q[k] = Tail(que[k]) /\ R[k] = Tail(qq[k])
    /\ \A l \in Kinds \ {k} : Q[l] = que[l] /\ R[l] = qq[l]

(* A stream's queue loses its head: one that is pending already, one the   *)
(* builder would not record, or, past the deadline, any.                   *)
LEMMA ChainDrops ==
    ASSUME NEW h \in Int, NEW O \in SUBSET Kinds, NEW E, NEW H \in Seq(Transitions), NEW L \in Seq(Entries),
           NEW v \in BOOLEAN, NEW pen \in Seq(Observed), NEW pp, NEW que, NEW qq, Kinded(que),
           Chain(h, O, E, H, L, v, pen, 0, pp, que, qq),
           NEW k \in Kinds, que[k] # <<>>,
           Settled(h, pen, pp, que, qq, k), NEW Q, NEW R, Shortened(que, qq, Q, R, k)
    PROVE  Chain(h, O, E, H, L, v, pen, 0, pp, Q, R)
<1> USE DEF Settled, Shortened
<1>1. que[k] \in Seq(Transitions) /\ 1 \in DOMAIN que[k]
  BY DEF Kinded
<1>2. RankOK(H, pen, pp, que, qq)
  BY DEF Chain
<1>3. qq[k] \in Seq(Nat) /\ Len(qq[k]) = Len(que[k])
  BY <1>2 DEF RankOK
<1>4. /\ R[k] \in Seq(Nat) /\ Len(R[k]) = Len(Q[k])
      /\ Len(que[k]) \in Nat /\ Len(Q[k]) = Len(que[k]) - 1 /\ DOMAIN Q[k] = 1..Len(Q[k])
      /\ DOMAIN que[k] = 1..Len(que[k])
      /\ \A i \in DOMAIN Q[k] : i \in Int /\ i + 1 \in DOMAIN que[k] /\ Q[k][i] = que[k][i + 1] /\ R[k][i] = qq[k][i + 1]
  <2> DEFINE q == que[k]
             t == qq[k]
  <2>1. q \in Seq(Transitions) /\ t \in Seq(Nat) /\ q # <<>> /\ Len(t) = Len(q)
    BY <1>1, <1>3
  <2> HIDE DEF q, t
  <2>2. /\ Tail(t) \in Seq(Nat) /\ Len(Tail(t)) = Len(Tail(q))
        /\ Len(q) \in Nat /\ Len(Tail(q)) = Len(q) - 1 /\ DOMAIN Tail(q) = 1..Len(Tail(q))
        /\ DOMAIN q = 1..Len(q)
        /\ \A i \in DOMAIN Tail(q) :
              i \in Int /\ i + 1 \in DOMAIN q /\ Tail(q)[i] = q[i + 1] /\ Tail(t)[i] = t[i + 1]
    BY <2>1, TailsAgree
  <2>3. Q[k] = Tail(q) /\ R[k] = Tail(t)
    BY DEF q, t
  <2> QED BY <2>2, <2>3 DEF q, t
<1>11. \A i \in DOMAIN Q[k] : i \in Int /\ 1 <= i /\ i <= Len(Q[k]) /\ i <= Len(Q[k]) + 1
  BY <1>4
<1>5. ASSUME NEW i \in Int, i <= Len(Q[k]) + 1, CleanTo(Q[k], 0, i), ~que[k][1].bad
      PROVE  CleanTo(que[k], 0, i + 1)
  <2> SUFFICES ASSUME NEW n \in (0 + 1)..((i + 1) - 1) PROVE ~que[k][n].bad
    BY DEF CleanTo
  <2>1. CASE n = 1
    BY <1>5, <2>1
  <2>2. CASE n # 1
    <3>1. n - 1 \in (0 + 1)..(i - 1) /\ n - 1 \in DOMAIN Q[k] /\ (n - 1) + 1 = n
      BY <1>4, <1>5, <2>2
    <3>2. Q[k][n - 1] = que[k][n]
      BY <1>4, <3>1
    <3>3. ~Q[k][n - 1].bad
      BY <1>5, <3>1 DEF CleanTo
    <3> QED BY <3>2, <3>3
  <2> QED BY <2>1, <2>2
<1>6. ASSUME NEW i \in Int, i <= Len(Q[k]) + 1, NEW u, NEW r, Waits(que[k], 0, qq[k], u, r, i + 1)
      PROVE  Waits(Q[k], 0, R[k], u, r, i) \/ (Named(que[k][1]) /\ que[k][1].uid = u /\ qq[k][1] = r)
  <2>1. PICK n \in (0 + 1)..((i + 1) - 1) : Named(que[k][n]) /\ que[k][n].uid = u /\ qq[k][n] = r
    BY <1>6 DEF Waits
  <2>2. CASE n # 1
    <3>1. n - 1 \in (0 + 1)..(i - 1) /\ n - 1 \in DOMAIN Q[k] /\ (n - 1) + 1 = n
      <4> HIDE DEF Settled, Shortened
      <4> QED BY <1>4, <1>6, <2>2
    <3> QED BY <1>4, <2>1, <3>1 DEF Waits
  <2> QED BY <2>1, <2>2
<1>7. LedgerOK(h, H, L) /\ PenOK(h, H, L, v, pen, 0, pp) /\ AtOK(L, pen, 0)
  BY DEF Chain
<1>8. QueOK(h, O, H, L, v, pen, 0, pp, Q, R)
  <2> SUFFICES ASSUME h = -1, ~v, CleanTo(pen, 0, Len(pen) + 1),
                      NEW l \in O, NEW i \in DOMAIN Q[l], Named(Q[l][i]), CleanTo(Q[l], 0, i)
               PROVE  /\ Recorded(L, Q[l][i].uid) <= R[l][i]
                      /\ Fresh(H, Q[l][i].uid, R[l][i])
                      /\ \A r \in Nat : Recorded(L, Q[l][i].uid) < r /\ r < R[l][i] =>
                           \/ Waits(pen, 0, pp, Q[l][i].uid, r, Len(pen) + 1)
                           \/ Waits(Q[l], 0, R[l], Q[l][i].uid, r, i)
    BY DEF QueOK
  <2>1. CASE l # k
    BY <2>1 DEF Chain, QueOK
  <2>2. CASE l = k
    <3>1. i + 1 \in DOMAIN que[k] /\ Q[k][i] = que[k][i + 1] /\ R[k][i] = qq[k][i + 1] /\ i \in Int /\ i <= Len(Q[k]) + 1
      <4>1. i \in DOMAIN Q[k]
        BY <2>2
      <4> QED BY <1>4, <1>11, <4>1
    <3>2. CleanTo(que[k], 0, i + 1)
      BY <1>5, <2>2, <3>1
    <3>3. /\ Recorded(L, que[k][i + 1].uid) <= qq[k][i + 1]
          /\ Fresh(H, que[k][i + 1].uid, qq[k][i + 1])
          /\ \A r \in Nat : Recorded(L, que[k][i + 1].uid) < r /\ r < qq[k][i + 1] =>
               \/ Waits(pen, 0, pp, que[k][i + 1].uid, r, Len(pen) + 1)
               \/ Waits(que[k], 0, qq[k], que[k][i + 1].uid, r, i + 1)
      BY <2>2, <3>1, <3>2 DEF Chain, QueOK
    <3>4. Named(que[k][1]) => Waits(pen, 0, pp, que[k][1].uid, qq[k][1], Len(pen) + 1)
      OBVIOUS
    <3>5. ASSUME NEW r \in Nat, Recorded(L, Q[k][i].uid) < r, r < R[k][i]
          PROVE  Waits(pen, 0, pp, Q[k][i].uid, r, Len(pen) + 1) \/ Waits(Q[k], 0, R[k], Q[k][i].uid, r, i)
      <4>1. \/ Waits(pen, 0, pp, Q[k][i].uid, r, Len(pen) + 1)
            \/ Waits(que[k], 0, qq[k], Q[k][i].uid, r, i + 1)
        BY <3>1, <3>3, <3>5
      <4>2. CASE Waits(que[k], 0, qq[k], Q[k][i].uid, r, i + 1)
        <5>1. \/ Waits(Q[k], 0, R[k], Q[k][i].uid, r, i)
              \/ Named(que[k][1]) /\ que[k][1].uid = Q[k][i].uid /\ qq[k][1] = r
          <6>1. i \in Int /\ i <= Len(Q[k]) + 1
            BY <3>1
          <6> QED BY <1>6, <4>2, <6>1
        <5> QED BY <3>4, <5>1
      <4> QED BY <4>1, <4>2
    <3> QED BY <2>2, <3>1, <3>3, <3>5
  <2> QED BY <2>1, <2>2
<1>9. AllOK(h, O, E, H, L, v, pen, 0, pp, Q, R)
  <2> SUFFICES ASSUME h = -1, ~v, CleanTo(pen, 0, Len(pen) + 1),
                      NEW l \in O, CleanTo(Q[l], 0, Len(Q[l]) + 1), NEW u \in Uids \ {Stray}, KindOf(u) = l
               PROVE  /\ u \in E
                      /\ \A r \in Nat : Fresh(H, u, r)
                      /\ \A r \in Nat : Recorded(L, u) < r /\ r <= Recorded(H, u) =>
                           \/ Waits(pen, 0, pp, u, r, Len(pen) + 1)
                           \/ Waits(Q[l], 0, R[l], u, r, Len(Q[l]) + 1)
    BY DEF AllOK
  <2>1. CASE l # k
    BY <2>1 DEF Chain, AllOK
  <2>2. CASE l = k
    <3>1. Len(Q[k]) + 1 \in Int /\ Len(Q[k]) + 1 <= Len(Q[k]) + 1 /\ (Len(Q[k]) + 1) + 1 = Len(que[k]) + 1
      BY <1>4
    <3>2. CleanTo(que[k], 0, Len(que[k]) + 1)
      BY <1>5, <2>2, <3>1
    <3>3. /\ u \in E
          /\ \A r \in Nat : Fresh(H, u, r)
          /\ \A r \in Nat : Recorded(L, u) < r /\ r <= Recorded(H, u) =>
               \/ Waits(pen, 0, pp, u, r, Len(pen) + 1)
               \/ Waits(que[k], 0, qq[k], u, r, Len(que[k]) + 1)
      BY <2>2, <3>2 DEF Chain, AllOK
    <3>4. ASSUME NEW r, Waits(que[k], 0, qq[k], u, r, Len(que[k]) + 1)
          PROVE  Waits(Q[k], 0, R[k], u, r, Len(Q[k]) + 1) \/ (Named(que[k][1]) /\ que[k][1].uid = u /\ qq[k][1] = r)
      <4> HIDE DEF Settled, Shortened
      <4> QED BY <1>6, <3>1, <3>4
    <3>5. ASSUME NEW r \in Nat, Recorded(L, u) < r, r <= Recorded(H, u)
          PROVE  Waits(pen, 0, pp, u, r, Len(pen) + 1) \/ Waits(Q[k], 0, R[k], u, r, Len(Q[k]) + 1)
      BY <3>3, <3>4, <3>5
    <3> QED BY <2>2, <3>3, <3>5
  <2> QED BY <2>1, <2>2
<1>10. RankOK(H, pen, pp, Q, R)
  <2>1. \A l \in Kinds : R[l] \in Seq(Nat) /\ Len(R[l]) = Len(Q[l])
    BY <1>2, <1>4 DEF RankOK
  <2>2. ASSUME NEW l \in Kinds, NEW i \in DOMAIN Q[l], Named(Q[l][i]) PROVE Matched(H, Q[l][i], R[l][i])
    <3>1. CASE l # k
      BY <1>2, <2>2, <3>1 DEF RankOK
    <3>2. CASE l = k
      <4>1. i + 1 \in DOMAIN que[k] /\ Q[k][i] = que[k][i + 1] /\ R[k][i] = qq[k][i + 1]
        BY <1>4, <3>2
      <4> QED BY <1>2, <2>2, <3>2, <4>1 DEF RankOK
    <3> QED BY <3>1, <3>2
  <2>3. \A l \in Kinds : \A i \in DOMAIN pen, j \in DOMAIN Q[l] :
          Named(pen[i]) /\ Named(Q[l][j]) /\ pen[i].uid = Q[l][j].uid => pp[i] <= R[l][j]
    <3> SUFFICES ASSUME NEW l \in Kinds, NEW i \in DOMAIN pen, NEW j \in DOMAIN Q[l],
                        Named(pen[i]), Named(Q[l][j]), pen[i].uid = Q[l][j].uid
                 PROVE  pp[i] <= R[l][j]
      OBVIOUS
    <3>1. CASE l # k
      BY <1>2, <3>1 DEF RankOK
    <3>2. CASE l = k
      <4>1. j + 1 \in DOMAIN que[k] /\ Q[k][j] = que[k][j + 1] /\ R[k][j] = qq[k][j + 1]
        BY <1>4, <3>2
      <4> QED BY <1>2, <3>2, <4>1 DEF RankOK
    <3> QED BY <3>1, <3>2
  <2>4. \A l \in Kinds : \A i, j \in DOMAIN Q[l] :
          i < j /\ Named(Q[l][i]) /\ Named(Q[l][j]) /\ Q[l][i].uid = Q[l][j].uid => R[l][i] <= R[l][j]
    <3> SUFFICES ASSUME NEW l \in Kinds, NEW i \in DOMAIN Q[l], NEW j \in DOMAIN Q[l],
                        i < j, Named(Q[l][i]), Named(Q[l][j]), Q[l][i].uid = Q[l][j].uid
                 PROVE  R[l][i] <= R[l][j]
      OBVIOUS
    <3>1. CASE l # k
      BY <1>2, <3>1 DEF RankOK
    <3>2. CASE l = k
      <4>1. /\ i + 1 \in DOMAIN que[k] /\ j + 1 \in DOMAIN que[k] /\ i + 1 < j + 1
            /\ Q[k][i] = que[k][i + 1] /\ R[k][i] = qq[k][i + 1]
            /\ Q[k][j] = que[k][j + 1] /\ R[k][j] = qq[k][j + 1]
        <5>1. i \in DOMAIN Q[k] /\ j \in DOMAIN Q[k]
          BY <3>2
        <5>2. i + 1 < j + 1
          BY <1>11, <5>1
        <5> QED BY <1>4, <5>1, <5>2
      <4> QED BY <1>2, <3>2, <4>1 DEF RankOK
    <3> QED BY <3>1, <3>2
  <2> QED BY <1>2, <2>1, <2>2, <2>3, <2>4 DEF RankOK
<1> QED BY <1>7, <1>8, <1>9, <1>10 DEF Chain

(* An event that happened is at a position the history has.                *)
LEMMA MatchedWithin ==
    ASSUME NEW H \in Seq(Transitions), NEW e, NEW r, Matched(H, e, r)
    PROVE  r \in Nat /\ 1 <= r /\ r <= Recorded(H, e.uid)
<1>1. PICK j \in DOMAIN H : H[j].uid = e.uid /\ Nth(H, j) = r
  BY DEF Matched
<1> QED BY <1>1, NthBounds

(* The ledger holds no more events of an object than happened.             *)
LEMMA LedgerWithin ==
    ASSUME NEW H \in Seq(Transitions), NEW L \in Seq(Entries), LedgerOK(-1, H, L), NEW u \in Uids
    PROVE  Recorded(L, u) <= Recorded(H, u)
<1>1. Recorded(L, u) \in Nat /\ Recorded(H, u) \in Nat
  BY KindredAre
<1>2. CASE Kindred(L, u) = {}
  BY <1>1, <1>2, KindredAre
<1>3. CASE Kindred(L, u) # {}
  <2>1. PICK i \in DOMAIN L : L[i].uid = u /\ Nth(L, i) = Recorded(L, u)
    BY <1>3, LastIsLatest
  <2>2. L[i].type # "Submitted"
    BY <2>1, EntriesAre
  <2>3. PICK j \in DOMAIN H : H[j].uid = u /\ Nth(H, j) = Recorded(L, u)
    BY <2>1, <2>2 DEF LedgerOK, InWindow
  <2> QED BY <2>3, NthBounds
<1> QED BY <1>2, <1>3

(* What happened goes on from H to G, of which t is told with rank x.      *)
Succeeds(H, G, t, x, E, F) ==
    /\ \A e, r : Matched(H, e, r) => Matched(G, e, r)
    /\ \A u : u # t.uid \/ ~Named(t) => Recorded(G, u) = Recorded(H, u)
    /\ Recorded(G, t.uid) = Recorded(H, t.uid) \/ Recorded(G, t.uid) = Recorded(H, t.uid) + 1
    /\ Named(t) => Matched(G, t, x) /\ x = Recorded(G, t.uid)
    /\ \A u, r : r <= Recorded(H, u) /\ Fresh(H, u, r) => Fresh(G, u, r)
    /\ \A u \in Uids : u \in E /\ (\A r \in Nat : Fresh(H, u, r)) => \A r \in Nat : Fresh(G, u, r)
    /\ \A u \in E : u \in F \/ (KindOf(u) = KindOf(t.uid) /\ t.bad)

(* A stream is sent an event of rank x.                                    *)
Sent(que, qq, Q, R, k, t, x) ==
    /\ Q[k] = Append(que[k], t) /\ R[k] = Append(qq[k], x)
    /\ \A l \in Kinds \ {k} : Q[l] = que[l] /\ R[l] = qq[l]

(* A stream is sent one more event, of rank x.                             *)
LEMMA ChainSends ==
    ASSUME NEW h \in Int, NEW O \in SUBSET Kinds, NEW E, NEW H \in Seq(Transitions), NEW L \in Seq(Entries),
           NEW v \in BOOLEAN, NEW pen \in Seq(Observed), NEW pp, NEW que, NEW qq, Kinded(que),
           Chain(h, O, E, H, L, v, pen, 0, pp, que, qq),
           NEW k \in Kinds, NEW t \in Transitions, KindOf(t.uid) = k,
           NEW G \in Seq(Transitions), NEW x \in Nat, NEW F, Succeeds(H, G, t, x, E, F),
           NEW Q, NEW R, Sent(que, qq, Q, R, k, t, x)
    PROVE  Chain(h, O, F, G, L, v, pen, 0, pp, Q, R)
<1> USE DEF Succeeds, Sent
<1> DEFINE n == Len(que[k]) + 1
           u0 == t.uid
<1>1. que[k] \in Seq(Transitions) /\ \A l \in Kinds : que[l] \in Seq(Transitions)
  BY DEF Kinded
<1>2. RankOK(H, pen, pp, que, qq) /\ AtOK(L, pen, 0) /\ LedgerOK(h, H, L)
  BY DEF Chain
<1>3. qq[k] \in Seq(Nat) /\ Len(qq[k]) = Len(que[k]) /\ u0 \in Uids
  BY <1>2, EntriesAre DEF RankOK
<1>15. /\ n \in Nat /\ 1 <= n /\ n <= n /\ Len(que[k]) + 1 = n /\ DOMAIN que[k] = 1..Len(que[k]) /\ Len(que[k]) \in Nat
       /\ R[k] \in Seq(Nat) /\ Len(R[k]) = n /\ Len(Q[k]) = n /\ DOMAIN Q[k] = 1..n
       /\ Q[k][n] = t /\ R[k][n] = x
       /\ \A i \in DOMAIN que[k] : Q[k][i] = que[k][i] /\ R[k][i] = qq[k][i]
  <2> DEFINE q == que[k]
             s == qq[k]
  <2>1. q \in Seq(Transitions) /\ s \in Seq(Nat) /\ Len(s) = Len(q)
    BY <1>1, <1>3
  <2> HIDE DEF q, s
  <2>2. /\ Len(q) \in Nat /\ DOMAIN q = 1..Len(q) /\ DOMAIN s = 1..Len(q)
        /\ Append(s, x) \in Seq(Nat) /\ Len(Append(s, x)) = Len(q) + 1
        /\ Len(Append(q, t)) = Len(q) + 1 /\ DOMAIN Append(q, t) = 1..(Len(q) + 1)
        /\ Append(q, t)[Len(q) + 1] = t /\ Append(s, x)[Len(q) + 1] = x
        /\ \A i \in 1..Len(q) : Append(q, t)[i] = q[i] /\ Append(s, x)[i] = s[i]
    BY <2>1
  <2>3. Q[k] = Append(q, t) /\ R[k] = Append(s, x) /\ n = Len(q) + 1
    BY DEF q, s
  <2>4. Len(q) + 1 \in Nat /\ 1 <= Len(q) + 1 /\ Len(q) + 1 <= Len(q) + 1
    BY <2>2
  <2>5. /\ R[k] \in Seq(Nat) /\ Len(R[k]) = n /\ Len(Q[k]) = n /\ DOMAIN Q[k] = 1..n
        /\ Q[k][n] = t /\ R[k][n] = x
    BY <2>2, <2>3
  <2>6. \A i \in DOMAIN q : Q[k][i] = q[i] /\ R[k][i] = s[i]
    BY <2>2, <2>3
  <2> QED BY <2>2, <2>3, <2>4, <2>5, <2>6 DEF q, s
<1> HIDE DEF n
<1>16. \A i \in DOMAIN que[k] : i \in Int /\ i < n /\ i <= n /\ i \in DOMAIN Q[k]
  <2>1. /\ n \in Nat /\ Len(que[k]) + 1 = n /\ DOMAIN que[k] = 1..Len(que[k]) /\ Len(que[k]) \in Nat
        /\ DOMAIN Q[k] = 1..n
    BY <1>15
  <2> QED BY <2>1
<1>17. \A i \in DOMAIN Q[k] : i \in Int /\ i <= n /\ (i = n \/ i \in DOMAIN que[k])
  BY SMTT(30), <1>15
<1>4. /\ n \in Int /\ n <= n /\ Len(que[k]) \in Nat
      /\ R[k] \in Seq(Nat) /\ Len(R[k]) = n /\ Len(Q[k]) = n /\ Len(que[k]) + 1 = n
      /\ Q[k][n] = t /\ R[k][n] = x
      /\ \A i \in DOMAIN que[k] : Q[k][i] = que[k][i] /\ R[k][i] = qq[k][i] /\ i \in Int /\ i < n /\ i <= n
      /\ \A i \in DOMAIN Q[k] : i \in Int /\ i <= n /\ (i = n \/ i \in DOMAIN que[k])
  <2> HIDE DEF Succeeds, Sent
  <2> QED BY <1>15, <1>16, <1>17
<1>18. \A u : Recorded(L, u) \in Nat /\ Recorded(H, u) \in Nat /\ Recorded(G, u) \in Nat
  BY KindredAre
<1>5. \A u : Recorded(L, u) \in Nat /\ Recorded(H, u) \in Nat /\ Recorded(G, u) \in Nat /\ Recorded(H, u) <= Recorded(G, u)
  <2>1. ASSUME NEW u PROVE Recorded(H, u) <= Recorded(G, u)
    <3>1. CASE u # u0
      BY <1>18, <3>1
    <3>2. CASE u = u0
      BY <1>18, <3>2
    <3> QED BY <3>1, <3>2
  <2> QED BY <1>18, <2>1
<1>6. ASSUME NEW i \in Int, i <= n
      PROVE  /\ CleanTo(Q[k], 0, i) <=> CleanTo(que[k], 0, i)
             /\ \A u, r : Waits(Q[k], 0, R[k], u, r, i) <=> Waits(que[k], 0, qq[k], u, r, i)
  <2>1. \A j \in (0 + 1)..(i - 1) : j \in DOMAIN que[k]
    BY <1>6, <1>15
  <2>2. \A j \in (0 + 1)..(i - 1) : Q[k][j] = que[k][j] /\ R[k][j] = qq[k][j]
    BY <1>4, <2>1
  <2> QED BY <2>2 DEF CleanTo, Waits
<1>7. CleanTo(Q[k], 0, n + 1) => CleanTo(que[k], 0, Len(que[k]) + 1) /\ ~t.bad
  <2>1. CleanTo(Q[k], 0, n + 1) => CleanTo(Q[k], 0, n) /\ ~Q[k][n].bad
    <3>1. \A j \in (0 + 1)..(n - 1) : j \in (0 + 1)..((n + 1) - 1)
      BY <1>15
    <3>2. n \in (0 + 1)..((n + 1) - 1)
      BY <1>15
    <3> QED BY <3>1, <3>2 DEF CleanTo
  <2> QED BY <1>4, <1>6, <2>1
<1>8. \A u, r : Waits(que[k], 0, qq[k], u, r, Len(que[k]) + 1) => Waits(Q[k], 0, R[k], u, r, n + 1)
  <2>1. \A u, r : Waits(Q[k], 0, R[k], u, r, n) => Waits(Q[k], 0, R[k], u, r, n + 1)
    <3>1. \A j \in (0 + 1)..(n - 1) : j \in (0 + 1)..((n + 1) - 1)
      BY <1>15
    <3> QED BY <3>1 DEF Waits
  <2>2. \A u, r : Waits(Q[k], 0, R[k], u, r, n) <=> Waits(que[k], 0, qq[k], u, r, n)
    BY <1>4, <1>6
  <2> QED BY <1>4, <2>1, <2>2
<1>9. \A e, r : Matched(H, e, r) => r <= Recorded(H, e.uid) /\ r \in Nat
  BY MatchedWithin
<1>10. LedgerOK(h, G, L)
  <2> SUFFICES ASSUME NEW i \in DOMAIN L, L[i].type # "Submitted", InWindow(h, L[i])
               PROVE  \E j \in DOMAIN G :
                        /\ G[j].uid = L[i].uid /\ G[j].row = L[i].job
                        /\ G[j].type = L[i].type /\ G[j].reason = L[i].reason
                        /\ Nth(G, j) = Nth(L, i)
    BY DEF LedgerOK
  <2> DEFINE e == [uid |-> L[i].uid, row |-> L[i].job, type |-> L[i].type, reason |-> L[i].reason]
  <2>1. Matched(H, e, Nth(L, i))
    BY <1>2 DEF LedgerOK, Matched
  <2>2. Matched(G, e, Nth(L, i))
    BY <2>1
  <2> QED BY <2>2 DEF Matched
<1>11. PenOK(h, G, L, v, pen, 0, pp)
  <2> SUFFICES ASSUME ~v, NEW i \in (0 + 1)..Len(pen), Named(pen[i]), InWindow(h, pen[i]), CleanTo(pen, 0, i)
               PROVE  /\ Recorded(L, pen[i].uid) <= pp[i]
                      /\ Fresh(G, pen[i].uid, pp[i])
                      /\ \A r \in Nat : Recorded(L, pen[i].uid) < r /\ r < pp[i] => Waits(pen, 0, pp, pen[i].uid, r, i)
    BY DEF PenOK
  <2>1. /\ Recorded(L, pen[i].uid) <= pp[i]
        /\ Fresh(H, pen[i].uid, pp[i])
        /\ \A r \in Nat : Recorded(L, pen[i].uid) < r /\ r < pp[i] => Waits(pen, 0, pp, pen[i].uid, r, i)
    BY DEF Chain, PenOK
  <2>2. i \in DOMAIN pen
    OBVIOUS
  <2>3. pp[i] <= Recorded(H, pen[i].uid)
    BY <1>2, <1>9, <2>2 DEF RankOK
  <2> QED BY <2>1, <2>3
<1>12. QueOK(h, O, G, L, v, pen, 0, pp, Q, R)
  <2> SUFFICES ASSUME h = -1, ~v, CleanTo(pen, 0, Len(pen) + 1),
                      NEW l \in O, NEW i \in DOMAIN Q[l], Named(Q[l][i]), CleanTo(Q[l], 0, i)
               PROVE  /\ Recorded(L, Q[l][i].uid) <= R[l][i]
                      /\ Fresh(G, Q[l][i].uid, R[l][i])
                      /\ \A r \in Nat : Recorded(L, Q[l][i].uid) < r /\ r < R[l][i] =>
                           \/ Waits(pen, 0, pp, Q[l][i].uid, r, Len(pen) + 1)
                           \/ Waits(Q[l], 0, R[l], Q[l][i].uid, r, i)
    BY DEF QueOK
  <2>1. ASSUME NEW j \in DOMAIN que[l], Named(que[l][j]), CleanTo(que[l], 0, j)
        PROVE  /\ Recorded(L, que[l][j].uid) <= qq[l][j]
               /\ Fresh(G, que[l][j].uid, qq[l][j])
               /\ \A r \in Nat : Recorded(L, que[l][j].uid) < r /\ r < qq[l][j] =>
                    \/ Waits(pen, 0, pp, que[l][j].uid, r, Len(pen) + 1)
                    \/ Waits(que[l], 0, qq[l], que[l][j].uid, r, j)
    <3>1. /\ Recorded(L, que[l][j].uid) <= qq[l][j]
          /\ Fresh(H, que[l][j].uid, qq[l][j])
          /\ \A r \in Nat : Recorded(L, que[l][j].uid) < r /\ r < qq[l][j] =>
               \/ Waits(pen, 0, pp, que[l][j].uid, r, Len(pen) + 1)
               \/ Waits(que[l], 0, qq[l], que[l][j].uid, r, j)
      BY <2>1 DEF Chain, QueOK
    <3>2. qq[l][j] <= Recorded(H, que[l][j].uid)
      BY <1>2, <1>9, <2>1 DEF RankOK
    <3> QED BY <3>1, <3>2
  <2>2. CASE l # k
    BY <2>1, <2>2
  <2>3. CASE l = k /\ i \in DOMAIN que[k]
    <3>1. Q[k][i] = que[k][i] /\ R[k][i] = qq[k][i] /\ i \in Int /\ i <= n
      BY <1>4, <2>3
    <3>2. Named(que[k][i]) /\ CleanTo(que[k], 0, i)
      BY <1>6, <2>3, <3>1
    <3>3. \A u, r : Waits(Q[k], 0, R[k], u, r, i) <=> Waits(que[k], 0, qq[k], u, r, i)
      BY <1>6, <3>1
    <3> QED BY <2>1, <2>3, <3>1, <3>2, <3>3
  <2>4. CASE l = k /\ i = n
    <3>1. Q[k][i] = t /\ R[k][i] = x /\ Named(t) /\ CleanTo(que[k], 0, Len(que[k]) + 1)
      BY <1>4, <1>6, <2>4
    <3>2. Matched(G, t, x) /\ x = Recorded(G, u0) /\ u0 # Stray
      BY <3>1 DEF Named
    <3>3. /\ u0 \in E
          /\ \A r \in Nat : Fresh(H, u0, r)
          /\ \A r \in Nat : Recorded(L, u0) < r /\ r <= Recorded(H, u0) =>
               \/ Waits(pen, 0, pp, u0, r, Len(pen) + 1)
               \/ Waits(que[k], 0, qq[k], u0, r, Len(que[k]) + 1)
      BY <1>3, <2>4, <3>1, <3>2 DEF Chain, AllOK
    <3>4. Recorded(L, u0) <= Recorded(H, u0)
      BY <1>2, <1>3, LedgerWithin
    <3>5. Fresh(G, u0, x)
      BY <1>3, <3>3
    <3>6. Recorded(L, u0) <= x
      BY <1>5, <3>2, <3>4
    <3>7. ASSUME NEW r \in Nat, Recorded(L, u0) < r, r < x
          PROVE  Waits(pen, 0, pp, u0, r, Len(pen) + 1) \/ Waits(Q[k], 0, R[k], u0, r, n)
      <4>1. r <= Recorded(H, u0)
        BY <1>5, <3>2, <3>7
      <4>2. \A u, y : Waits(Q[k], 0, R[k], u, y, n) <=> Waits(que[k], 0, qq[k], u, y, n)
        BY <1>4, <1>6
      <4> QED BY <1>4, <3>3, <3>7, <4>1, <4>2
    <3> QED BY <2>4, <3>1, <3>5, <3>6, <3>7
  <2> QED BY <1>4, <2>2, <2>3, <2>4
<1>13. AllOK(h, O, F, G, L, v, pen, 0, pp, Q, R)
  <2> SUFFICES ASSUME h = -1, ~v, CleanTo(pen, 0, Len(pen) + 1),
                      NEW l \in O, CleanTo(Q[l], 0, Len(Q[l]) + 1), NEW u \in Uids \ {Stray}, KindOf(u) = l
               PROVE  /\ u \in F
                      /\ \A r \in Nat : Fresh(G, u, r)
                      /\ \A r \in Nat : Recorded(L, u) < r /\ r <= Recorded(G, u) =>
                           \/ Waits(pen, 0, pp, u, r, Len(pen) + 1)
                           \/ Waits(Q[l], 0, R[l], u, r, Len(Q[l]) + 1)
    BY DEF AllOK
  <2>1. CleanTo(que[l], 0, Len(que[l]) + 1) /\ (l = k => ~t.bad)
    BY <1>4, <1>7
  <2>2. /\ u \in E
        /\ \A r \in Nat : Fresh(H, u, r)
        /\ \A r \in Nat : Recorded(L, u) < r /\ r <= Recorded(H, u) =>
             \/ Waits(pen, 0, pp, u, r, Len(pen) + 1)
             \/ Waits(que[l], 0, qq[l], u, r, Len(que[l]) + 1)
    BY <2>1 DEF Chain, AllOK
  <2>3. u \in F /\ \A r \in Nat : Fresh(G, u, r)
    BY <2>1, <2>2
  <2>4. ASSUME NEW r \in Nat, Recorded(L, u) < r, r <= Recorded(G, u)
        PROVE  \/ Waits(pen, 0, pp, u, r, Len(pen) + 1)
               \/ Waits(Q[l], 0, R[l], u, r, Len(Q[l]) + 1)
    <3>1. CASE r <= Recorded(H, u)
      <4>1. \/ Waits(pen, 0, pp, u, r, Len(pen) + 1)
            \/ Waits(que[l], 0, qq[l], u, r, Len(que[l]) + 1)
        BY <2>2, <2>4, <3>1
      <4>2. Waits(que[l], 0, qq[l], u, r, Len(que[l]) + 1) => Waits(Q[l], 0, R[l], u, r, Len(Q[l]) + 1)
        BY <1>4, <1>8
      <4> QED BY <4>1, <4>2
    <3>2. CASE ~(r <= Recorded(H, u))
      <4>0. Recorded(G, u) # Recorded(H, u)
        BY <1>5, <2>4, <3>2
      <4>1. u = u0 /\ Named(t)
        BY <4>0
      <4>3. x = Recorded(G, u) /\ l = k
        BY <4>1
      <4>4. r = x
        BY <1>5, <2>4, <3>2, <4>0, <4>1, <4>3
      <4>2. Waits(Q[k], 0, R[k], u, r, n + 1)
        <5>1. n \in (0 + 1)..((n + 1) - 1)
          BY <1>15
        <5> QED BY <1>4, <4>1, <4>4, <5>1 DEF Waits
      <4> QED BY <1>4, <4>2, <4>3
    <3> QED BY <3>1, <3>2
  <2> QED BY <2>3, <2>4
<1>14. RankOK(G, pen, pp, Q, R)
  <2>1. \A l \in Kinds : R[l] \in Seq(Nat) /\ Len(R[l]) = Len(Q[l])
    BY <1>2, <1>4 DEF RankOK
  <2>2. ASSUME NEW l \in Kinds, NEW i \in DOMAIN Q[l], Named(Q[l][i]) PROVE Matched(G, Q[l][i], R[l][i])
    <3>0. CASE l # k
      BY <1>2, <2>2, <3>0 DEF RankOK
    <3>1. CASE l = k /\ i \in DOMAIN que[k]
      BY <1>2, <1>4, <2>2, <3>1 DEF RankOK
    <3>2. CASE l = k /\ i = n
      BY <1>4, <2>2, <3>2
    <3> QED BY <1>4, <3>0, <3>1, <3>2
  <2>3. ASSUME NEW l \in Kinds, NEW i \in DOMAIN pen, NEW j \in DOMAIN Q[l],
               Named(pen[i]), Named(Q[l][j]), pen[i].uid = Q[l][j].uid
        PROVE  pp[i] <= R[l][j]
    <3>0. CASE l # k
      BY <1>2, <2>3, <3>0 DEF RankOK
    <3>1. CASE l = k /\ j \in DOMAIN que[k]
      <4>1. Q[k][j] = que[k][j] /\ R[k][j] = qq[k][j]
        BY <1>4, <3>1
      <4>2. \A a \in DOMAIN pen, b \in DOMAIN que[k] :
              Named(pen[a]) /\ Named(que[k][b]) /\ pen[a].uid = que[k][b].uid => pp[a] <= qq[k][b]
        BY <1>2 DEF RankOK
      <4>3. Named(que[k][j]) /\ pen[i].uid = que[k][j].uid
        BY <2>3, <3>1, <4>1
      <4>4. pp[i] <= qq[k][j]
        BY <2>3, <3>1, <4>2, <4>3
      <4> QED BY <3>1, <4>1, <4>4
    <3>2. CASE l = k /\ j = n
      <4>1. Matched(H, pen[i], pp[i])
        BY <1>2, <2>3 DEF RankOK
      <4>2. Q[k][n] = t /\ R[k][n] = x /\ pen[i].uid = u0 /\ Named(t)
        BY <1>4, <2>3, <3>2
      <4>3. pp[i] <= Recorded(H, u0) /\ pp[i] \in Nat
        BY <1>9, <4>1, <4>2
      <4>4. x = Recorded(G, u0) /\ Recorded(H, u0) <= Recorded(G, u0) /\ Recorded(H, u0) \in Nat
        BY <1>5, <4>2
      <4>5. pp[i] <= x
        BY <4>3, <4>4
      <4> QED BY <3>2, <4>2, <4>5
    <3> QED BY <1>4, <3>0, <3>1, <3>2
  <2>4. ASSUME NEW l \in Kinds, NEW i \in DOMAIN Q[l], NEW j \in DOMAIN Q[l],
               i < j, Named(Q[l][i]), Named(Q[l][j]), Q[l][i].uid = Q[l][j].uid
        PROVE  R[l][i] <= R[l][j]
    <3>1. CASE l # k
      BY <1>2, <2>4, <3>1 DEF RankOK
    <3>2. CASE l = k
      <4>1. i \in DOMAIN que[k] /\ Q[k][i] = que[k][i] /\ R[k][i] = qq[k][i]
        <5>1. i \in DOMAIN Q[k] /\ j \in DOMAIN Q[k]
          BY <3>2
        <5>2. i \in DOMAIN que[k]
          BY <1>17, <2>4, <5>1, <1>4
        <5> QED BY <1>4, <5>2
      <4>2. CASE j \in DOMAIN que[k]
        <5>1. Q[k][j] = que[k][j] /\ R[k][j] = qq[k][j]
          BY <1>4, <4>2
        <5>2. \A a, b \in DOMAIN que[k] :
                a < b /\ Named(que[k][a]) /\ Named(que[k][b]) /\ que[k][a].uid = que[k][b].uid
                  => qq[k][a] <= qq[k][b]
          BY <1>2 DEF RankOK
        <5>3. Named(que[k][i]) /\ Named(que[k][j]) /\ que[k][i].uid = que[k][j].uid
          BY <2>4, <3>2, <4>1, <5>1
        <5>4. qq[k][i] <= qq[k][j]
          BY <2>4, <4>1, <4>2, <5>2, <5>3
        <5> QED BY <3>2, <4>1, <5>1, <5>4
      <4>3. CASE j = n
        <5>1. Matched(H, que[k][i], qq[k][i])
          BY <1>2, <2>4, <3>2, <4>1 DEF RankOK
        <5>2. Q[k][n] = t /\ R[k][n] = x /\ que[k][i].uid = u0 /\ Named(t)
          BY <1>4, <2>4, <3>2, <4>1, <4>3
        <5>3. qq[k][i] <= Recorded(H, u0) /\ qq[k][i] \in Nat
          BY <1>9, <5>1, <5>2
        <5>4. x = Recorded(G, u0) /\ Recorded(H, u0) <= Recorded(G, u0) /\ Recorded(H, u0) \in Nat
          BY <1>5, <5>2
        <5>5. qq[k][i] <= x
          BY <5>3, <5>4
        <5> QED BY <3>2, <4>1, <4>3, <5>2, <5>5
      <4> QED BY <1>4, <3>2, <4>2, <4>3
    <3> QED BY <3>1, <3>2
  <2>5. \A i \in DOMAIN pen : Named(pen[i]) => Matched(G, pen[i], pp[i])
    BY <1>2 DEF RankOK
  <2> QED BY <1>2, <2>1, <2>2, <2>3, <2>4, <2>5 DEF RankOK
<1> QED BY <1>2, <1>10, <1>11, <1>12, <1>13, <1>14 DEF Chain

------------------------------------------------------------------------------
(* The same without the ranks.                                             *)

(* Some ranks make the chain hold.                                         *)
Kept(h, O, E, H, L, v, pen, que) == \E pp, qq : Chain(h, O, E, H, L, v, pen, 0, pp, que, qq)

(* A stream's events, one more sent or the first taken.                    *)
Joins(que, Q, k, t) == Q[k] = Append(que[k], t) /\ \A l \in Kinds \ {k} : Q[l] = que[l]
Leaves(que, Q, k)   == Q[k] = Tail(que[k]) /\ \A l \in Kinds \ {k} : Q[l] = que[l]

(* With fewer streams open, more told, the ledger given up or the deadline *)
(* passed, less is asked.                                                  *)
LEMMA KeptWeakens ==
    ASSUME NEW h, NEW O, NEW E, NEW H, NEW L, NEW v, NEW pen, NEW que, Kept(h, O, E, H, L, v, pen, que),
           NEW g, g = h \/ (h = -1 /\ g # -1), NEW P, P \subseteq O, NEW F, E \subseteq F, NEW w, v => w
    PROVE  Kept(g, P, F, H, L, w, pen, que)
<1>1. PICK pp, qq : Chain(h, O, E, H, L, v, pen, 0, pp, que, qq)
  BY DEF Kept
<1>2. Chain(g, P, F, H, L, w, pen, 0, pp, que, qq)
  BY <1>1, ChainWeakens
<1> QED BY <1>2 DEF Kept

(* Only the stream that condemns the ledger loses track of an object.      *)
Spares(E, F, k, t) == \A u \in E : u \in F \/ (KindOf(u) = k /\ t.bad)

(* The event is not the object's last once more.                           *)
IsNews(H, t, E) ==
    t.uid \in E => \A i \in DOMAIN H :
      H[i].uid = t.uid /\ Nth(H, i) = Recorded(H, t.uid) => H[i].type # t.type

(* The event tells of nothing but what happened to its object last.        *)
Tells(H, t) == Named(t) => Matched(H, t, Recorded(H, t.uid))

(* An update that tells of nothing new is sent.                            *)
LEMMA KeptRepeats ==
    ASSUME NEW h \in Int, NEW O \in SUBSET Kinds, NEW E, NEW H \in Seq(Transitions), NEW L \in Seq(Entries),
           NEW v \in BOOLEAN, NEW pen \in Seq(Observed), NEW que \in [Kinds -> Seq(Transitions)], Kinded(que),
           Kept(h, O, E, H, L, v, pen, que),
           NEW k \in Kinds, NEW t \in Transitions, KindOf(t.uid) = k,
           Tells(H, t),
           NEW F, Spares(E, F, k, t), NEW Q, Joins(que, Q, k, t)
    PROVE  Kept(h, O, F, H, L, v, pen, Q)
<1> USE DEF Spares, Tells
<1>1. PICK pp, qq : Chain(h, O, E, H, L, v, pen, 0, pp, que, qq)
  BY DEF Kept
<1> DEFINE x == Recorded(H, t.uid)
           R == [l \in Kinds |-> IF l = k THEN Append(qq[k], x) ELSE qq[l]]
<1>2. x \in Nat
  BY KindredAre
<1>3. /\ Q[k] = Append(que[k], t) /\ R[k] = Append(qq[k], x)
      /\ \A l \in Kinds \ {k} : Q[l] = que[l] /\ R[l] = qq[l]
  BY DEF Joins
<1> HIDE DEF R, x
<1>6. Chain(h, O, F, H, L, v, pen, 0, pp, Q, R)
  <2>1. Sent(que, qq, Q, R, k, t, x)
    BY <1>3 DEF Sent
  <2>2. Succeeds(H, H, t, x, E, F)
    BY <1>2 DEF Succeeds, x
  <2> QED BY <1>1, <1>2, <2>1, <2>2, ChainSends
<1> QED BY <1>6 DEF Kept

(* Objects of which the last event was told stay so.                       *)
Covers(E, F) == E \subseteq F

(* One more event happens and is sent.                                     *)
LEMMA KeptHappens ==
    ASSUME NEW h \in Int, NEW O \in SUBSET Kinds, NEW E, NEW H \in Seq(Transitions), NEW L \in Seq(Entries),
           NEW v \in BOOLEAN, NEW pen \in Seq(Observed), NEW que \in [Kinds -> Seq(Transitions)], Kinded(que),
           Kept(h, O, E, H, L, v, pen, que),
           NEW k \in Kinds, NEW t \in Transitions, KindOf(t.uid) = k, Named(t),
           IsNews(H, t, E), NEW F, Covers(E, F), NEW Q, Joins(que, Q, k, t),
           NEW G, G = Append(H, t)
    PROVE  Kept(h, O, F, G, L, v, pen, Q)
<1> USE DEF Covers, IsNews
<1>1. PICK pp, qq : Chain(h, O, E, H, L, v, pen, 0, pp, que, qq)
  BY DEF Kept
<1> DEFINE c == Recorded(H, t.uid)
           x == c + 1
           R == [l \in Kinds |-> IF l = k THEN Append(qq[k], x) ELSE qq[l]]
<1>2. c \in Nat /\ x \in Nat /\ G \in Seq(Transitions)
  BY KindredAre
<1>3. /\ Q[k] = Append(que[k], t) /\ R[k] = Append(qq[k], x)
      /\ \A l \in Kinds \ {k} : Q[l] = que[l] /\ R[l] = qq[l]
  BY DEF Joins
<1>4. /\ \A u : u # t.uid => Recorded(G, u) = Recorded(H, u)
      /\ Recorded(G, t.uid) = x
  <2>1. ASSUME NEW u, u # t.uid PROVE Recorded(G, u) = Recorded(H, u)
    <3>1. Recorded(G, u) = Recorded(H, u) + 0
      BY <2>1, RecordedAppend
    <3> QED BY <3>1, KindredAre
  <2>2. Recorded(G, t.uid) = x
    BY RecordedAppend
  <2> QED BY <2>1, <2>2
<1>5. /\ Len(H) \in Nat /\ DOMAIN H = 1..Len(H) /\ DOMAIN G = 1..(Len(H) + 1)
      /\ \A i \in DOMAIN H : G[i] = H[i] /\ Nth(G, i) = Nth(H, i) /\ i \in DOMAIN G
      /\ G[Len(H) + 1] = t /\ Nth(G, Len(H) + 1) = x
  <2>1. Nth(G, Len(H) + 1) = x /\ \A i \in DOMAIN H : Nth(G, i) = Nth(H, i)
    BY NthAppend
  <2> QED BY <2>1
<1>6. \A i \in DOMAIN G : i \in DOMAIN H \/ i = Len(H) + 1
  BY <1>5
<1>7. \A e, r : Matched(H, e, r) => Matched(G, e, r)
  BY <1>5 DEF Matched
<1>8. Matched(G, t, x)
  <2>1. Len(H) + 1 \in DOMAIN G
    BY <1>5
  <2> QED BY <1>5, <2>1 DEF Matched
<1>9. \A i \in DOMAIN H : H[i].uid = t.uid => Nth(H, i) \in Nat /\ Nth(H, i) <= c
  BY NthBounds
<1>10. ASSUME NEW u, NEW r \in Int, Fresh(H, u, r), u = t.uid /\ r = x => t.uid \in E
       PROVE  Fresh(G, u, r)
  <2> SUFFICES ASSUME NEW i \in DOMAIN G, NEW j \in DOMAIN G, G[i].uid = u, G[j].uid = u,
                      Nth(G, j) = r, Nth(G, i) = r - 1
               PROVE  G[i].type # G[j].type
    BY DEF Fresh
  <2>1. CASE i \in DOMAIN H /\ j \in DOMAIN H
    BY <1>5, <1>10, <2>1 DEF Fresh
  <2>2. CASE i \in DOMAIN H /\ j = Len(H) + 1
    <3>1. u = t.uid /\ r = x /\ H[i].uid = t.uid /\ Nth(H, i) = c
      <4>1. G[j] = t /\ Nth(G, j) = x /\ G[i] = H[i] /\ Nth(H, i) = r - 1
        BY <1>5, <2>2
      <4>2. r = x /\ u = t.uid /\ H[i].uid = t.uid
        BY <4>1
      <4>3. x - 1 = c
        BY <1>2
      <4> HIDE DEF c, x
      <4> QED BY <4>1, <4>2, <4>3
    <3> QED BY <1>5, <1>10, <2>2, <3>1
  <2>3. CASE i = Len(H) + 1 /\ j \in DOMAIN H
    <3>1. Nth(H, j) = x + 1 /\ H[j].uid = t.uid
      BY <1>2, <1>5, <2>3
    <3> QED BY SMTT(30), <1>2, <1>9, <2>3, <3>1
  <2>4. CASE i = Len(H) + 1 /\ j = Len(H) + 1
    BY <1>2, <1>5, <2>4
  <2> QED BY <1>6, <2>1, <2>2, <2>3, <2>4
<1>11. \A u, r : r <= Recorded(H, u) /\ Fresh(H, u, r) => Fresh(G, u, r)
  <2> SUFFICES ASSUME NEW u, NEW r, r <= Recorded(H, u), Fresh(H, u, r) PROVE Fresh(G, u, r)
    OBVIOUS
  <2>1. CASE r \in Int
    <3>1. ~(u = t.uid /\ r = x)
      BY <1>2
    <3> QED BY <1>10, <2>1, <3>1
  <2>2. CASE r \notin Int
    <3>1. \A j \in DOMAIN G : Nth(G, j) \in Nat
      BY <1>2, NthBounds
    <3> QED BY <2>2, <3>1 DEF Fresh
  <2> QED BY <2>1, <2>2
<1>12. \A u \in Uids : u \in E /\ (\A r \in Nat : Fresh(H, u, r)) => \A r \in Nat : Fresh(G, u, r)
  BY <1>10
<1> HIDE DEF R, x, c
<1>13. Recorded(G, t.uid) = Recorded(H, t.uid) + 1
  BY <1>4 DEF x, c
<1>14. Chain(h, O, F, G, L, v, pen, 0, pp, Q, R)
  <2>1. Sent(que, qq, Q, R, k, t, x)
    BY <1>3 DEF Sent
  <2>2. Succeeds(H, G, t, x, E, F)
    <3>1. Recorded(G, t.uid) = x
      BY <1>4
    <3>2. Recorded(G, t.uid) = Recorded(H, t.uid) \/ Recorded(G, t.uid) = Recorded(H, t.uid) + 1
      BY <1>13
    <3>3. \A u : u # t.uid \/ ~Named(t) => Recorded(G, u) = Recorded(H, u)
      BY <1>4
    <3>4. \A u \in E : u \in F \/ (KindOf(u) = KindOf(t.uid) /\ t.bad)
      OBVIOUS
    <3> QED BY Zenon, <1>7, <1>8, <1>11, <1>12, <3>1, <3>2, <3>3, <3>4 DEF Succeeds
  <2> QED BY ZenonT(60), <1>1, <1>2, <2>1, <2>2, ChainSends
<1> QED BY <1>14 DEF Kept

(* The row's submission is recorded.                                       *)
LEMMA KeptSubmits ==
    ASSUME NEW h, NEW O, NEW E, NEW H \in Seq(Transitions), NEW L \in Seq(Entries),
           NEW v, NEW pen \in Seq(Observed), NEW que, Kinded(que), O \subseteq Kinds,
           Kept(h, O, E, H, L, v, pen, que),
           NEW e \in Entries, e.type = "Submitted"
    PROVE  Kept(h, O, E, H, Append(L, e), v, pen, que)
<1>1. PICK pp, qq : Chain(h, O, E, H, L, v, pen, 0, pp, que, qq)
  BY DEF Kept
<1> DEFINE M == Append(L, e)
<1>2. /\ \A i \in DOMAIN M : i \in DOMAIN L \/ M[i] = e
      /\ \A i \in DOMAIN L : M[i] = L[i]
  OBVIOUS
<1>3. \A i \in DOMAIN L : Nth(M, i) = Nth(L, i)
  BY NthAppend
<1>4. \A u \in Uids : Recorded(M, u) = Recorded(L, u)
  <2> SUFFICES ASSUME NEW u \in Uids PROVE Recorded(M, u) = Recorded(L, u)
    OBVIOUS
  <2>1. e.uid # u
    BY EntriesAre
  <2>2. Recorded(M, u) = Recorded(L, u) + 0
    BY <2>1, RecordedAppend
  <2> QED BY <2>2, KindredAre
<1> HIDE DEF M
<1>5. LedgerOK(h, H, M)
  BY <1>1, <1>2, <1>3 DEF Chain, LedgerOK
<1>6. \A i \in DOMAIN pen : pen[i].uid \in Uids
  <2>1. \A i \in DOMAIN pen : pen[i] \in Observed
    OBVIOUS
  <2> QED BY <2>1, EntriesAre
<1>7. \A k \in Kinds : \A i \in DOMAIN que[k] : que[k][i].uid \in Uids
  <2>1. \A k \in Kinds : \A i \in DOMAIN que[k] : que[k][i] \in Transitions
    BY DEF Kinded
  <2> QED BY <2>1, EntriesAre
<1>8. PenOK(h, H, M, v, pen, 0, pp)
  <2>1. \A i \in (0 + 1)..Len(pen) : Recorded(M, pen[i].uid) = Recorded(L, pen[i].uid)
    BY <1>4, <1>6
  <2> QED BY <1>1, <2>1 DEF Chain, PenOK
<1>9. QueOK(h, O, H, M, v, pen, 0, pp, que, qq)
  <2>1. \A k \in O : \A i \in DOMAIN que[k] : Recorded(M, que[k][i].uid) = Recorded(L, que[k][i].uid)
    BY <1>4, <1>7
  <2> QED BY <1>1, <2>1 DEF Chain, QueOK
<1>10. AllOK(h, O, E, H, M, v, pen, 0, pp, que, qq)
  BY <1>1, <1>4 DEF Chain, AllOK
<1>11. AtOK(M, pen, 0)
  BY <1>1, <1>2 DEF Chain, AtOK
<1>12. Chain(h, O, E, H, M, v, pen, 0, pp, que, qq)
  BY <1>1, <1>5, <1>8, <1>9, <1>10, <1>11 DEF Chain
<1> QED BY <1>12 DEF Kept, M

(* Before the deadline, the stream's head tells the builder nothing.       *)
Idle(h, que, k) == h = -1 => ~que[k][1].bad /\ ~Named(que[k][1])

(* A stream's head that tells the builder nothing is dropped; past the     *)
(* deadline any may be.                                                    *)
LEMMA KeptSkips ==
    ASSUME NEW h \in Int, NEW O \in SUBSET Kinds, NEW E, NEW H \in Seq(Transitions), NEW L \in Seq(Entries),
           NEW v \in BOOLEAN, NEW pen \in Seq(Observed), NEW que \in [Kinds -> Seq(Transitions)], Kinded(que),
           Kept(h, O, E, H, L, v, pen, que),
           NEW k \in Kinds, que[k] # <<>>, NEW Q, Leaves(que, Q, k),
           Idle(h, que, k)
    PROVE  Kept(h, O, E, H, L, v, pen, Q)
<1>1. PICK pp, qq : Chain(h, O, E, H, L, v, pen, 0, pp, que, qq)
  BY DEF Kept
<1> DEFINE R == [l \in Kinds |-> IF l = k THEN Tail(qq[k]) ELSE qq[l]]
<1>2. /\ Q[k] = Tail(que[k]) /\ R[k] = Tail(qq[k])
      /\ \A l \in Kinds \ {k} : Q[l] = que[l] /\ R[l] = qq[l]
  BY DEF Leaves
<1> HIDE DEF R
<1>3. Chain(h, O, E, H, L, v, pen, 0, pp, Q, R)
  <2>1. Shortened(que, qq, Q, R, k)
    BY <1>2 DEF Shortened
  <2>2. Settled(h, pen, pp, que, qq, k)
    BY DEF Settled, Idle
  <2> QED BY <1>1, <2>1, <2>2, ChainDrops
<1> QED BY <1>3 DEF Kept

(* A stream's head joins what is pending, stamped with its instant.        *)
Pends(pen, que, k, a, pn) == que[k] # <<>> /\ pn = Append(pen, Stamped(Head(que[k]), a))

(* A stream's head is stamped and becomes pending.                         *)
LEMMA KeptTakes ==
    ASSUME NEW h \in Int, NEW O \in SUBSET Kinds, NEW E, NEW H \in Seq(Transitions), NEW L \in Seq(Entries),
           NEW v \in BOOLEAN, NEW pen \in Seq(Observed), NEW que \in [Kinds -> Seq(Transitions)], Kinded(que),
           Kept(h, O, E, H, L, v, pen, que),
           NEW k \in O, NEW a \in Nat, Past(h, L, pen, a), NEW Q, Leaves(que, Q, k),
           NEW pn, Pends(pen, que, k, a, pn)
    PROVE  pn \in Seq(Observed) /\ Kept(h, O, E, H, L, v, pn, Q)
<1> USE DEF Pends
<1>1. PICK pp, qq : Chain(h, O, E, H, L, v, pen, 0, pp, que, qq)
  BY DEF Kept
<1> DEFINE t  == que[k][1]
           s  == Stamped(Head(que[k]), a)
           x  == qq[k][1]
           px == Append(pp, x)
           R == [l \in Kinds |-> IF l = k THEN Tail(qq[k]) ELSE qq[l]]
<1>2. /\ Q[k] = Tail(que[k]) /\ R[k] = Tail(qq[k]) /\ k \in Kinds
      /\ \A l \in Kinds \ {k} : Q[l] = que[l] /\ R[l] = qq[l]
  BY DEF Leaves
<1>3. que[k] \in Seq(Transitions) /\ Head(que[k]) = t /\ t \in Transitions
  OBVIOUS
<1>4. s \in Observed /\ s.uid = t.uid /\ s.bad = t.bad /\ (Named(s) <=> Named(t))
  BY <1>3 DEF Stamped, Observed, Transitions, Named
<1>5. Chain(h, O, E, H, L, v, pn, 0, px, que, qq)
  <2> HIDE DEF px
  <2>1. Chain(h, O, E, H, L, v, Append(pen, Stamped(Head(que[k]), a)), 0, Append(pp, qq[k][1]), que, qq)
    BY <1>1, ChainPends
  <2> QED BY <2>1 DEF px
<1>51. pn = Append(pen, s)
  OBVIOUS
<1> HIDE DEF s
<1>6. pn \in Seq(Observed) /\ Len(pen) \in Nat /\ Len(pn) = Len(pen) + 1 /\ pn[Len(pn)] = s
  BY <1>4, <1>51
<1>7. px[Len(pn)] = x
  <2>1. pp \in Seq(Nat) /\ Len(pp) = Len(pen)
    BY <1>1 DEF Chain, RankOK
  <2> HIDE DEF x
  <2> QED BY <1>6, <2>1
<1> HIDE DEF px, x, t, R
<1>8. CleanTo(pn, 0, Len(pn) + 1) => ~t.bad /\ (Named(t) => Waits(pn, 0, px, t.uid, x, Len(pn) + 1))
  <2>1. Len(pn) \in (0 + 1)..((Len(pn) + 1) - 1)
    BY <1>6
  <2>2. CleanTo(pn, 0, Len(pn) + 1) => ~t.bad
    BY <1>4, <1>6, <2>1 DEF CleanTo
  <2>3. Named(t) => Waits(pn, 0, px, t.uid, x, Len(pn) + 1)
    BY <1>4, <1>6, <1>7, <2>1 DEF Waits
  <2> QED BY <2>2, <2>3
<1>9. Chain(h, O, E, H, L, v, pn, 0, px, Q, R)
  <2>1. Shortened(que, qq, Q, R, k)
    BY <1>2 DEF Shortened
  <2>2. Settled(h, pn, px, que, qq, k)
    BY <1>8 DEF Settled, t, x
  <2> QED BY <1>2, <1>5, <1>6, <2>1, <2>2, ChainDrops
<1> QED BY <1>6, <1>9 DEF Kept

(* The builder after all that is pending.                                  *)
Flushes(L, v, pen, b) == b = Built([ledger |-> L, invalid |-> v], pen)[Len(pen)]

(* Nothing pending is of a Pod of no row.                                  *)
NoStray(pen) == \A i \in DOMAIN pen : pen[i].uid # Stray

(* What is pending is attributed.                                          *)
LEMMA KeptFlushes ==
    ASSUME NEW h \in Int, NEW O \in SUBSET Kinds, NEW E, NEW H \in Seq(Transitions), NEW L \in Seq(Entries),
           NEW v \in BOOLEAN, NEW pen \in Seq(Observed), NEW que \in [Kinds -> Seq(Transitions)],
           Kept(h, O, E, H, L, v, pen, que),
           NoStray(pen),
           NEW b, Flushes(L, v, pen, b)
    PROVE  b.ledger \in Seq(Entries) /\ b.invalid \in BOOLEAN /\ Kept(h, O, E, H, b.ledger, b.invalid, <<>>, que)
<1>1. PICK pp, qq : Chain(h, O, E, H, L, v, pen, 0, pp, que, qq)
  BY DEF Kept
<1>2. \A k \in Kinds : que[k] \in Seq(Transitions)
  OBVIOUS
<1>3. /\ b.ledger \in Seq(Entries) /\ b.invalid \in BOOLEAN
      /\ Chain(h, O, E, H, b.ledger, b.invalid, pen, Len(pen), pp, que, qq)
  BY SMTT(60), <1>1, <1>2, BuiltKeeps DEF NoStray, Flushes
<1>4. Chain(h, O, E, H, b.ledger, b.invalid, <<>>, 0, <<>>, que, qq)
  BY SMTT(60), <1>3, FlushKeeps
<1> QED BY <1>3, <1>4 DEF Kept

------------------------------------------------------------------------------
(* The rows, and the invariant of the observation.                         *)

(* The states of a row.                                                    *)
RowStates == [job : {"none", "active", "complete", "failed"},
              wl  : {"none", "admitted", "evicted", "finished"},
              pod : {"none", "pending", "ready", "Succeeded", "Failed", "gone"}, n : Nat]

(* The last thing that happened to the object is this.                     *)
Latest(H, e) == Matched(H, e, Recorded(H, e.uid))

(* A row's objects, and what they tell.                                    *)
JobOf(r)      == <<"Job", r>>
WorkloadOf(r) == <<"Workload", r>>

AdmissionOf(r)   == Transition(WorkloadOf(r), r, "Admitted", "Admitted")
PreemptionOf(r)  == Transition(WorkloadOf(r), r, "Preempted", "InCohortReclamation")
ReadinessOf(r, n) == Transition(Pod(r, n), r, "PodReady", "Ready")

(* What the streams were told last of a row agrees with the row.           *)
RowOK(H, r, c) ==
    /\ c.job \in {"none", "active"} => Recorded(H, JobOf(r)) = 0
    /\ c.wl = "none" => Recorded(H, WorkloadOf(r)) = 0
    /\ c.wl = "admitted" => Latest(H, AdmissionOf(r))
    /\ c.wl = "finished" => c.job \in {"complete", "failed"}
    /\ \A m \in Nat : m > c.n => Recorded(H, Pod(r, m)) = 0
    /\ c.pod = "pending" => Recorded(H, Pod(r, c.n)) = 0
    /\ c.pod = "ready" => Latest(H, ReadinessOf(r, c.n))

RowsOK(H, rw) == \A r \in Rows : RowOK(H, r, rw[r])

(* The objects of which the last thing that happened was told; a Workload  *)
(* evicted for another reason than the study's is not one.                 *)
Told(H, rw) == {u \in Uids : \A r \in Rows : u = WorkloadOf(r) /\ rw[r].wl = "evicted" => Latest(H, PreemptionOf(r))}

(* The streams that are open.                                              *)
Opens(s) == {k \in Kinds : s[k] = "open"}

(* The invariant of the observation.                                       *)
CInv ==
    /\ next \in 1..(Len(Schedule) + 1) /\ creating \in BOOLEAN /\ (creating => next <= Len(Schedule))
    /\ row \in [Rows -> RowStates] /\ RowsOK(happened, row)
    /\ happened \in Seq(Transitions)
    /\ queue \in [Kinds -> Seq(Transitions)] /\ Kinded(queue)
    /\ pending \in Seq(Observed) /\ (\A i \in DOMAIN pending : pending[i].uid \in cache)
    /\ ledger \in Seq(Entries) /\ invalid \in BOOLEAN /\ horizon \in {-1} \cup Nat
    /\ Kept(horizon, Opens(stream), Told(happened, row), happened, ledger, invalid, pending, queue)

(* A stray Pod is of no row.                                               *)
LEMMA RowsAre == Rows \subseteq {OwnRow, VictimRow, OwnerRow} /\ "stray" \notin Rows
BY ScheduleAssumption DEF Rows, Range, OwnRow, VictimRow, OwnerRow

(* No two objects share a uid.                                             *)
LEMMA UidsApart ==
    ASSUME NEW r \in Rows, NEW q \in Rows, NEW m \in Nat, NEW n \in Nat
    PROVE  /\ JobOf(r) # WorkloadOf(q) /\ JobOf(r) # Pod(q, n) /\ WorkloadOf(r) # Pod(q, n)
           /\ JobOf(r) = JobOf(q) => r = q
           /\ WorkloadOf(r) = WorkloadOf(q) => r = q
           /\ Pod(r, m) = Pod(q, n) => r = q /\ m = n
           /\ JobOf(r) # Stray /\ WorkloadOf(r) # Stray /\ Pod(r, m) # Stray
           /\ JobOf(r) \in Uids /\ WorkloadOf(r) \in Uids /\ Pod(r, m) \in Uids /\ Stray \in Uids
           /\ KindOf(JobOf(r)) = "Job" /\ KindOf(WorkloadOf(r)) = "Workload"
           /\ KindOf(Pod(r, m)) = "Pod" /\ KindOf(Stray) = "Pod"
<1>1. /\ JobOf(r)[1] = "Job" /\ WorkloadOf(r)[1] = "Workload" /\ Pod(q, n)[1] = "Pod" /\ Pod(r, m)[1] = "Pod"
      /\ WorkloadOf(q)[1] = "Workload" /\ Stray[1] = "Pod"
  BY DEF JobOf, WorkloadOf, Pod, Stray
<1>2. /\ JobOf(r) # WorkloadOf(q) /\ JobOf(r) # Pod(q, n) /\ WorkloadOf(r) # Pod(q, n)
      /\ JobOf(r) # Stray /\ WorkloadOf(r) # Stray
  BY <1>1
<1>3. Pod(r, m) # Stray
  BY RowsAre DEF JobOf, WorkloadOf, Pod, Stray
<1>4. JobOf(r) \in Uids /\ WorkloadOf(r) \in Uids /\ Pod(r, m) \in Uids /\ Stray \in Uids
  BY DEF Uids, JobOf, WorkloadOf, Pod, Stray
<1>5. /\ JobOf(r) = JobOf(q) => r = q
      /\ WorkloadOf(r) = WorkloadOf(q) => r = q
      /\ Pod(r, m) = Pod(q, n) => r = q /\ m = n
  BY DEF JobOf, WorkloadOf, Pod
<1> QED BY <1>1, <1>2, <1>3, <1>4, <1>5 DEF KindOf

(* A transition holds what it was made of,                                 *)
LEMMA TransitionIs ==
    ASSUME NEW u \in Uids, NEW r \in Rows \cup {"stray"}, NEW type \in Types \cup {"none"}, NEW reason \in Reasons,
           NEW t, t = Transition(u, r, type, reason)
    PROVE  t \in Transitions /\ t.uid = u /\ t.row = r /\ t.type = type /\ t.reason = reason
BY DEF Transition, Transitions

(* marked bad or sent as a deletion too.                                   *)
LEMMA VariantIs ==
    ASSUME NEW t \in Transitions, NEW s, s = [t EXCEPT !.bad = TRUE] \/ s = [t EXCEPT !.delta = "Delete"]
    PROVE  /\ s \in Transitions /\ s.uid = t.uid /\ s.row = t.row /\ s.type = t.type /\ s.reason = t.reason
           /\ s = [t EXCEPT !.bad = TRUE] => s.bad
<1>1. CASE s = [t EXCEPT !.bad = TRUE]
  BY <1>1 DEF Transitions
<1>2. CASE s = [t EXCEPT !.delta = "Delete"]
  BY <1>2 DEF Transitions
<1> QED BY <1>1, <1>2

(* The instant of the next event is past all that was.                     *)
LEMMA ElapsedIsPast ==
    ASSUME horizon \in {-1} \cup Nat, pending \in Seq(Observed), ledger \in Seq(Entries)
    PROVE  elapsed \in Nat /\ 1 <= elapsed /\ Past(horizon, ledger, pending, elapsed)
<1> DEFINE A == {ledger[i].at : i \in DOMAIN ledger}
           B == {pending[i].at : i \in DOMAIN pending}
           S == {0, horizon} \cup A \cup B
<1>1. /\ \A i \in DOMAIN ledger : ledger[i].at \in Nat
      /\ \A i \in DOMAIN pending : pending[i].at \in Nat
  <2>1. /\ \A i \in DOMAIN ledger : ledger[i] \in Entries
        /\ \A i \in DOMAIN pending : pending[i] \in Observed
    OBVIOUS
  <2> QED BY <2>1, EntriesAre
<1>2. IsFiniteSet(A) /\ IsFiniteSet(B)
  <2> SUFFICES ASSUME NEW T, NEW s \in Seq(T) PROVE IsFiniteSet({s[i].at : i \in DOMAIN s})
    OBVIOUS
  <2>1. DOMAIN s = 1..Len(s) /\ Len(s) \in Nat
    OBVIOUS
  <2>2. IsFiniteSet(DOMAIN s)
    BY <2>1, FS_Interval
  <2> DEFINE f == [i \in DOMAIN s |-> s[i].at]
  <2>3. f \in Surjection(DOMAIN s, {s[i].at : i \in DOMAIN s})
    BY DEF Surjection
  <2> QED BY <2>2, <2>3, FS_Surjection
<1>3. IsFiniteSet(S)
  <2>1. IsFiniteSet({0, horizon})
    <3>1. IsFiniteSet({0})
      BY FS_Singleton
    <3>2. {0, horizon} = {0} \cup {horizon}
      OBVIOUS
    <3>3. IsFiniteSet({0} \cup {horizon})
      BY <3>1, FS_AddElement
    <3> QED BY <3>2, <3>3
  <2>2. IsFiniteSet({0, horizon} \cup A)
    BY <1>2, <2>1, FS_Union
  <2> QED BY <1>2, <2>2, FS_Union
<1>4. S \in SUBSET Int /\ S # {} /\ 0 \in S /\ horizon \in S
  BY <1>1
<1>5. Max(S) \in S /\ \A y \in S : Max(S) >= y
  <2> HIDE DEF S
  <2> QED BY <1>3, <1>4, MaxIsGreatest
<1>6. elapsed = 1 + Max(S)
  BY DEF elapsed
<1>7. /\ \A i \in DOMAIN ledger : ledger[i].at \in S
      /\ \A i \in DOMAIN pending : pending[i].at \in S
  OBVIOUS
<1> HIDE DEF S, A, B
<1>8. Max(S) \in Int /\ Max(S) >= 0 /\ Max(S) >= horizon
  BY <1>4, <1>5
<1>9. elapsed \in Nat /\ 1 <= elapsed
  BY <1>6, <1>8
<1>10. Past(horizon, ledger, pending, elapsed)
  <2>1. ASSUME NEW y \in S PROVE y < elapsed
    BY <1>4, <1>5, <1>6, <1>8
  <2>2. horizon < elapsed
    BY <1>4, <2>1
  <2> QED BY <1>7, <1>8, <1>9, <2>1, <2>2 DEF Past
<1> QED BY <1>9, <1>10

(* What one more event changes of the objects.                             *)
LEMMA LatestAppend ==
    ASSUME NEW H \in Seq(Transitions), NEW t \in Transitions
    PROVE  /\ Append(H, t) \in Seq(Transitions)
           /\ \A u : u # t.uid => Recorded(Append(H, t), u) = Recorded(H, u)
           /\ \A e : e.uid # t.uid /\ Latest(H, e) => Latest(Append(H, t), e)
           /\ \A e : e.uid = t.uid /\ e.row = t.row /\ e.type = t.type /\ e.reason = t.reason
                => Latest(Append(H, t), e)
<1> DEFINE G == Append(H, t)
<1>1. /\ Len(H) \in Nat /\ DOMAIN H = 1..Len(H) /\ DOMAIN G = 1..(Len(H) + 1)
      /\ \A i \in DOMAIN H : G[i] = H[i] /\ Nth(G, i) = Nth(H, i) /\ i \in DOMAIN G
      /\ Len(H) + 1 \in DOMAIN G
      /\ G[Len(H) + 1] = t /\ Nth(G, Len(H) + 1) = Recorded(H, t.uid) + 1
  <2>1. Nth(G, Len(H) + 1) = Recorded(H, t.uid) + 1 /\ \A i \in DOMAIN H : Nth(G, i) = Nth(H, i)
    BY NthAppend
  <2> QED BY <2>1
<1>2. ASSUME NEW u, u # t.uid PROVE Recorded(G, u) = Recorded(H, u)
  <2>1. Recorded(G, u) = Recorded(H, u) + 0
    BY <1>2, RecordedAppend
  <2> QED BY <2>1, KindredAre
<1>3. Recorded(G, t.uid) = Recorded(H, t.uid) + 1
  BY RecordedAppend
<1>4. G \in Seq(Transitions)
  OBVIOUS
<1> HIDE DEF G
<1>5. ASSUME NEW e, e.uid # t.uid, Latest(H, e) PROVE Latest(G, e)
  <2>1. Recorded(G, e.uid) = Recorded(H, e.uid)
    BY <1>2, <1>5
  <2> QED BY <1>1, <1>5, <2>1 DEF Latest, Matched
<1>6. ASSUME NEW e, e.uid = t.uid, e.row = t.row, e.type = t.type, e.reason = t.reason
      PROVE  Latest(G, e)
  BY <1>1, <1>3, <1>6 DEF Latest, Matched
<1> QED BY <1>2, <1>4, <1>5, <1>6 DEF G

(* The last event of an object is one.                                     *)
LEMMA LatestIsOne ==
    ASSUME NEW H \in Seq(Transitions), NEW e, Latest(H, e)
    PROVE  \A i \in DOMAIN H : H[i].uid = e.uid /\ Nth(H, i) = Recorded(H, e.uid) => H[i].type = e.type
BY NthUnique DEF Latest, Matched

(* An object of which nothing was recorded has no event.                   *)
LEMMA NothingIsLatest ==
    ASSUME NEW H \in Seq(Transitions), NEW u, Recorded(H, u) = 0
    PROVE  \A i \in DOMAIN H : H[i].uid # u
BY KindredAre DEF Kindred

(* An event of one row leaves the others alone.                            *)
LEMMA OtherRowsKeep ==
    ASSUME NEW H \in Seq(Transitions), NEW t \in Transitions, NEW r \in Rows, NEW q \in Rows, q # r,
           t.uid = JobOf(r) \/ t.uid = WorkloadOf(r) \/ \E m \in Nat : t.uid = Pod(r, m),
           NEW c \in RowStates, RowOK(H, q, c)
    PROVE  RowOK(Append(H, t), q, c)
<1> DEFINE G == Append(H, t)
<1>1. t.uid # JobOf(q) /\ t.uid # WorkloadOf(q) /\ \A m \in Nat : t.uid # Pod(q, m)
  <2>0. \A m, n \in Nat :
           /\ JobOf(r) # WorkloadOf(q) /\ JobOf(r) # Pod(q, n) /\ WorkloadOf(r) # Pod(q, n)
           /\ JobOf(q) # WorkloadOf(r) /\ JobOf(q) # Pod(r, n) /\ WorkloadOf(q) # Pod(r, n)
           /\ JobOf(r) # JobOf(q) /\ WorkloadOf(r) # WorkloadOf(q) /\ Pod(r, m) # Pod(q, n)
    <3> SUFFICES ASSUME NEW m \in Nat, NEW n \in Nat
                 PROVE  /\ JobOf(r) # WorkloadOf(q) /\ JobOf(r) # Pod(q, n) /\ WorkloadOf(r) # Pod(q, n)
                        /\ JobOf(q) # WorkloadOf(r) /\ JobOf(q) # Pod(r, n) /\ WorkloadOf(q) # Pod(r, n)
                        /\ JobOf(r) # JobOf(q) /\ WorkloadOf(r) # WorkloadOf(q) /\ Pod(r, m) # Pod(q, n)
      OBVIOUS
    <3>1. /\ JobOf(r) # WorkloadOf(q) /\ JobOf(r) # Pod(q, n) /\ WorkloadOf(r) # Pod(q, n)
          /\ JobOf(r) # JobOf(q) /\ WorkloadOf(r) # WorkloadOf(q) /\ Pod(r, m) # Pod(q, n)
      BY UidsApart
    <3>2. JobOf(q) # WorkloadOf(r) /\ JobOf(q) # Pod(r, n) /\ WorkloadOf(q) # Pod(r, n)
      BY UidsApart
    <3> QED BY <3>1, <3>2
  <2>4. 0 \in Nat
    OBVIOUS
  <2>1. CASE t.uid = JobOf(r)
    BY <2>0, <2>1, <2>4
  <2>2. CASE t.uid = WorkloadOf(r)
    BY <2>0, <2>2, <2>4
  <2>3. ASSUME NEW m \in Nat, t.uid = Pod(r, m) PROVE t.uid # JobOf(q) /\ t.uid # WorkloadOf(q) /\ \A n \in Nat : t.uid # Pod(q, n)
    BY <2>0, <2>3
  <2> QED BY <2>1, <2>2, <2>3
<1>2. c.n \in Nat
  BY DEF RowStates
<1>3. /\ \A u : u # t.uid => Recorded(G, u) = Recorded(H, u)
      /\ \A e : e.uid # t.uid /\ Latest(H, e) => Latest(G, e)
  BY LatestAppend
<1>4. /\ AdmissionOf(q).uid = WorkloadOf(q)
      /\ ReadinessOf(q, c.n).uid = Pod(q, c.n)
  BY DEF AdmissionOf, ReadinessOf, Transition
<1> HIDE DEF G
<1> QED BY <1>1, <1>2, <1>3, <1>4 DEF RowOK, G

(* What was told stays told.                                               *)
LEMMA ToldGrows ==
    ASSUME NEW H \in Seq(Transitions), NEW t \in Transitions, NEW rw, NEW ro,
           \A r \in Rows : ro[r].wl = "evicted" => t = PreemptionOf(r) \/ (rw[r].wl = "evicted" /\ t.uid # WorkloadOf(r))
    PROVE  Told(H, rw) \subseteq Told(Append(H, t), ro)
<1> SUFFICES ASSUME NEW u \in Told(H, rw), NEW r \in Rows, u = WorkloadOf(r), ro[r].wl = "evicted"
             PROVE  Latest(Append(H, t), PreemptionOf(r))
  BY DEF Told
<1>1. PreemptionOf(r).uid = WorkloadOf(r)
  BY DEF PreemptionOf, Transition
<1>2. CASE t = PreemptionOf(r)
  BY <1>2, LatestAppend
<1>3. CASE rw[r].wl = "evicted" /\ t.uid # WorkloadOf(r)
  <2>1. Latest(H, PreemptionOf(r))
    BY <1>3 DEF Told
  <2> QED BY <1>1, <1>3, <2>1, LatestAppend
<1> QED BY <1>2, <1>3

------------------------------------------------------------------------------
(* What the cluster does, action by action.                                *)

(* A queue that is sent an event holds events of its own kind only,        *)
LEMMA SendingKeepsQueues ==
    ASSUME NEW q \in [Kinds -> Seq(Transitions)], Kinded(q), NEW k \in Kinds,
           NEW t \in Transitions, KindOf(t.uid) = k
    PROVE  LET Q == [q EXCEPT ![k] = Append(@, t)]
           IN Q \in [Kinds -> Seq(Transitions)] /\ Kinded(Q) /\ Joins(q, Q, k, t)
<1> DEFINE Q == [q EXCEPT ![k] = Append(@, t)]
<1>1. Q \in [Kinds -> Seq(Transitions)]
  OBVIOUS
<1>2. ASSUME NEW l \in Kinds, NEW i \in DOMAIN Q[l] PROVE KindOf(Q[l][i].uid) = l
  <2>1. CASE l # k
    BY <2>1 DEF Kinded
  <2>2. CASE l = k
    <3>1. Q[k] = Append(q[k], t) /\ q[k] \in Seq(Transitions)
      OBVIOUS
    <3>2. (i \in DOMAIN q[k] /\ Q[k][i] = q[k][i]) \/ Q[k][i] = t
      <4> DEFINE s == q[k]
      <4>1. s \in Seq(Transitions) /\ i \in DOMAIN Append(s, t)
        BY <2>2, <3>1
      <4> HIDE DEF s
      <4>2. (i \in DOMAIN s /\ Append(s, t)[i] = s[i]) \/ Append(s, t)[i] = t
        BY <4>1
      <4> QED BY <3>1, <4>2 DEF s
    <3> QED BY <2>2, <3>2 DEF Kinded
  <2> QED BY <2>1, <2>2
<1>3. Joins(q, Q, k, t)
  BY DEF Joins
<1> QED BY <1>1, <1>2, <1>3 DEF Kinded

(* and so does one whose head is taken.                                    *)
LEMMA TailKeepsQueues ==
    ASSUME NEW q \in [Kinds -> Seq(Transitions)], Kinded(q), NEW k \in Kinds, q[k] # <<>>
    PROVE  LET Q == [q EXCEPT ![k] = Tail(@)]
           IN Q \in [Kinds -> Seq(Transitions)] /\ Kinded(Q) /\ Leaves(q, Q, k)
<1> DEFINE Q == [q EXCEPT ![k] = Tail(@)]
<1>1. q[k] \in Seq(Transitions) /\ Q[k] = Tail(q[k])
  OBVIOUS
<1>2. /\ Tail(q[k]) \in Seq(Transitions)
      /\ \A i \in DOMAIN Tail(q[k]) : i + 1 \in DOMAIN q[k] /\ Tail(q[k])[i] = q[k][i + 1]
  BY <1>1, TailsAgree
<1>3. Q \in [Kinds -> Seq(Transitions)]
  BY <1>2
<1>4. ASSUME NEW l \in Kinds, NEW i \in DOMAIN Q[l] PROVE KindOf(Q[l][i].uid) = l
  <2>1. CASE l # k
    BY <2>1 DEF Kinded
  <2>2. CASE l = k
    BY <1>1, <1>2, <2>2 DEF Kinded
  <2> QED BY <2>1, <2>2
<1>5. Leaves(q, Q, k)
  BY DEF Leaves
<1> QED BY <1>3, <1>4, <1>5 DEF Kinded

(* An update is sent that tells of nothing new.                            *)
LEMMA SendKeeps ==
    ASSUME CInv, NEW k \in Kinds, NEW t \in Transitions, KindOf(t.uid) = k, Send(k, t), Observation,
           happened' = happened, row' \in [Rows -> RowStates], RowsOK(happened, row'),
           Named(t) => Latest(happened, t),
           Spares(Told(happened, row), Told(happened, row'), k, t)
    PROVE  CInv'
<1> DEFINE Q == [queue EXCEPT ![k] = Append(@, t)]
<1>1. queue' = Q
  BY DEF Send
<1>2. Q \in [Kinds -> Seq(Transitions)] /\ Kinded(Q) /\ Joins(queue, Q, k, t)
  BY SendingKeepsQueues DEF CInv
<1>3. Kept(horizon, Opens(stream), Told(happened, row'), happened, ledger, invalid, pending, Q)
  <2>1. horizon \in Int /\ Opens(stream) \in SUBSET Kinds
    BY DEF CInv, Opens
  <2>2. Tells(happened, t)
    BY DEF Latest, Tells
  <2> DEFINE E == Told(happened, row)
             F == Told(happened, row')
             O == Opens(stream)
  <2>3. Kept(horizon, O, E, happened, ledger, invalid, pending, queue) /\ Spares(E, F, k, t)
    BY DEF CInv
  <2>4. O \in SUBSET Kinds
    BY <2>1
  <2> HIDE DEF E, F, O, Q
  <2>5. Kept(horizon, O, F, happened, ledger, invalid, pending, Q)
    <3>1. /\ happened \in Seq(Transitions) /\ ledger \in Seq(Entries) /\ invalid \in BOOLEAN
          /\ pending \in Seq(Observed) /\ queue \in [Kinds -> Seq(Transitions)] /\ Kinded(queue)
      BY DEF CInv
    <3> QED BY SMTT(60), <1>2, <2>1, <2>2, <2>3, <2>4, <3>1, KeptRepeats
  <2> QED BY <2>5 DEF F, O
<1> HIDE DEF Q
<1> QED BY <1>1, <1>2, <1>3 DEF CInv, Observation

(* What happens to an object and is sent at once is kept.                  *)
LEMMA StreamHappens ==
    ASSUME CInv, NEW k \in Kinds, NEW t \in Transitions, KindOf(t.uid) = k, Named(t),
           IsNews(happened, t, Told(happened, row)),
           NEW F, Told(happened, row) \subseteq F,
           NEW Q, Joins(queue, Q, k, t), NEW G, G = Append(happened, t)
    PROVE  Kept(horizon, Opens(stream), F, G, ledger, invalid, pending, Q)
<1> DEFINE E == Told(happened, row)
           O == Opens(stream)
<1>1. horizon \in Int /\ O \in SUBSET Kinds
  BY DEF CInv, Opens
<1>2. Kept(horizon, O, E, happened, ledger, invalid, pending, queue) /\ Covers(E, F) /\ IsNews(happened, t, E)
  BY DEF CInv, Covers
<1>3. /\ happened \in Seq(Transitions) /\ ledger \in Seq(Entries) /\ invalid \in BOOLEAN
      /\ pending \in Seq(Observed) /\ queue \in [Kinds -> Seq(Transitions)] /\ Kinded(queue)
  BY DEF CInv
<1> HIDE DEF E, O
<1>4. Kept(horizon, O, F, G, ledger, invalid, pending, Q)
  BY Zenon, <1>1, <1>2, <1>3, KeptHappens
<1> QED BY <1>4 DEF O

(* Of the rows only r changes.                                             *)
Changes(rw, ro, r) ==
    rw \in [Rows -> RowStates] /\ ro \in [Rows -> RowStates] /\ \A q \in Rows : q # r => ro[q] = rw[q]

(* An event of a row happens and is sent.                                  *)
LEMMA EmitKeeps ==
    ASSUME CInv, NEW r \in Rows, NEW k \in Kinds, NEW t \in Transitions, KindOf(t.uid) = k, Named(t),
           t.uid = JobOf(r) \/ t.uid = WorkloadOf(r) \/ \E m \in Nat : t.uid = Pod(r, m),
           Emit(k, t), Observation, Changes(row, row', r),
           RowOK(Append(happened, t), r, row'[r]),
           IsNews(happened, t, Told(happened, row)),
           row'[r].wl = "evicted" => t = PreemptionOf(r) \/ (row[r].wl = "evicted" /\ t.uid # WorkloadOf(r))
    PROVE  CInv'
<1> DEFINE Q == [queue EXCEPT ![k] = Append(@, t)]
           G == Append(happened, t)
<1>1. queue' = Q /\ happened' = G
  BY DEF Emit, Send, Named
<1>2. Q \in [Kinds -> Seq(Transitions)] /\ Kinded(Q) /\ Joins(queue, Q, k, t)
  BY SendingKeepsQueues DEF CInv
<1>3. G \in Seq(Transitions)
  BY LatestAppend DEF CInv
<1>4. row' \in [Rows -> RowStates] /\ \A q \in Rows : q # r => row'[q] = row[q]
  BY DEF Changes
<1>5. RowsOK(G, row')
  <2> SUFFICES ASSUME NEW q \in Rows, q # r PROVE RowOK(G, q, row'[q])
    BY <1>4 DEF RowsOK
  <2>1. row[q] \in RowStates /\ RowOK(happened, q, row[q])
    BY DEF CInv, RowsOK
  <2> QED BY <1>4, <2>1, OtherRowsKeep DEF CInv
<1>6. Told(happened, row) \subseteq Told(G, row')
  <2>1. ASSUME NEW q \in Rows, row'[q].wl = "evicted"
        PROVE  t = PreemptionOf(q) \/ (row[q].wl = "evicted" /\ t.uid # WorkloadOf(q))
    <3>1. CASE q = r
      BY <1>4, <2>1, <3>1
    <3>2. CASE q # r
      <4>1. \A m \in Nat : /\ JobOf(r) # WorkloadOf(q) /\ WorkloadOf(q) # Pod(r, m)
                           /\ WorkloadOf(r) # WorkloadOf(q)
        <5> SUFFICES ASSUME NEW m \in Nat
                     PROVE  /\ JobOf(r) # WorkloadOf(q) /\ WorkloadOf(q) # Pod(r, m)
                            /\ WorkloadOf(r) # WorkloadOf(q)
          OBVIOUS
        <5>1. JobOf(r) # WorkloadOf(q) /\ WorkloadOf(r) # WorkloadOf(q)
          BY <3>2, UidsApart
        <5>2. WorkloadOf(q) # Pod(r, m)
          BY UidsApart
        <5> QED BY <5>1, <5>2
      <4>2. 0 \in Nat
        OBVIOUS
      <4> QED BY <1>4, <2>1, <3>2, <4>1, <4>2
    <3> QED BY <3>1, <3>2
  <2> QED BY <2>1, ToldGrows DEF CInv
<1>7. Kept(horizon, Opens(stream), Told(G, row'), G, ledger, invalid, pending, Q)
  <2> HIDE DEF G, Q
  <2>1. G = Append(happened, t)
    BY DEF G
  <2> QED BY <1>2, <1>6, <2>1, StreamHappens
<1> HIDE DEF Q, G
<1> QED BY <1>1, <1>2, <1>3, <1>4, <1>5, <1>7 DEF CInv, Observation

(* What a row's objects may become without an event of theirs.             *)
LEMMA RowsKeep ==
    ASSUME NEW H, NEW rw, NEW ro, NEW r \in Rows, RowsOK(H, rw), Changes(rw, ro, r), RowOK(H, r, ro[r])
    PROVE  RowsOK(H, ro)
BY DEF RowsOK, Changes

(* An event of another object changes nothing of what a row rests on.      *)
LEMMA RowFields ==
    ASSUME CInv, NEW r \in Rows
    PROVE  /\ row[r] \in RowStates /\ row[r].n \in Nat /\ RowOK(happened, r, row[r])
           /\ happened \in Seq(Transitions) /\ row \in [Rows -> RowStates]
           /\ \A m \in Nat : /\ JobOf(r) # WorkloadOf(r) /\ JobOf(r) # Pod(r, m)
                             /\ WorkloadOf(r) # Pod(r, m)
                             /\ \A n \in Nat : Pod(r, m) = Pod(r, n) => m = n
                             /\ Pod(r, m) \in Uids /\ KindOf(Pod(r, m)) = "Pod"
           /\ JobOf(r) \in Uids /\ WorkloadOf(r) \in Uids
           /\ KindOf(JobOf(r)) = "Job" /\ KindOf(WorkloadOf(r)) = "Workload"
<1>1. row[r] \in RowStates /\ row \in [Rows -> RowStates] /\ RowOK(happened, r, row[r]) /\ happened \in Seq(Transitions)
  BY DEF CInv, RowsOK
<1>2. row[r].n \in Nat
  BY <1>1 DEF RowStates
<1>3. ASSUME NEW m \in Nat, NEW n \in Nat
      PROVE  /\ JobOf(r) # WorkloadOf(r) /\ JobOf(r) # Pod(r, m)
             /\ WorkloadOf(r) # Pod(r, m)
             /\ Pod(r, m) = Pod(r, n) => m = n
             /\ Pod(r, m) \in Uids /\ KindOf(Pod(r, m)) = "Pod"
             /\ JobOf(r) \in Uids /\ WorkloadOf(r) \in Uids
             /\ KindOf(JobOf(r)) = "Job" /\ KindOf(WorkloadOf(r)) = "Workload"
  <2>1. /\ JobOf(r) # WorkloadOf(r) /\ JobOf(r) # Pod(r, m) /\ WorkloadOf(r) # Pod(r, m)
        /\ Pod(r, m) \in Uids /\ KindOf(Pod(r, m)) = "Pod"
        /\ JobOf(r) \in Uids /\ WorkloadOf(r) \in Uids
        /\ KindOf(JobOf(r)) = "Job" /\ KindOf(WorkloadOf(r)) = "Workload"
    BY UidsApart
  <2>2. Pod(r, m) = Pod(r, n) => m = n
    BY UidsApart
  <2> QED BY <2>1, <2>2
<1>4. 0 \in Nat
  OBVIOUS
<1>5. /\ JobOf(r) \in Uids /\ WorkloadOf(r) \in Uids
      /\ KindOf(JobOf(r)) = "Job" /\ KindOf(WorkloadOf(r)) = "Workload"
  BY <1>3, <1>4
<1> QED BY <1>1, <1>2, <1>3, <1>5

(* A row becomes another state of a row.                                   *)
LEMMA RowBecomes ==
    ASSUME CInv, NEW r \in Rows, NEW c \in RowStates, row' = [row EXCEPT ![r] = c]
    PROVE  Changes(row, row', r) /\ row'[r] = c
BY RowFields DEF Changes

(* The controller creates a Job: nothing the builder is told of.           *)
LEMMA CreateJobKeeps ==
    ASSUME CInv, NEW r \in Rows, CreateJob(r) PROVE CInv'
<1> DEFINE t == Transition(JobOf(r), r, "none", "none")
<1>1. t \in Transitions /\ t.uid = JobOf(r) /\ t.type = "none" /\ KindOf(t.uid) = "Job"
  <2>1. "none" \in Types \cup {"none"} /\ "none" \in Reasons
    BY DEF Reasons
  <2>2. JobOf(r) \in Uids /\ KindOf(JobOf(r)) = "Job" /\ r \in Rows \cup {"stray"}
    BY RowFields
  <2>3. t = Transition(JobOf(r), r, "none", "none")
    OBVIOUS
  <2> HIDE DEF t
  <2>4. t \in Transitions /\ t.uid = JobOf(r) /\ t.row = r
    BY <2>1, <2>2, <2>3, TransitionIs
  <2>5. t.type = "none" 
    BY <2>1, <2>2, <2>3, TransitionIs
  <2> QED BY <2>2, <2>4, <2>5
<1>2. Changes(row, row', r) /\ row'[r] = [row[r] EXCEPT !.job = "active"]
  <2>1. [row[r] EXCEPT !.job = "active"] \in RowStates
    BY RowFields DEF RowStates
  <2>2. row' = [row EXCEPT ![r] = [row[r] EXCEPT !.job = "active"]]
    BY DEF CreateJob
  <2> QED BY <2>1, <2>2, RowBecomes
<1>3. row'[r].job = "active" /\ row'[r].wl = row[r].wl /\ row'[r].pod = row[r].pod /\ row'[r].n = row[r].n
  BY <1>2, RowFields DEF RowStates
<1>4. row[r].job = "none" /\ Send("Job", t) /\ happened' = happened /\ Observation
  <2>1. row[r].job = "none" /\ Emit("Job", t) /\ Observation
    BY DEF CreateJob, JobOf
  <2> HIDE DEF t
  <2> QED BY <1>1, <2>1 DEF Emit
<1>5. RowOK(happened, r, row'[r])
  BY <1>3, <1>4, RowFields DEF RowOK
<1>6. RowsOK(happened, row') /\ row' \in [Rows -> RowStates]
  <2>1. Changes(row, row', r) /\ RowsOK(happened, row)
    BY <1>2 DEF CInv
  <2> QED BY <1>5, <2>1, RowsKeep DEF Changes
<1>7. Spares(Told(happened, row), Told(happened, row'), "Job", t)
  <2>1. \A q \in Rows : row'[q].wl = row[q].wl
    BY <1>2, <1>3 DEF Changes
  <2> QED BY <2>1 DEF Spares, Told
<1>8. ~Named(t)
  BY <1>1 DEF Named
<1>9. "Job" \in Kinds
  BY DEF Kinds
<1> HIDE DEF t
<1> QED BY <1>1, <1>4, <1>6, <1>7, <1>8, <1>9, SendKeeps

(* What changes of a row but not its Workload's state tells nothing.       *)
LEMMA QuietRow ==
    ASSUME NEW H, NEW rw, NEW ro, NEW r \in Rows, Changes(rw, ro, r), ro[r].wl = rw[r].wl \/ ro[r].wl # "evicted",
           NEW k, NEW t
    PROVE  Spares(Told(H, rw), Told(H, ro), k, t) /\ Told(H, rw) \subseteq Told(H, ro)
<1>1. \A q \in Rows : ro[q].wl = "evicted" => rw[q].wl = "evicted"
  <2> SUFFICES ASSUME NEW q \in Rows, ro[q].wl = "evicted" PROVE rw[q].wl = "evicted"
    OBVIOUS
  <2>1. CASE q = r
    BY <2>1
  <2>2. CASE q # r
    BY <2>2 DEF Changes
  <2> QED BY <2>1, <2>2
<1> QED BY <1>1 DEF Spares, Told

(* Kueue admits a row that has no quota: its last event was another.       *)
LEMMA AdmitKeeps ==
    ASSUME CInv, NEW r \in Rows, Admit(r) PROVE CInv'
<1> DEFINE t == Transition(WorkloadOf(r), r, "Admitted", "Admitted")
           G == Append(happened, t)
<1>0. /\ "Admitted" \in Types /\ "Admitted" \in Reasons /\ "Admitted" # "none" /\ "Workload" \in Kinds
      /\ r \in Rows \cup {"stray"} /\ WorkloadOf(r) \in Uids /\ KindOf(WorkloadOf(r)) = "Workload" /\ 0 \in Nat
  BY RowFields DEF Types, Reasons, Kinds
<1>1. t \in Transitions /\ t.uid = WorkloadOf(r) /\ t.type = "Admitted" /\ t.row = r /\ t.reason = "Admitted"
  BY <1>0, TransitionIs
<1>2. Changes(row, row', r) /\ row'[r] = [row[r] EXCEPT !.wl = "admitted", !.pod = "pending", !.n = @ + 1]
  BY RowFields DEF Admit, Changes, RowStates
<1>3. row'[r].job = row[r].job /\ row'[r].wl = "admitted" /\ row'[r].pod = "pending" /\ row'[r].n = row[r].n + 1
  BY <1>2, RowFields DEF RowStates
<1>4. row[r].job = "active" /\ row[r].wl # "admitted" /\ Emit("Workload", t) /\ Observation
  BY DEF Admit, WorkloadOf
<1>5. /\ \A u : u # t.uid => Recorded(G, u) = Recorded(happened, u)
      /\ Latest(G, AdmissionOf(r))
  <2>1. AdmissionOf(r) = t
    BY DEF AdmissionOf
  <2> HIDE DEF t
  <2> QED BY <1>1, <2>1, RowFields, LatestAppend
<1> HIDE DEF t, G
<1>6. RowOK(G, r, row'[r])
  <2>1. Recorded(G, JobOf(r)) = 0
    <3>1. JobOf(r) # WorkloadOf(r) /\ Recorded(happened, JobOf(r)) = 0
      BY <1>0, <1>4, RowFields DEF RowOK
    <3> QED BY <1>1, <1>5, <3>1
  <2>2. ASSUME NEW m \in Nat, m > row[r].n PROVE Recorded(G, Pod(r, m)) = 0
    <3>1. Pod(r, m) # WorkloadOf(r) /\ Recorded(happened, Pod(r, m)) = 0
      BY <2>2, RowFields DEF RowOK
    <3> QED BY <1>1, <1>5, <3>1
  <2>3. row[r].n \in Nat
    BY RowFields
  <2> QED BY <1>3, <1>5, <2>1, <2>2, <2>3 DEF RowOK
<1>7. IsNews(happened, t, Told(happened, row))
  <2> SUFFICES ASSUME WorkloadOf(r) \in Told(happened, row), NEW i \in DOMAIN happened,
                      happened[i].uid = WorkloadOf(r), Nth(happened, i) = Recorded(happened, WorkloadOf(r))
               PROVE  happened[i].type # "Admitted"
    BY <1>1 DEF IsNews
  <2>1. row[r].wl \in {"none", "evicted"}
    BY <1>4, RowFields DEF RowOK, RowStates
  <2>2. CASE row[r].wl = "none"
    BY <2>2, RowFields, NothingIsLatest DEF RowOK
  <2>3. CASE row[r].wl = "evicted"
    <3>1. Latest(happened, PreemptionOf(r))
      BY <2>3 DEF Told
    <3>2. PreemptionOf(r).uid = WorkloadOf(r) /\ PreemptionOf(r).type = "Preempted"
      BY DEF PreemptionOf, Transition
    <3>3. happened[i].type = PreemptionOf(r).type
      BY <3>1, <3>2, RowFields, LatestIsOne
    <3> QED BY <3>2, <3>3
  <2> QED BY <2>1, <2>2, <2>3
<1>8. Named(t) /\ KindOf(t.uid) = "Workload"
  <2>1. WorkloadOf(r) # Stray
    BY <1>0, UidsApart
  <2> QED BY <1>0, <1>1, <2>1 DEF Named
<1> QED BY <1>0, <1>1, <1>2, <1>3, <1>4, <1>6, <1>7, <1>8, EmitKeeps DEF G

(* A Pod is replaced: nothing of the new one has happened.                 *)
LEMMA ReplacePodKeeps ==
    ASSUME CInv, NEW r \in Rows, ReplacePod(r) PROVE CInv'
<1>1. Changes(row, row', r) /\ row'[r] = [row[r] EXCEPT !.pod = "pending", !.n = @ + 1]
  <2>1. [row[r] EXCEPT !.pod = "pending", !.n = @ + 1] \in RowStates
    <3>1. PICK c \in RowStates : c = row[r]
      BY RowFields
    <3>2. PICK n \in Nat : n = c.n + 1
      BY <3>1, RowFields
    <3>3. [c EXCEPT !.pod = "pending", !.n = n] \in RowStates
      BY DEF RowStates
    <3> QED BY <3>1, <3>2, <3>3
  <2>2. row' = [row EXCEPT ![r] = [row[r] EXCEPT !.pod = "pending", !.n = @ + 1]]
    BY DEF ReplacePod
  <2> QED BY <2>1, <2>2, RowBecomes
<1>2. row'[r].job = row[r].job /\ row'[r].wl = row[r].wl /\ row'[r].pod = "pending" /\ row'[r].n = row[r].n + 1
  BY <1>1, RowFields DEF RowStates
<1>3. Observation /\ happened' = happened /\ queue' = queue
  BY DEF ReplacePod
<1>4. RowOK(happened, r, row'[r])
  BY <1>2, RowFields DEF RowOK
<1>5. RowsOK(happened, row') /\ row' \in [Rows -> RowStates]
  <2>1. Changes(row, row', r) /\ RowsOK(happened, row)
    BY <1>1 DEF CInv
  <2> QED BY <1>4, <2>1, RowsKeep DEF Changes
<1>6. Told(happened, row) \subseteq Told(happened, row')
  BY <1>1, <1>2, QuietRow
<1>7. Kept(horizon, Opens(stream), Told(happened, row'), happened, ledger, invalid, pending, queue)
  <2>1. Kept(horizon, Opens(stream), Told(happened, row), happened, ledger, invalid, pending, queue)
    BY DEF CInv
  <2> QED BY <1>6, <2>1, KeptWeakens
<1> QED BY <1>3, <1>5, <1>7 DEF CInv, Observation

(* A pending Pod, of which nothing has happened, becomes Ready.            *)
LEMMA BecomeReadyKeeps ==
    ASSUME CInv, NEW r \in Rows, BecomeReady(r) PROVE CInv'
<1> DEFINE t == Transition(Pod(r, row[r].n), r, "PodReady", "Ready")
           G == Append(happened, t)
<1>0. /\ "PodReady" \in Types /\ "Ready" \in Reasons /\ "PodReady" # "none" /\ "Pod" \in Kinds
      /\ r \in Rows \cup {"stray"} /\ row[r].n \in Nat
      /\ Pod(r, row[r].n) \in Uids /\ KindOf(Pod(r, row[r].n)) = "Pod"
  BY RowFields DEF Types, Reasons, Kinds
<1>1. t \in Transitions /\ t.uid = Pod(r, row[r].n) /\ t.type = "PodReady" /\ t.row = r /\ t.reason = "Ready"
  BY <1>0, TransitionIs
<1>2. Changes(row, row', r) /\ row'[r] = [row[r] EXCEPT !.pod = "ready"]
  <2>1. [row[r] EXCEPT !.pod = "ready"] \in RowStates
    BY RowFields DEF RowStates
  <2>2. row' = [row EXCEPT ![r] = [row[r] EXCEPT !.pod = "ready"]]
    BY DEF BecomeReady
  <2> QED BY <2>1, <2>2, RowBecomes
<1>3. row'[r].job = row[r].job /\ row'[r].wl = row[r].wl /\ row'[r].pod = "ready" /\ row'[r].n = row[r].n
  BY <1>2, RowFields DEF RowStates
<1>4. row[r].pod = "pending" /\ row[r].wl = "admitted" /\ Emit("Pod", t) /\ Observation
  BY DEF BecomeReady
<1>5. /\ \A u : u # t.uid => Recorded(G, u) = Recorded(happened, u)
      /\ \A e : e.uid # t.uid /\ Latest(happened, e) => Latest(G, e)
      /\ Latest(G, ReadinessOf(r, row[r].n))
  <2>1. ReadinessOf(r, row[r].n) = t
    BY DEF ReadinessOf
  <2> HIDE DEF t
  <2> QED BY <1>1, <2>1, RowFields, LatestAppend
<1> HIDE DEF t, G
<1>6. RowOK(G, r, row'[r])
  <2>1. row[r].job \in {"none", "active"} => Recorded(G, JobOf(r)) = 0
    <3>1. JobOf(r) # Pod(r, row[r].n)
      BY <1>0, RowFields
    <3> QED BY <1>1, <1>5, <3>1, RowFields DEF RowOK
  <2>2. ASSUME NEW m \in Nat, m > row[r].n PROVE Recorded(G, Pod(r, m)) = 0
    <3>1. Pod(r, m) # Pod(r, row[r].n) /\ Recorded(happened, Pod(r, m)) = 0
      BY <1>0, <2>2, RowFields DEF RowOK
    <3> QED BY <1>1, <1>5, <3>1
  <2>3. Latest(G, AdmissionOf(r))
    <3>1. AdmissionOf(r).uid = WorkloadOf(r)
      BY DEF AdmissionOf, Transition
    <3>2. WorkloadOf(r) # Pod(r, row[r].n) /\ Latest(happened, AdmissionOf(r))
      BY <1>0, <1>4, RowFields DEF RowOK
    <3> QED BY <1>1, <1>5, <3>1, <3>2
  <2> QED BY <1>3, <1>4, <1>5, <2>1, <2>2, <2>3 DEF RowOK
<1>7. IsNews(happened, t, Told(happened, row))
  BY <1>1, <1>4, RowFields, NothingIsLatest DEF RowOK, IsNews
<1>8. Named(t) /\ KindOf(t.uid) = "Pod"
  <2>1. Pod(r, row[r].n) # Stray
    BY <1>0, UidsApart
  <2> QED BY <1>0, <1>1, <2>1 DEF Named
<1> QED BY <1>0, <1>1, <1>2, <1>3, <1>4, <1>6, <1>7, <1>8, EmitKeeps DEF G

(* The victim loses its quota: its last event was its admission.           *)
LEMMA PreemptKeeps ==
    ASSUME CInv, Preempt PROVE CInv'
<1> DEFINE r == VictimRow
           t == Transition(WorkloadOf(r), r, "Preempted", "InCohortReclamation")
           G == Append(happened, t)
<1>r. r \in Rows
  BY DEF Preempt
<1>0. /\ "Preempted" \in Types /\ "InCohortReclamation" \in Reasons /\ "Preempted" # "none" /\ "Workload" \in Kinds
      /\ r \in Rows \cup {"stray"} /\ WorkloadOf(r) \in Uids /\ KindOf(WorkloadOf(r)) = "Workload" /\ 0 \in Nat
  BY <1>r, RowFields DEF Types, Reasons, Kinds
<1>4. /\ row[r].job = "active" /\ row[r].wl = "admitted" /\ Emit("Workload", t) /\ Observation
      /\ row' = [row EXCEPT ![r].wl = "evicted"]
  BY DEF Preempt, WorkloadOf
<1> HIDE DEF r
<1>1. t \in Transitions /\ t.uid = WorkloadOf(r) /\ t.type = "Preempted" /\ t.row = r /\ t.reason = "InCohortReclamation"
  BY <1>0, TransitionIs
<1>2. Changes(row, row', r) /\ row'[r] = [row[r] EXCEPT !.wl = "evicted"]
  <2>1. [row[r] EXCEPT !.wl = "evicted"] \in RowStates
    BY <1>r, RowFields DEF RowStates
  <2>2. row' = [row EXCEPT ![r] = [row[r] EXCEPT !.wl = "evicted"]]
    BY <1>4
  <2> QED BY <1>r, <2>1, <2>2, RowBecomes
<1>3. row'[r].job = row[r].job /\ row'[r].wl = "evicted" /\ row'[r].pod = row[r].pod /\ row'[r].n = row[r].n
  BY <1>r, <1>2, RowFields DEF RowStates
<1>5. /\ \A u : u # t.uid => Recorded(G, u) = Recorded(happened, u)
      /\ \A e : e.uid # t.uid /\ Latest(happened, e) => Latest(G, e)
      /\ t = PreemptionOf(r)
  <2>1. PreemptionOf(r) = t
    BY DEF PreemptionOf
  <2> HIDE DEF t
  <2> QED BY <1>r, <1>1, <2>1, RowFields, LatestAppend
<1> HIDE DEF t, G
<1>6. RowOK(G, r, row'[r])
  <2>1. Recorded(G, JobOf(r)) = 0
    <3>1. JobOf(r) # WorkloadOf(r) /\ Recorded(happened, JobOf(r)) = 0
      BY <1>r, <1>0, <1>4, RowFields DEF RowOK
    <3> QED BY <1>1, <1>5, <3>1
  <2>2. ASSUME NEW m \in Nat PROVE /\ Pod(r, m) # WorkloadOf(r)
                                   /\ Recorded(G, Pod(r, m)) = Recorded(happened, Pod(r, m))
    <3>1. Pod(r, m) # WorkloadOf(r)
      BY <1>r, RowFields
    <3> QED BY <1>1, <1>5, <3>1
  <2>3. row[r].n \in Nat
    BY <1>r, RowFields
  <2>4. row[r].pod = "ready" => Latest(G, ReadinessOf(r, row[r].n))
    <3>1. ReadinessOf(r, row[r].n).uid = Pod(r, row[r].n)
      BY DEF ReadinessOf, Transition
    <3> QED BY <1>r, <1>1, <1>5, <2>2, <2>3, <3>1, RowFields DEF RowOK
  <2>5. RowOK(happened, r, row[r])
    BY <1>r, RowFields
  <2> QED BY <1>3, <1>5, <2>1, <2>2, <2>3, <2>4, <2>5 DEF RowOK
<1>7. IsNews(happened, t, Told(happened, row))
  <2> SUFFICES ASSUME NEW i \in DOMAIN happened,
                      happened[i].uid = WorkloadOf(r), Nth(happened, i) = Recorded(happened, WorkloadOf(r))
               PROVE  happened[i].type # "Preempted"
    BY <1>1 DEF IsNews
  <2>1. Latest(happened, AdmissionOf(r))
    BY <1>r, <1>4, RowFields DEF RowOK
  <2>2. AdmissionOf(r).uid = WorkloadOf(r) /\ AdmissionOf(r).type = "Admitted"
    BY DEF AdmissionOf, Transition
  <2>3. happened[i].type = AdmissionOf(r).type
    BY <1>r, <2>1, <2>2, RowFields, LatestIsOne
  <2> QED BY <2>2, <2>3
<1>8. Named(t) /\ KindOf(t.uid) = "Workload"
  <2>1. WorkloadOf(r) # Stray
    BY <1>r, <1>0, UidsApart
  <2> QED BY <1>0, <1>1, <2>1 DEF Named
<1> QED BY <1>r, <1>0, <1>1, <1>2, <1>3, <1>4, <1>5, <1>6, <1>7, <1>8, EmitKeeps DEF G

(* A Ready Pod stops: its last event was that it became Ready.             *)
LEMMA StopPodKeeps ==
    ASSUME CInv, NEW r \in Rows, NEW phase \in {"Succeeded", "Failed"}, StopPod(r, phase) PROVE CInv'
<1> DEFINE t == Transition(Pod(r, row[r].n), r, "AttemptStopped", phase)
           G == Append(happened, t)
<1>0. /\ "AttemptStopped" \in Types /\ phase \in Reasons /\ "AttemptStopped" # "none" /\ "Pod" \in Kinds
      /\ r \in Rows \cup {"stray"} /\ row[r].n \in Nat
      /\ Pod(r, row[r].n) \in Uids /\ KindOf(Pod(r, row[r].n)) = "Pod"
  BY RowFields DEF Types, Reasons, Kinds
<1>1. t \in Transitions /\ t.uid = Pod(r, row[r].n) /\ t.type = "AttemptStopped" /\ t.row = r /\ t.reason = phase
  BY <1>0, TransitionIs
<1>4. row[r].pod = "ready" /\ Emit("Pod", t) /\ Observation /\ row' = [row EXCEPT ![r].pod = phase]
  BY DEF StopPod
<1>2. Changes(row, row', r) /\ row'[r] = [row[r] EXCEPT !.pod = phase]
  <2>1. [row[r] EXCEPT !.pod = phase] \in RowStates
    BY RowFields DEF RowStates
  <2>2. row' = [row EXCEPT ![r] = [row[r] EXCEPT !.pod = phase]]
    BY <1>4
  <2> QED BY <2>1, <2>2, RowBecomes
<1>3. row'[r].job = row[r].job /\ row'[r].wl = row[r].wl /\ row'[r].pod = phase /\ row'[r].n = row[r].n
  BY <1>2, RowFields DEF RowStates
<1>5. /\ \A u : u # t.uid => Recorded(G, u) = Recorded(happened, u)
      /\ \A e : e.uid # t.uid /\ Latest(happened, e) => Latest(G, e)
  <2> HIDE DEF t
  <2> QED BY <1>1, RowFields, LatestAppend
<1> HIDE DEF t, G
<1>6. RowOK(G, r, row'[r])
  <2>1. row[r].job \in {"none", "active"} => Recorded(G, JobOf(r)) = 0
    <3>1. JobOf(r) # Pod(r, row[r].n)
      BY <1>0, RowFields
    <3> QED BY <1>1, <1>5, <3>1, RowFields DEF RowOK
  <2>2. ASSUME NEW m \in Nat, m > row[r].n PROVE Recorded(G, Pod(r, m)) = 0
    <3>1. Pod(r, m) # Pod(r, row[r].n) /\ Recorded(happened, Pod(r, m)) = 0
      BY <1>0, <2>2, RowFields DEF RowOK
    <3> QED BY <1>1, <1>5, <3>1
  <2>3. /\ row[r].wl = "admitted" => Latest(G, AdmissionOf(r))
        /\ row[r].wl = "none" => Recorded(G, WorkloadOf(r)) = 0
    <3>1. AdmissionOf(r).uid = WorkloadOf(r)
      BY DEF AdmissionOf, Transition
    <3>2. WorkloadOf(r) # Pod(r, row[r].n)
      BY <1>0, RowFields
    <3>3. RowOK(happened, r, row[r])
      BY RowFields
    <3> QED BY <1>1, <1>5, <3>1, <3>2, <3>3 DEF RowOK
  <2>4. RowOK(happened, r, row[r])
    BY RowFields
  <2> QED BY <1>3, <1>5, <2>1, <2>2, <2>3, <2>4 DEF RowOK
<1>7. IsNews(happened, t, Told(happened, row))
  <2> SUFFICES ASSUME NEW i \in DOMAIN happened,
                      happened[i].uid = t.uid, Nth(happened, i) = Recorded(happened, t.uid)
               PROVE  happened[i].type # t.type
    BY DEF IsNews
  <2>1. Latest(happened, ReadinessOf(r, row[r].n))
    BY <1>4, RowFields DEF RowOK
  <2>2. ReadinessOf(r, row[r].n).uid = t.uid /\ ReadinessOf(r, row[r].n).type = "PodReady"
    BY <1>1 DEF ReadinessOf, Transition
  <2>3. happened[i].type = ReadinessOf(r, row[r].n).type
    BY <2>1, <2>2, RowFields, LatestIsOne
  <2> QED BY <1>1, <2>2, <2>3
<1>8. Named(t) /\ KindOf(t.uid) = "Pod"
  <2>1. Pod(r, row[r].n) # Stray
    BY <1>0, UidsApart
  <2> QED BY <1>0, <1>1, <2>1 DEF Named
<1>9. row'[r].wl = "evicted" => row[r].wl = "evicted" /\ t.uid # WorkloadOf(r)
  BY <1>0, <1>1, <1>3, RowFields
<1> QED BY <1>0, <1>1, <1>2, <1>4, <1>6, <1>7, <1>8, <1>9, EmitKeeps DEF G

(* A Pod is deleted: its state is told once more, as it was.               *)
LEMMA DeletePodKeeps ==
    ASSUME CInv, NEW r \in Rows, DeletePod(r) PROVE CInv'
<1> DEFINE type == IF row[r].pod = "ready" THEN "PodReady" ELSE "none"
           s == Transition(Pod(r, row[r].n), r, type, "Ready")
           t == [s EXCEPT !.delta = "Delete"]
<1>0. /\ type \in Types \cup {"none"} /\ "Ready" \in Reasons /\ "Pod" \in Kinds
      /\ r \in Rows \cup {"stray"} /\ row[r].n \in Nat
      /\ Pod(r, row[r].n) \in Uids /\ KindOf(Pod(r, row[r].n)) = "Pod"
  BY RowFields DEF Types, Reasons, Kinds
<1>4. /\ row[r].pod \in {"pending", "ready"} /\ Send("Pod", t) /\ happened' = happened /\ Observation
      /\ row' = [row EXCEPT ![r].pod = "gone"]
  BY DEF DeletePod
<1>5. (type = "PodReady" /\ row[r].pod = "ready") \/ type = "none"
  OBVIOUS
<1> HIDE DEF type
<1>1. s \in Transitions /\ s.uid = Pod(r, row[r].n) /\ s.type = type /\ s.row = r /\ s.reason = "Ready"
  BY <1>0, TransitionIs
<1> HIDE DEF s
<1>6. t \in Transitions /\ t.uid = Pod(r, row[r].n) /\ t.type = type /\ t.row = r /\ t.reason = "Ready"
  BY <1>1, VariantIs
<1>2. Changes(row, row', r) /\ row'[r] = [row[r] EXCEPT !.pod = "gone"]
  <2>1. [row[r] EXCEPT !.pod = "gone"] \in RowStates
    BY RowFields DEF RowStates
  <2>2. row' = [row EXCEPT ![r] = [row[r] EXCEPT !.pod = "gone"]]
    BY <1>4
  <2> QED BY <2>1, <2>2, RowBecomes
<1>3. row'[r].job = row[r].job /\ row'[r].wl = row[r].wl /\ row'[r].pod = "gone" /\ row'[r].n = row[r].n
  BY <1>2, RowFields DEF RowStates
<1> HIDE DEF t
<1>7. RowOK(happened, r, row'[r])
  BY <1>3, RowFields DEF RowOK
<1>8. RowsOK(happened, row') /\ row' \in [Rows -> RowStates]
  <2>1. Changes(row, row', r) /\ RowsOK(happened, row)
    BY <1>2 DEF CInv
  <2> QED BY <1>7, <2>1, RowsKeep DEF Changes
<1>9. Spares(Told(happened, row), Told(happened, row'), "Pod", t)
  BY <1>2, <1>3, QuietRow
<1>10. Named(t) => Latest(happened, t)
  <2> SUFFICES ASSUME Named(t) PROVE Latest(happened, t)
    OBVIOUS
  <2>1. type = "PodReady" /\ row[r].pod = "ready"
    BY <1>5, <1>6 DEF Named
  <2>2. Latest(happened, ReadinessOf(r, row[r].n))
    BY <2>1, RowFields DEF RowOK
  <2>3. /\ ReadinessOf(r, row[r].n).uid = t.uid /\ ReadinessOf(r, row[r].n).row = t.row
        /\ ReadinessOf(r, row[r].n).type = t.type /\ ReadinessOf(r, row[r].n).reason = t.reason
    BY <1>6, <2>1 DEF ReadinessOf, Transition
  <2> QED BY <2>2, <2>3 DEF Latest, Matched
<1> QED BY <1>0, <1>4, <1>6, <1>8, <1>9, <1>10, SendKeeps

(* A row whose Job ended is of the type of rows.                           *)
LEMMA FinishedRow ==
    ASSUME NEW rw \in [Rows -> RowStates], NEW r \in Rows, NEW how \in {"complete", "failed"}, NEW ro,
           ro = [rw EXCEPT ![r].job = how, ![r].wl = "finished"]
    PROVE  Changes(rw, ro, r) /\ ro[r] = [rw[r] EXCEPT !.job = how, !.wl = "finished"]
<1>1. ro[r] = [rw[r] EXCEPT !.job = how, !.wl = "finished"]
  OBVIOUS
<1>2. ro[r] \in RowStates
  <2> DEFINE c == rw[r]
  <2>1. c \in RowStates
    OBVIOUS
  <2>2. ro[r] = [c EXCEPT !.job = how, !.wl = "finished"]
    BY <1>1
  <2> HIDE DEF c
  <2>3. how \in {"none", "active", "complete", "failed"}
    OBVIOUS
  <2>4. [c EXCEPT !.job = how, !.wl = "finished"] \in RowStates
    BY <2>1, <2>3 DEF RowStates
  <2> QED BY <2>2, <2>4
<1>3. \A q \in Rows : q # r => ro[q] = rw[q]
  OBVIOUS
<1>4. ro \in [Rows -> RowStates]
  BY <1>2, <1>3
<1> QED BY <1>1, <1>3, <1>4 DEF Changes

(* A Job completes: nothing had been told of it.                           *)
LEMMA CompleteKeeps ==
    ASSUME CInv, NEW r \in Rows, row[r].job = "active",
           row' = [row EXCEPT ![r].job = "complete", ![r].wl = "finished"],
           Emit("Job", Transition(JobOf(r), r, "Completed", "Complete")), Observation
    PROVE  CInv'
<1> DEFINE t == Transition(JobOf(r), r, "Completed", "Complete")
           G == Append(happened, t)
<1>0. /\ "Completed" \in Types /\ "Complete" \in Reasons /\ "Completed" # "none" /\ "Job" \in Kinds
      /\ r \in Rows \cup {"stray"} /\ JobOf(r) \in Uids /\ KindOf(JobOf(r)) = "Job" /\ 0 \in Nat
  BY RowFields DEF Types, Reasons, Kinds
<1>1. t \in Transitions /\ t.uid = JobOf(r) /\ t.type = "Completed" /\ t.row = r /\ t.reason = "Complete"
  BY <1>0, TransitionIs
<1>2. Changes(row, row', r) /\ row'[r] = [row[r] EXCEPT !.job = "complete", !.wl = "finished"]
  <2>1. row' = [row EXCEPT ![r].job = "complete", ![r].wl = "finished"]
    OBVIOUS
  <2> HIDE DEF t
  <2>2. row[r] \in RowStates /\ row \in [Rows -> RowStates]
    BY RowFields
  <2> QED BY Zenon, <2>1, <2>2, FinishedRow
<1>3. row'[r].job = "complete" /\ row'[r].wl = "finished" /\ row'[r].pod = row[r].pod /\ row'[r].n = row[r].n
  BY <1>2, RowFields DEF RowStates
<1>4. Emit("Job", t) /\ Observation
  OBVIOUS
<1>5. /\ \A u : u # t.uid => Recorded(G, u) = Recorded(happened, u)
      /\ \A e : e.uid # t.uid /\ Latest(happened, e) => Latest(G, e)
  <2> HIDE DEF t
  <2> QED BY <1>1, RowFields, LatestAppend
<1> HIDE DEF t, G
<1>6. RowOK(G, r, row'[r])
  <2>2. ASSUME NEW m \in Nat PROVE /\ Pod(r, m) # JobOf(r)
                                   /\ Recorded(G, Pod(r, m)) = Recorded(happened, Pod(r, m))
    <3>1. Pod(r, m) # JobOf(r)
      BY RowFields
    <3> QED BY <1>1, <1>5, <3>1
  <2>3. row[r].n \in Nat
    BY RowFields
  <2>4. row[r].pod = "ready" => Latest(G, ReadinessOf(r, row[r].n))
    <3>1. ReadinessOf(r, row[r].n).uid = Pod(r, row[r].n)
      BY DEF ReadinessOf, Transition
    <3> QED BY <1>1, <1>5, <2>2, <2>3, <3>1, RowFields DEF RowOK
  <2>5. RowOK(happened, r, row[r])
    BY RowFields
  <2> QED BY <1>3, <1>5, <2>2, <2>3, <2>4, <2>5 DEF RowOK
<1>7. IsNews(happened, t, Told(happened, row))
  BY <1>1, RowFields, NothingIsLatest DEF RowOK, IsNews
<1>8. Named(t) /\ KindOf(t.uid) = "Job"
  <2>1. JobOf(r) # Stray
    BY <1>0, UidsApart
  <2> QED BY <1>0, <1>1, <2>1 DEF Named
<1> QED BY <1>0, <1>1, <1>2, <1>3, <1>4, <1>6, <1>7, <1>8, EmitKeeps DEF G

(* A Job fails: what is sent names no event and condemns the ledger.       *)
LEMMA FailKeeps ==
    ASSUME CInv, NEW r \in Rows, row[r].job = "active",
           row' = [row EXCEPT ![r].job = "failed", ![r].wl = "finished"],
           Emit("Job", [Transition(JobOf(r), r, "none", "none") EXCEPT !.bad = TRUE]), Observation
    PROVE  CInv'
<1> DEFINE s == Transition(JobOf(r), r, "none", "none")
           t == [s EXCEPT !.bad = TRUE]
<1>0. /\ "none" \in Types \cup {"none"} /\ "none" \in Reasons /\ "Job" \in Kinds
      /\ r \in Rows \cup {"stray"} /\ JobOf(r) \in Uids /\ KindOf(JobOf(r)) = "Job"
  BY RowFields DEF Types, Reasons, Kinds
<1>1. s \in Transitions /\ s.uid = JobOf(r) /\ s.type = "none"
  BY <1>0, TransitionIs
<1>4. Emit("Job", t)
  OBVIOUS
<1> HIDE DEF s
<1>5. t \in Transitions /\ t.uid = JobOf(r) /\ t.type = "none"
  BY <1>1, VariantIs
<1>2. Changes(row, row', r) /\ row'[r] = [row[r] EXCEPT !.job = "failed", !.wl = "finished"]
  <2>1. row' = [row EXCEPT ![r].job = "failed", ![r].wl = "finished"]
    OBVIOUS
  <2> HIDE DEF t
  <2>2. row[r] \in RowStates /\ row \in [Rows -> RowStates]
    BY RowFields
  <2> QED BY Zenon, <2>1, <2>2, FinishedRow
<1>3. row'[r].job = "failed" /\ row'[r].wl = "finished" /\ row'[r].pod = row[r].pod /\ row'[r].n = row[r].n
  BY <1>2, RowFields DEF RowStates
<1> HIDE DEF t
<1>6. Send("Job", t) /\ happened' = happened /\ ~Named(t)
  BY <1>4, <1>5 DEF Emit, Named
<1>7. RowOK(happened, r, row'[r])
  BY <1>3, RowFields DEF RowOK
<1>8. RowsOK(happened, row') /\ row' \in [Rows -> RowStates]
  <2>1. Changes(row, row', r) /\ RowsOK(happened, row)
    BY <1>2 DEF CInv
  <2> QED BY <1>7, <2>1, RowsKeep DEF Changes
<1>9. Spares(Told(happened, row), Told(happened, row'), "Job", t)
  BY <1>2, <1>3, QuietRow
<1> QED BY <1>0, <1>5, <1>6, <1>8, <1>9, SendKeeps

(* A Job ends in one way or the other.                                     *)
LEMMA EndJobKeeps ==
    ASSUME CInv, NEW r \in Rows, EndJob(r) PROVE CInv'
<1>1. CASE /\ row' = [row EXCEPT ![r].job = "complete", ![r].wl = "finished"]
           /\ Emit("Job", Transition(<<"Job", r>>, r, "Completed", "Complete"))
  BY <1>1, CompleteKeeps DEF EndJob, JobOf
<1>2. CASE /\ row' = [row EXCEPT ![r].job = "failed", ![r].wl = "finished"]
           /\ Emit("Job", [Transition(<<"Job", r>>, r, "none", "none") EXCEPT !.bad = TRUE])
  BY <1>2, FailKeeps DEF EndJob, JobOf
<1> QED BY <1>1, <1>2 DEF EndJob

(* An eviction other than the study's: the history does not tell of it, and *)
(* what is sent condemns the ledger.                                       *)
LEMMA EvictOtherwiseKeeps ==
    ASSUME CInv, NEW r \in Rows, EvictOtherwise(r) PROVE CInv'
<1> DEFINE s == Transition(WorkloadOf(r), r, "none", "none")
           t == [s EXCEPT !.bad = TRUE]
<1>0. /\ "none" \in Types \cup {"none"} /\ "none" \in Reasons /\ "Workload" \in Kinds
      /\ r \in Rows \cup {"stray"} /\ WorkloadOf(r) \in Uids /\ KindOf(WorkloadOf(r)) = "Workload"
  BY RowFields DEF Types, Reasons, Kinds
<1>1. s \in Transitions /\ s.uid = WorkloadOf(r) /\ s.type = "none"
  BY <1>0, TransitionIs
<1>4. Emit("Workload", t) /\ Observation /\ row' = [row EXCEPT ![r].wl = "evicted"]
  BY DEF EvictOtherwise, WorkloadOf
<1> HIDE DEF s
<1>5. t \in Transitions /\ t.uid = WorkloadOf(r) /\ t.type = "none" /\ t.bad
  BY <1>1, VariantIs
<1>2. Changes(row, row', r) /\ row'[r] = [row[r] EXCEPT !.wl = "evicted"]
  <2>1. [row[r] EXCEPT !.wl = "evicted"] \in RowStates
    BY RowFields DEF RowStates
  <2>2. row' = [row EXCEPT ![r] = [row[r] EXCEPT !.wl = "evicted"]]
    BY <1>4
  <2> QED BY <2>1, <2>2, RowBecomes
<1>3. row'[r].job = row[r].job /\ row'[r].wl = "evicted" /\ row'[r].pod = row[r].pod /\ row'[r].n = row[r].n
  BY <1>2, RowFields DEF RowStates
<1> HIDE DEF t
<1>6. Send("Workload", t) /\ happened' = happened /\ ~Named(t)
  BY <1>4, <1>5 DEF Emit, Named
<1>7. RowOK(happened, r, row'[r])
  BY <1>3, RowFields DEF RowOK
<1>8. RowsOK(happened, row') /\ row' \in [Rows -> RowStates]
  <2>1. Changes(row, row', r) /\ RowsOK(happened, row)
    BY <1>2 DEF CInv
  <2> QED BY <1>7, <2>1, RowsKeep DEF Changes
<1>9. Spares(Told(happened, row), Told(happened, row'), "Workload", t)
  <2> SUFFICES ASSUME NEW u \in Told(happened, row), u \notin Told(happened, row')
               PROVE  KindOf(u) = "Workload" /\ t.bad
    BY DEF Spares
  <2>1. PICK q \in Rows : u = <<"Workload", q>>
    BY DEF Told, WorkloadOf
  <2> QED BY <1>5, <2>1 DEF KindOf
<1> QED BY <1>0, <1>4, <1>5, <1>6, <1>8, <1>9, SendKeeps

(* Somebody else's Pod is no event of the run's.                           *)
LEMMA StrayAppearsKeeps ==
    ASSUME CInv, StrayAppears PROVE CInv'
<1> DEFINE t == Transition(Stray, "stray", "PodReady", "Ready")
<1>0. "PodReady" \in Types /\ "Ready" \in Reasons /\ "Pod" \in Kinds /\ "stray" \in Rows \cup {"stray"}
  BY DEF Types, Reasons, Kinds
<1>1. Stray \in Uids /\ KindOf(Stray) = "Pod"
  BY DEF Stray, Uids, KindOf
<1>2. t \in Transitions /\ t.uid = Stray
  <2>1. PICK z : z = "stray"
    OBVIOUS
  <2>2. z \in Rows \cup {"stray"} /\ t = Transition(Stray, z, "PodReady", "Ready")
    BY <2>1
  <2>3. PICK y \in Types \cup {"none"} : y = "PodReady"
    BY <1>0
  <2>4. t = Transition(Stray, z, y, "Ready")
    BY <2>2, <2>3
  <2> HIDE DEF t
  <2> QED BY <1>0, <1>1, <2>2, <2>4, TransitionIs
<1>3. Send("Pod", t) /\ happened' = happened /\ row' = row /\ Observation
  BY DEF StrayAppears, cluster
<1> HIDE DEF t
<1>4. ~Named(t)
  BY <1>2 DEF Named
<1>5. row' \in [Rows -> RowStates] /\ RowsOK(happened, row') /\ Spares(Told(happened, row), Told(happened, row'), "Pod", t)
  BY <1>3 DEF CInv, Spares
<1> QED BY <1>0, <1>1, <1>2, <1>3, <1>4, <1>5, SendKeeps

(* The last event is told again.                                           *)
LEMMA RepeatLastKeeps ==
    ASSUME CInv, RepeatLast PROVE CInv'
<1> DEFINE t == Last(happened)
<1>1. happened \in Seq(Transitions) /\ happened # <<>>
  BY DEF CInv, RepeatLast
<1>2. t = happened[Len(happened)] /\ Len(happened) \in DOMAIN happened /\ t \in Transitions
  BY <1>1 DEF Last
<1>3. KindOf(t.uid) \in Kinds
  BY <1>2 DEF Transitions, Uids, KindOf, Kinds
<1>4. Send(KindOf(t.uid), t) /\ happened' = happened /\ row' = row /\ Observation
  BY DEF RepeatLast, cluster
<1> HIDE DEF t
<1>5. Latest(happened, t)
  <2>1. Nth(happened, Len(happened)) = Recorded(happened, t.uid)
    <3>1. 1..Len(happened) = DOMAIN happened
      BY <1>1
    <3> QED BY <1>2, <3>1 DEF Nth, Recorded, Kindred
  <2> QED BY <1>2, <2>1 DEF Latest, Matched
<1>6. /\ row' \in [Rows -> RowStates] /\ RowsOK(happened, row')
      /\ Spares(Told(happened, row), Told(happened, row'), KindOf(t.uid), t)
  BY <1>4 DEF CInv, Spares
<1> QED BY <1>2, <1>3, <1>4, <1>5, <1>6, SendKeeps

------------------------------------------------------------------------------
(* What the collector does, action by action.                              *)

(* What the invariant says of the collector, unfolded.                     *)
LEMMA CollectorFacts ==
    ASSUME CInv
    PROVE  /\ horizon \in Int /\ horizon \in {-1} \cup Nat /\ Opens(stream) \in SUBSET Kinds
           /\ happened \in Seq(Transitions) /\ ledger \in Seq(Entries) /\ invalid \in BOOLEAN
           /\ pending \in Seq(Observed) /\ queue \in [Kinds -> Seq(Transitions)] /\ Kinded(queue)
           /\ Kept(horizon, Opens(stream), Told(happened, row), happened, ledger, invalid, pending, queue)
           /\ elapsed \in Nat /\ 1 <= elapsed /\ Past(horizon, ledger, pending, elapsed)
<1>1. horizon \in {-1} \cup Nat /\ pending \in Seq(Observed) /\ ledger \in Seq(Entries)
  BY DEF CInv
<1>2. elapsed \in Nat /\ 1 <= elapsed /\ Past(horizon, ledger, pending, elapsed)
  BY <1>1, ElapsedIsPast
<1>3. horizon \in Int /\ Opens(stream) \in SUBSET Kinds
  BY <1>1 DEF Opens
<1> QED BY <1>1, <1>2, <1>3 DEF CInv

(* What may be attributed holds nothing of a stray Pod.                    *)
LEMMA ResolvedIsOurs ==
    ASSUME CInv, NEW objs, ResolveTraceJobs(objs)
    PROVE  Stray \notin objs
<1>1. Submitted \subseteq Rows
  <2>1. next \in 1..(Len(Schedule) + 1) /\ Schedule \in Seq({OwnRow, VictimRow, OwnerRow})
    BY ScheduleAssumption DEF CInv
  <2>2. \A i \in 1..(next - 1) : i \in DOMAIN Schedule
    BY <2>1
  <2> QED BY <2>2 DEF Submitted, Rows, Range
<1> QED BY <1>1, RowsAre DEF ResolveTraceJobs, Stray

(* A stream's head becomes pending at an instant past all that was.        *)
LEMMA HeadPends ==
    ASSUME CInv, NEW k \in Opens(stream), NEW Q, Leaves(queue, Q, k), NEW p, Pends(pending, queue, k, elapsed, p)
    PROVE  p \in Seq(Observed) /\ Kept(horizon, Opens(stream), Told(happened, row), happened, ledger, invalid, p, Q)
<1> DEFINE O == Opens(stream)
           E == Told(happened, row)
           a == elapsed
<1>1. /\ horizon \in Int /\ happened \in Seq(Transitions) /\ ledger \in Seq(Entries) /\ invalid \in BOOLEAN
      /\ pending \in Seq(Observed) /\ queue \in [Kinds -> Seq(Transitions)] /\ Kinded(queue)
      /\ a \in Nat /\ Past(horizon, ledger, pending, a)
      /\ Kept(horizon, O, E, happened, ledger, invalid, pending, queue) /\ O \in SUBSET Kinds /\ k \in O
      /\ Pends(pending, queue, k, a, p)
  BY CollectorFacts
<1> HIDE DEF O, E, a
<1>2. p \in Seq(Observed) /\ Kept(horizon, O, E, happened, ledger, invalid, p, Q)
  BY ZenonT(60), <1>1, KeptTakes
<1> QED BY <1>2 DEF O, E

(* A stream's head that tells the builder nothing is dropped; past the     *)
(* deadline any may be.                                                    *)
LEMMA HeadSkips ==
    ASSUME CInv, NEW k \in Kinds, queue[k] # <<>>, NEW Q, Leaves(queue, Q, k), Idle(horizon, queue, k)
    PROVE  Kept(horizon, Opens(stream), Told(happened, row), happened, ledger, invalid, pending, Q)
<1> DEFINE O == Opens(stream)
           E == Told(happened, row)
<1>1. /\ horizon \in Int /\ happened \in Seq(Transitions) /\ ledger \in Seq(Entries) /\ invalid \in BOOLEAN
      /\ pending \in Seq(Observed) /\ queue \in [Kinds -> Seq(Transitions)] /\ Kinded(queue)
      /\ Kept(horizon, O, E, happened, ledger, invalid, pending, queue) /\ O \in SUBSET Kinds
  BY CollectorFacts
<1> HIDE DEF O, E
<1>2. Kept(horizon, O, E, happened, ledger, invalid, pending, Q)
  BY ZenonT(60), <1>1, KeptSkips
<1> QED BY <1>2 DEF O, E

(* What handle takes from the stream is kept, pending or not,              *)
LEMMA HandleTakes ==
    ASSUME CInv, NEW k \in Kinds, handle(k),
           NEW t, t = Head(queue[k]),
           NEW p, p = IF t.type # "none" \/ t.bad \/ t.delta = "Delete"
                        THEN Append(pending, Stamped(t, elapsed)) ELSE pending
    PROVE  /\ t \in Transitions /\ p \in Seq(Observed)
           /\ \A i \in DOMAIN p : p[i].uid \in cache \cup {t.uid}
           /\ queue' \in [Kinds -> Seq(Transitions)] /\ Kinded(queue')
           /\ Kept(horizon, Opens(stream), Told(happened, row), happened, ledger, invalid, p, queue')
<1>1. /\ stream[k] = "open" /\ queue[k] # <<>> /\ queue' = [queue EXCEPT ![k] = Tail(@)]
      /\ k \in Opens(stream)
  BY DEF handle, Opens
<1>2. queue' \in [Kinds -> Seq(Transitions)] /\ Kinded(queue') /\ Leaves(queue, queue', k)
  BY <1>1, TailKeepsQueues, CollectorFacts
<1>3. queue[k] \in Seq(Transitions) /\ t = queue[k][1] /\ t \in Transitions
  BY <1>1, CollectorFacts
<1>4. \A i \in DOMAIN pending : pending[i].uid \in cache
  BY DEF CInv
<1> DEFINE O == Opens(stream)
           E == Told(happened, row)
<1>5. Kept(horizon, O, E, happened, ledger, invalid, pending, queue) /\ O \in SUBSET Kinds /\ k \in O
  BY <1>1, CollectorFacts
<1> HIDE DEF O, E
<1>6. CASE t.type # "none" \/ t.bad \/ t.delta = "Delete"
  <2>1. p = Append(pending, Stamped(t, elapsed))
    BY <1>6
  <2>2. Pends(pending, queue, k, elapsed, p)
    BY <1>1, <2>1 DEF Pends
  <2>3. p \in Seq(Observed) /\ Kept(horizon, O, E, happened, ledger, invalid, p, queue')
    BY <1>1, <1>2, <1>5, <2>2, HeadPends DEF O, E
  <2>4. \A i \in DOMAIN p : (i \in DOMAIN pending /\ p[i] = pending[i]) \/ p[i] = Stamped(t, elapsed)
    BY <2>1, CollectorFacts
  <2>5. Stamped(t, elapsed).uid = t.uid
    BY DEF Stamped
  <2> QED BY <1>2, <1>3, <1>4, <2>3, <2>4, <2>5 DEF O, E
<1>7. CASE ~(t.type # "none" \/ t.bad \/ t.delta = "Delete")
  <2>1. p = pending
    BY <1>7
  <2>2. Idle(horizon, queue, k)
    BY <1>3, <1>7 DEF Named, Idle
  <2>3. Kept(horizon, O, E, happened, ledger, invalid, pending, queue')
    BY <1>1, <1>2, <2>2, HeadSkips DEF O, E
  <2> QED BY <1>2, <1>3, <1>4, <2>1, <2>3, CollectorFacts DEF O, E
<1> QED BY <1>6, <1>7

(* and so is what it attributes, once every object handled leads to a row. *)
LEMMA HandleKeeps ==
    ASSUME CInv, NEW k \in Kinds, handle(k) PROVE CInv'
<1> DEFINE t == Head(queue[k])
           p == IF t.type # "none" \/ t.bad \/ t.delta = "Delete"
                  THEN Append(pending, Stamped(t, elapsed)) ELSE pending
           objs == cache \cup {t.uid}
           f == flush(p, objs)
<1>1. cache' = objs /\ pending' = f.kept /\ ledger' = f.b.ledger /\ invalid' = f.b.invalid
  BY DEF handle
<1>2. UNCHANGED <<next, creating, row, happened, stream, horizon>>
  BY DEF handle, cluster
<1>3. /\ t \in Transitions /\ p \in Seq(Observed)
      /\ \A i \in DOMAIN p : p[i].uid \in objs
      /\ queue' \in [Kinds -> Seq(Transitions)] /\ Kinded(queue')
      /\ Kept(horizon, Opens(stream), Told(happened, row), happened, ledger, invalid, p, queue')
  BY HandleTakes
<1> HIDE DEF t, p, objs
<1>4. CASE ~ResolveTraceJobs(objs)
  <2>1. pending' = p /\ ledger' = ledger /\ invalid' = invalid
    BY <1>1, <1>4 DEF flush
  <2> QED BY <1>1, <1>2, <1>3, <2>1 DEF CInv
<1>5. CASE ResolveTraceJobs(objs)
  <2> DEFINE d == [ledger |-> ledger, invalid |-> invalid]
             b == Built(d, p)[Len(p)]
  <2>1. pending' = <<>> /\ ledger' = b.ledger /\ invalid' = b.invalid
    BY <1>1, <1>5 DEF flush
  <2>2. Flushes(ledger, invalid, p, b)
    BY DEF Flushes
  <2> HIDE DEF d, b
  <2>3. NoStray(p)
    BY <1>3, <1>5, ResolvedIsOurs DEF NoStray
  <2> DEFINE O == Opens(stream)
             E == Told(happened, row)
  <2>4. Kept(horizon, O, E, happened, ledger, invalid, p, queue') /\ O \in SUBSET Kinds
    BY <1>3, CollectorFacts
  <2> HIDE DEF O, E
  <2>5. b.ledger \in Seq(Entries) /\ b.invalid \in BOOLEAN
        /\ Kept(horizon, O, E, happened, b.ledger, b.invalid, <<>>, queue')
    <3>1. /\ horizon \in Int /\ happened \in Seq(Transitions) /\ ledger \in Seq(Entries) /\ invalid \in BOOLEAN
      BY CollectorFacts
    <3> QED BY SMTT(60), <1>3, <2>2, <2>3, <2>4, <3>1, KeptFlushes
  <2>6. Kept(horizon, Opens(stream), Told(happened, row), happened, ledger', invalid', pending', queue')
    BY <2>1, <2>5 DEF O, E
  <2>7. pending' \in Seq(Observed) /\ \A i \in DOMAIN pending' : pending'[i].uid \in cache'
    BY <2>1
  <2> QED BY <1>2, <1>3, <2>1, <2>5, <2>6, <2>7 DEF CInv
<1> QED BY <1>4, <1>5

(* What forward drops, it drops past the deadline.                         *)
LEMMA ForwardDropsKeeps ==
    ASSUME CInv, NEW k \in Kinds, forwardDrops(k) PROVE CInv'
<1>1. /\ queue[k] # <<>> /\ horizon # -1 /\ queue' = [queue EXCEPT ![k] = Tail(@)]
      /\ UNCHANGED <<next, creating, row, happened, cache, stream, pending, ledger, invalid, horizon>>
  BY DEF forwardDrops, cluster, builder
<1>2. queue' \in [Kinds -> Seq(Transitions)] /\ Kinded(queue') /\ Leaves(queue, queue', k)
  BY <1>1, TailKeepsQueues, CollectorFacts
<1>3. Idle(horizon, queue, k)
  BY <1>1 DEF Idle
<1>4. Kept(horizon, Opens(stream), Told(happened, row), happened, ledger, invalid, pending, queue')
  BY <1>1, <1>2, <1>3, HeadSkips
<1> QED BY <1>1, <1>2, <1>4 DEF CInv

(* A stream breaks or ends, the ledger is given up or the deadline passes. *)
Lessens == /\ UNCHANGED <<next, creating, row, happened, queue, cache, pending, ledger>>
           /\ Opens(stream') \subseteq Opens(stream)
           /\ invalid' \in BOOLEAN /\ (invalid => invalid')
           /\ horizon' = horizon \/ (horizon = -1 /\ horizon' \in Nat)

(* Then what is kept is, still.                                            *)
LEMMA LessIsKept ==
    ASSUME CInv, UNCHANGED <<next, creating, row, happened, queue, cache, pending, ledger>>,
           Opens(stream') \subseteq Opens(stream), invalid' \in BOOLEAN, invalid => invalid',
           horizon' = horizon \/ (horizon = -1 /\ horizon' \in Nat)
    PROVE  CInv'
<1> DEFINE O == Opens(stream)
           P == Opens(stream')
           E == Told(happened, row)
<1>1. Kept(horizon, O, E, happened, ledger, invalid, pending, queue) /\ P \subseteq O
  BY CollectorFacts
<1>2. horizon' = horizon \/ (horizon = -1 /\ horizon' # -1)
  OBVIOUS
<1> HIDE DEF O, P, E
<1>3. Kept(horizon', P, E, happened, ledger, invalid', pending, queue)
  BY <1>1, <1>2, KeptWeakens
<1>4. Kept(horizon', Opens(stream'), Told(happened, row), happened, ledger, invalid', pending, queue)
  BY <1>3 DEF P, E
<1>5. horizon' \in {-1} \cup Nat
  BY DEF CInv
<1> QED BY <1>4, <1>5 DEF CInv

(* A stream breaks, ends, stalls or is waited for: less is asked,          *)
LEMMA StreamStepLessens ==
    ASSUME CInv, NEW k \in Kinds, BreakStream(k) \/ endStream(k) \/ Stall(k) \/ wait
    PROVE  Lessens
<1>0. invalid \in BOOLEAN
  BY CollectorFacts
<1>1. CASE BreakStream(k)
  <2>1. /\ UNCHANGED <<next, creating, row, happened, queue, cache, pending, ledger, invalid, horizon>>
        /\ \E how \in {"lost", "lostStatus"} : stream' = [stream EXCEPT ![k] = how]
    BY <1>1 DEF BreakStream, cluster, builder
  <2>2. Opens(stream') \subseteq Opens(stream)
    <3> SUFFICES ASSUME NEW l \in Kinds, stream'[l] = "open", stream[l] # "open" PROVE FALSE
      BY DEF Opens
    <3>1. PICK how \in {"lost", "lostStatus"} : stream' = [stream EXCEPT ![k] = how]
      BY <2>1
    <3> QED BY <3>1
  <2> QED BY <1>0, <2>1, <2>2 DEF Lessens
<1>2. CASE endStream(k)
  <2> DEFINE condemned == stream[k] = "lostStatus" \/ horizon = -1
  <2>1. /\ UNCHANGED <<next, creating, row, happened, queue, cache, pending, ledger, horizon>>
        /\ stream' = [stream EXCEPT ![k] = IF condemned THEN "condemned" ELSE "ended"]
        /\ invalid' = (invalid \/ condemned)
    BY <1>2 DEF endStream, cluster
  <2>2. Opens(stream') \subseteq Opens(stream)
    <3> HIDE DEF condemned
    <3> SUFFICES ASSUME NEW l \in Kinds, stream'[l] = "open", stream[l] # "open" PROVE FALSE
      BY DEF Opens
    <3> QED BY <2>1
  <2>3. invalid' \in BOOLEAN /\ (invalid => invalid')
    BY <1>0, <2>1
  <2> QED BY <2>1, <2>2, <2>3 DEF Lessens
<1>3. CASE Stall(k)
  <2>1. UNCHANGED <<next, creating, row, happened, queue, cache, stream, pending, ledger, invalid, horizon>>
    BY <1>3 DEF Stall, cluster, builder
  <2>2. Opens(stream') \subseteq Opens(stream)
    BY <2>1
  <2> QED BY <1>0, <2>1, <2>2 DEF Lessens
<1>4. CASE wait
  <2>1. /\ UNCHANGED <<next, creating, row, happened, queue, cache, pending, ledger, invalid, horizon>>
        /\ stream' = [l \in Kinds |-> IF stream[l] = "open" THEN "ended" ELSE stream[l]]
    BY <1>4 DEF wait, cluster, builder
  <2>2. Opens(stream') \subseteq Opens(stream)
    BY <2>1 DEF Opens
  <2> QED BY <1>0, <2>1, <2>2 DEF Lessens
<1> QED BY <1>1, <1>2, <1>3, <1>4

(* and so when a barrier holds or the deadline passes.                     *)
LEMMA ScheduleStepLessens ==
    ASSUME CInv, waitBarrier \/ PassDeadline \/ BarrierTimesOut PROVE Lessens
<1>0. invalid \in BOOLEAN /\ elapsed - 1 \in Nat
  BY CollectorFacts
<1>1. CASE waitBarrier
  <2>1. UNCHANGED <<next, creating, row, happened, queue, cache, stream, pending, ledger, invalid, horizon>>
    BY <1>1 DEF waitBarrier, cluster, builder
  <2> QED BY <1>0, <2>1 DEF Lessens
<1>3. CASE PassDeadline
  <2>1. /\ UNCHANGED <<next, creating, row, happened, queue, cache, stream, pending, ledger, invalid>>
        /\ horizon = -1 /\ horizon' = elapsed - 1
    BY <1>3 DEF PassDeadline, cluster, builder
  <2> QED BY <1>0, <2>1 DEF Lessens
<1>4. CASE BarrierTimesOut
  <2>1. /\ UNCHANGED <<next, creating, row, happened, queue, cache, stream, pending, ledger>>
        /\ horizon = -1 /\ horizon' = elapsed - 1 /\ invalid' = TRUE
    BY <1>4 DEF BarrierTimesOut, cluster
  <2> QED BY <1>0, <2>1 DEF Lessens
<1> QED BY <1>1, <1>3, <1>4

(* What is kept stays when a stream breaks, ends, stalls or is waited for, *)
LEMMA StreamStepKeeps ==
    ASSUME CInv, NEW k \in Kinds, BreakStream(k) \/ endStream(k) \/ Stall(k) \/ wait
    PROVE  CInv'
BY StreamStepLessens, LessIsKept DEF Lessens

(* a barrier holds, a row is about to be submitted, the deadline passes.   *)
LEMMA ScheduleStepKeeps ==
    ASSUME CInv, waitBarrier \/ SubmitRow \/ PassDeadline \/ BarrierTimesOut PROVE CInv'
<1>1. CASE SubmitRow
  <2>1. /\ UNCHANGED <<next, row, happened, queue, cache, stream, pending, ledger, invalid, horizon>>
        /\ creating' = TRUE /\ next <= Len(Schedule)
    BY <1>1 DEF SubmitRow, cluster, builder
  <2> QED BY <2>1 DEF CInv
<1> QED BY <1>1, ScheduleStepLessens, LessIsKept DEF Lessens

(* A row's submission is recorded.                                         *)
LEMMA SubmitObservedKeeps ==
    ASSUME CInv, submitObserved PROVE CInv'
<1>1. /\ UNCHANGED <<row, happened, queue, cache, stream, pending, invalid, horizon>>
      /\ creating /\ creating' = FALSE /\ next' = next + 1
      /\ ledger' = IF invalid THEN ledger
                   ELSE Append(ledger, [type |-> "Submitted", job |-> Schedule[next],
                                        uid |-> <<"MLTrainingJob", Schedule[next]>>,
                                        at |-> elapsed, reason |-> "none"])
  BY DEF submitObserved, cluster
<1>2. next' \in 1..(Len(Schedule) + 1) /\ next \in DOMAIN Schedule /\ Schedule[next] \in Rows
  <2>1. next \in 1..(Len(Schedule) + 1) /\ next <= Len(Schedule) /\ Schedule \in Seq({OwnRow, VictimRow, OwnerRow})
    BY <1>1, ScheduleAssumption DEF CInv
  <2> QED BY <1>1, <2>1 DEF Rows, Range
<1>3. CASE invalid
  BY <1>1, <1>2, <1>3 DEF CInv
<1>4. CASE ~invalid
  <2> DEFINE e == [type |-> "Submitted", job |-> Schedule[next], uid |-> <<"MLTrainingJob", Schedule[next]>>,
                   at |-> elapsed, reason |-> "none"]
  <2>1. ledger' = Append(ledger, e)
    BY <1>1, <1>4
  <2>2. e \in Entries /\ e.type = "Submitted"
    BY <1>2, CollectorFacts DEF Entries
  <2> HIDE DEF e
  <2> DEFINE O == Opens(stream)
             E == Told(happened, row)
             M == Append(ledger, e)
  <2>3. Kept(horizon, O, E, happened, ledger, invalid, pending, queue) /\ O \subseteq Kinds
    BY CollectorFacts
  <2> HIDE DEF O, E
  <2>4. Kept(horizon, O, E, happened, M, invalid, pending, queue)
    <3>1. /\ happened \in Seq(Transitions) /\ ledger \in Seq(Entries)
          /\ pending \in Seq(Observed) /\ Kinded(queue)
      BY CollectorFacts
    <3> QED BY Zenon, <2>2, <2>3, <3>1, KeptSubmits
  <2>5. Kept(horizon, Opens(stream), Told(happened, row), happened, ledger', invalid, pending, queue)
    BY <2>1, <2>4 DEF O, E
  <2>6. ledger' \in Seq(Entries)
    BY <2>1, <2>2, CollectorFacts
  <2> QED BY <1>1, <1>2, <2>5, <2>6 DEF CInv
<1> QED BY <1>3, <1>4

------------------------------------------------------------------------------
(* The invariant of the observation holds in every state of a lab run.     *)

(* Nothing has happened and nothing is known.                              *)
LEMMA FirstKept ==
    ASSUME NEW que, que = [k \in Kinds |-> <<>>], NEW rw, rw = [r \in Rows |-> NoObjects],
           NEW O \in SUBSET Kinds, NEW h, h = -1, NEW v, v = FALSE, NEW nil, nil = <<>>
    PROVE  /\ nil \in Seq(Transitions) /\ nil \in Seq(Observed) /\ nil \in Seq(Entries)
           /\ DOMAIN nil = {} /\ h \in {-1} \cup Nat /\ v \in BOOLEAN /\ rw \in [Rows -> RowStates] /\ RowsOK(nil, rw)
           /\ que \in [Kinds -> Seq(Transitions)] /\ Kinded(que)
           /\ Kept(h, O, Told(nil, rw), nil, nil, v, nil, que)
<1>1. NoObjects \in RowStates /\ NoObjects.job = "none" /\ NoObjects.wl = "none" /\ NoObjects.pod = "none"
  BY DEF NoObjects, RowStates
<1>2. rw \in [Rows -> RowStates] /\ \A r \in Rows : rw[r] = NoObjects
  BY <1>1
<1>3. \A u : Recorded(<<>>, u) = 0
  <2>2. \A u : Kindred(<<>>, u) = {}
    BY DEF Kindred
  <2> QED BY <2>2, FS_EmptySet DEF Recorded
<1>4. RowsOK(<<>>, rw)
  BY <1>1, <1>2, <1>3 DEF RowsOK, RowOK
<1>5. que \in [Kinds -> Seq(Transitions)] /\ Kinded(que) /\ \A k \in Kinds : que[k] = <<>>
  BY DEF Kinded
<1>6. Told(<<>>, rw) = Uids
  BY <1>1, <1>2 DEF Told
<1>7. Chain(-1, O, Uids, <<>>, <<>>, FALSE, <<>>, 0, <<>>, que, que)
  <2> DEFINE z == <<>>
  <2>1. z \in Seq(Nat) /\ Len(z) = 0 /\ DOMAIN z = {} /\ 1..0 = {} /\ \A u : Recorded(z, u) = 0
    BY <1>3
  <2>2. \A k \in Kinds : que[k] = z
    BY <1>5
  <2> HIDE DEF z
  <2>3. LedgerOK(-1, z, z)
    BY <2>1 DEF LedgerOK
  <2>4. PenOK(-1, z, z, FALSE, z, 0, z)
    BY <2>1 DEF PenOK
  <2>5. QueOK(-1, O, z, z, FALSE, z, 0, z, que, que)
    BY <2>1, <2>2 DEF QueOK
  <2>6. AllOK(-1, O, Uids, z, z, FALSE, z, 0, z, que, que)
    <3>1. \A u, r : Fresh(z, u, r)
      BY <2>1 DEF Fresh
    <3>2. \A r \in Nat : ~(0 < r /\ r <= 0)
      OBVIOUS
    <3> QED BY <2>1, <3>1, <3>2 DEF AllOK
  <2>7. RankOK(z, z, z, que, que)
    BY <2>1, <2>2 DEF RankOK
  <2>8. AtOK(z, z, 0)
    BY <2>1 DEF AtOK
  <2>9. Chain(-1, O, Uids, z, z, FALSE, z, 0, z, que, que)
    BY <2>3, <2>4, <2>5, <2>6, <2>7, <2>8 DEF Chain
  <2> QED BY <2>9 DEF z
<1>8. Kept(-1, O, Told(<<>>, rw), <<>>, <<>>, FALSE, <<>>, que)
  BY <1>6, <1>7 DEF Kept
<1>9. <<>> \in Seq(Transitions) /\ <<>> \in Seq(Observed) /\ <<>> \in Seq(Entries) /\ DOMAIN <<>> = {}
  OBVIOUS
<1> QED BY <1>2, <1>4, <1>5, <1>8, <1>9

(* The run starts with nothing told,                                       *)
LEMMA InitEstablishesC == Init => CInv
<1> SUFFICES ASSUME Init PROVE CInv
  OBVIOUS
<1>1. /\ next = 1 /\ creating = FALSE /\ row = [r \in Rows |-> NoObjects] /\ happened = <<>>
      /\ queue = [k \in Kinds |-> <<>>] /\ pending = <<>> /\ ledger = <<>> /\ invalid = FALSE /\ horizon = -1
  BY DEF Init, CInit
<1>2. Opens(stream) \in SUBSET Kinds /\ next \in 1..(Len(Schedule) + 1)
  BY <1>1, ScheduleAssumption DEF Opens
<1>3. /\ row \in [Rows -> RowStates] /\ RowsOK(happened, row)
      /\ queue \in [Kinds -> Seq(Transitions)] /\ Kinded(queue)
      /\ happened \in Seq(Transitions) /\ pending \in Seq(Observed) /\ ledger \in Seq(Entries)
      /\ DOMAIN pending = {} /\ horizon \in {-1} \cup Nat /\ invalid \in BOOLEAN
  BY <1>1, <1>2, FirstKept
<1>4. Kept(horizon, Opens(stream), Told(happened, row), happened, ledger, invalid, pending, queue)
  BY <1>1, <1>2, FirstKept
<1> QED BY <1>1, <1>2, <1>3, <1>4 DEF CInv

(* and drops the collector the same way.                                   *)
LEMMA ForgetKeeps ==
    ASSUME Forget PROVE CInv'
<1>1. /\ next' = 1 /\ creating' = FALSE /\ row' = [r \in Rows |-> NoObjects] /\ happened' = <<>>
      /\ queue' = [k \in Kinds |-> <<>>] /\ pending' = <<>> /\ ledger' = <<>> /\ invalid' = FALSE /\ horizon' = -1
  BY DEF Forget
<1>2. Opens(stream') \in SUBSET Kinds /\ next' \in 1..(Len(Schedule) + 1)
  BY <1>1, ScheduleAssumption DEF Opens
<1>3. /\ row' \in [Rows -> RowStates] /\ RowsOK(happened', row')
      /\ queue' \in [Kinds -> Seq(Transitions)] /\ Kinded(queue')
      /\ happened' \in Seq(Transitions) /\ pending' \in Seq(Observed) /\ ledger' \in Seq(Entries)
      /\ DOMAIN pending' = {} /\ horizon' \in {-1} \cup Nat /\ invalid' \in BOOLEAN
  BY <1>1, <1>2, FirstKept
<1>4. Kept(horizon', Opens(stream'), Told(happened', row'), happened', ledger', invalid', pending', queue')
  BY <1>1, <1>2, FirstKept
<1> QED BY <1>1, <1>2, <1>3, <1>4 DEF CInv

(* Every step of the observation keeps the invariant of the collector,     *)
LEMMA ObservationKeeps ==
    ASSUME CInv, Observing PROVE CInv'
<1>1. CASE ClusterStep
  <2>1. ASSUME NEW r \in Rows, CreateJob(r) \/ EndJob(r) PROVE CInv'
    BY <2>1, CreateJobKeeps, EndJobKeeps
  <2>2. ASSUME NEW r \in Rows, Admit(r) \/ ReplacePod(r) \/ BecomeReady(r) \/ DeletePod(r) \/ EvictOtherwise(r)
        PROVE  CInv'
    BY <2>2, AdmitKeeps, ReplacePodKeeps, BecomeReadyKeeps, DeletePodKeeps, EvictOtherwiseKeeps
  <2>3. ASSUME NEW r \in Rows, NEW phase \in {"Succeeded", "Failed"}, StopPod(r, phase) PROVE CInv'
    BY <2>3, StopPodKeeps
  <2>4. CASE Preempt \/ StrayAppears \/ RepeatLast
    BY <2>4, PreemptKeeps, StrayAppearsKeeps, RepeatLastKeeps
  <2> QED BY <1>1, <2>1, <2>2, <2>3, <2>4 DEF ClusterStep, ControllerStep
<1>2. ASSUME NEW k \in Kinds, handle(k) \/ forwardDrops(k) \/ Stall(k) \/ BreakStream(k) \/ endStream(k) \/ wait
      PROVE  CInv'
  BY <1>2, HandleKeeps, ForwardDropsKeeps, StreamStepKeeps
<1>3. CASE waitBarrier \/ SubmitRow \/ submitObserved \/ PassDeadline \/ BarrierTimesOut
  BY <1>3, ScheduleStepKeeps, SubmitObservedKeeps
<1>4. "Job" \in Kinds
  BY DEF Kinds
<1> QED BY <1>1, <1>2, <1>3, <1>4 DEF Observing

(* and so does every step of the run.                                      *)
LEMMA CInvHolds == Spec => []CInv
<1>1. ASSUME CInv, [Next]_vars PROVE CInv'
  <2>1. CASE UNCHANGED <<next, creating, row, happened, queue, cache, stream, pending, ledger, invalid, horizon>>
    BY <1>1, <2>1 DEF CInv
  <2>2. CASE UNCHANGED vars \/ canaryRuns \/ acquireWorker \/ startOwnershipSentinel \/ qualifyWorker \/ setUp
             \/ startCollector \/ tearingDown \/ tearDownBeforeRelease \/ auditedRelease \/ finish \/ report
    <3>1. UNCHANGED cvars
      BY <2>2 DEF vars, canaryRuns, acquireWorker, startOwnershipSentinel, qualifyWorker, setUp,
                  startCollector, tearingDown, tearDownBeforeRelease, auditedRelease, finish, report
    <3> QED BY <2>1, <3>1 DEF cvars
  <2>3. CASE connect \/ Diverges
    BY <2>1, <2>3 DEF connect, Diverges, cluster, builder
  <2>4. CASE observing
    BY <1>1, <2>4, ObservationKeeps DEF observing
  <2>5. CASE Interrupted \/ SubmitFails \/ judge
    BY <2>5, ForgetKeeps DEF Interrupted, SubmitFails, judge
  <2> QED BY <1>1, <2>2, <2>3, <2>4, <2>5 DEF Next
<1> QED BY <1>1, InitEstablishesC, PTL DEF Spec

(* Up to the deadline, the ledger holds of each object the beginning of what *)
(* happened to it, for every schedule and every bound on lag and faults: the *)
(* attribution that waits for a parent, repeated deliveries and the order of *)
(* the streams leave no hole (flush, LedgerBuilder.Observe).               *)
THEOREM LedgersHaveNoHole == Spec => []LedgerHasNoHole
<1>1. CInv => LedgerHasNoHole
  <2> SUFFICES ASSUME CInv PROVE LedgerHasNoHole
    OBVIOUS
  <2>1. LedgerOK(horizon, happened, ledger)
    BY DEF CInv, Kept, Chain
  <2> QED BY <2>1 DEF LedgerOK, InWindow, LedgerHasNoHole
<1> QED BY <1>1, CInvHolds, PTL

(* Each recorded event has its instant.                                    *)
LEMMA LedgerInstants ==
    ASSUME CInv PROVE ledger \in Seq(Entries) /\ Instantaneous(ledger)
<1>1. ledger \in Seq(Entries)
  BY CollectorFacts
<1>2. \A i \in DOMAIN ledger : ledger[i] \in Entries
  BY <1>1
<1> QED BY <1>1, <1>2, EntriesAre DEF Instantaneous

(* A ledger that reconstructs counts no more preemptions of a row than it  *)
(* has attempts.                                                           *)
LEMMA PreemptionsAreFew ==
    ASSUME CInv, ~ReconstructRefuses(ledger, Rows, horizon), NEW r \in Rows
    PROVE  Cardinality(Of(ledger, r, "Preempted", horizon)) <= Len(attemptsInStartOrder(ledger, r, horizon))
<1> DEFINE P == Of(ledger, r, "Preempted", horizon)
           A == attemptsInStartOrder(ledger, r, horizon)
<1>1. ledger \in Seq(Entries) /\ Instantaneous(ledger)
  BY LedgerInstants
<1>2. ~(Cardinality(P) > Len(A))
  <2>1. ~chargeRefuses(ledger, r, horizon)
    BY DEF ReconstructRefuses
  <2> QED BY Zenon, <2>1 DEF chargeRefuses
<1>3. Cardinality(P) \in Nat
  <2>1. P \subseteq 1..Len(ledger) /\ Len(ledger) \in Nat
    BY <1>1 DEF Of
  <2>2. IsFiniteSet(1..Len(ledger))
    BY <2>1, FS_Interval
  <2> HIDE DEF P
  <2>3. IsFiniteSet(P)
    BY <2>1, <2>2, FS_Subset
  <2> QED BY <2>3, FS_CardinalityType
<1>4. Len(A) \in Nat
  <2>1. A \in Seq(Attempts(ledger, r, horizon))
    BY <1>1, StartOrderIs
  <2> HIDE DEF A
  <2> QED BY <2>1
<1> HIDE DEF P, A
<1>5. Cardinality(P) <= Len(A)
  BY <1>2, <1>3, <1>4
<1> QED BY <1>5 DEF P, A

(* The books of a ledger that reconstructs add up, row by row.             *)
LEMMA RowAddsUp ==
    ASSUME CInv, ~ReconstructRefuses(ledger, Rows, horizon), NEW r \in Rows
    PROVE  LET o == WorkloadOutcome(ledger, r, horizon)
           IN /\ 0 <= o.wasted /\ o.wasted <= o.lowerBound /\ 0 <= o.unattributed
              /\ o.lowerBound + o.unattributed <= o.occupancy
<1>1. horizon \in Int /\ ledger \in Seq(Entries) /\ Instantaneous(ledger)
  BY CollectorFacts, LedgerInstants
<1> QED BY <1>1, PreemptionsAreFew, ChargesAddUp

(* Nor does what is handled revive a ledger that is invalid.               *)
LEMMA HandleStaysInvalid ==
    ASSUME CInv, NEW k \in Kinds, handle(k), invalid = TRUE PROVE invalid' = TRUE
<1> DEFINE t == Head(queue[k])
           p == IF t.type # "none" \/ t.bad \/ t.delta = "Delete"
                  THEN Append(pending, Stamped(t, elapsed)) ELSE pending
           objs == cache \cup {t.uid}
           f == flush(p, objs)
           b == [ledger |-> ledger, invalid |-> TRUE]
<1>1. invalid' = f.b.invalid
  BY DEF handle
<1>2. p \in Seq(Observed)
  BY HandleTakes
<1> HIDE DEF t, p
<1>3. Built(b, p)[Len(p)] = b
  BY <1>2, BuiltStaysInvalid
<1>4. f.b = b
  BY <1>3 DEF flush
<1> QED BY <1>1, <1>4

=============================================================================
