---------------------------- MODULE GatewayProofs ----------------------------
(***************************************************************************)
(* Proofs about the parts of the gateway: the tenant limiter, the static    *)
(* cap, the process, one request and the KV-pressure guard, for any number  *)
(* of requests, policies, clients, backends, seconds and samples.           *)
(***************************************************************************)
EXTENDS KVGuard, RateLimit, StaticCap, GatewayProcess, GatewayRequest,
        FiniteSetTheorems, WellFoundedInduction, TLAPS

-----------------------------------------------------------------------------
(* The bucket.                                                             *)

Limiters == [limit : Nat, burst : Nat, tokens : Nat]

(* A new limiter is full.                                                  *)
LEMMA NewLimiterFacts ==
    ASSUME NEW limit \in Nat, NEW burst \in Nat
    PROVE  /\ NewLimiter(limit, burst) \in Limiters
           /\ NewLimiter(limit, burst).tokens = Sixtieths * burst
  BY DEF NewLimiter, Limiters, Sixtieths

(* A change of rate keeps the tokens, a change of burst adds none.         *)
LEMMA ResetFacts ==
    ASSUME NEW l \in Limiters, NEW v \in Nat
    PROVE  /\ SetLimit(l, v) \in Limiters /\ SetLimit(l, v).tokens = l.tokens
           /\ SetBurst(l, v) \in Limiters /\ SetBurst(l, v).tokens <= l.tokens
  <1>1. l.tokens \in Nat /\ Sixtieths * v \in Nat
    BY DEF Limiters, Sixtieths
  <1>2. Least(l.tokens, Sixtieths * v) \in Nat /\ Least(l.tokens, Sixtieths * v) <= l.tokens
    BY <1>1 DEF Least
  <1> HIDE DEF Least
  <1> QED BY <1>1, <1>2 DEF SetLimit, SetBurst, Limiters

(* A grant that fits leaves no debt.                                       *)
LEMMA SpendFacts ==
    ASSUME NEW l \in Limiters, NEW n \in Nat, Allows(l, n)
    PROVE  /\ Spend(l, n) \in Limiters
           /\ Spend(l, n).tokens = l.tokens - Sixtieths * n
  <1>1. l.tokens \in Nat /\ Sixtieths * n \in Nat /\ Sixtieths * n <= l.tokens
    BY DEF Limiters, Sixtieths, Allows
  <1>2. l.tokens - Sixtieths * n \in Nat
    BY <1>1
  <1> QED BY <1>2 DEF Spend, Limiters

(* A refill that happens adds what it says.                                *)
LEMMA RefillFacts ==
    ASSUME NEW l \in Limiters, RefillOf(l) > 0
    PROVE  /\ RefillOf(l) \in Nat
           /\ Refill(l) \in Limiters
           /\ Refill(l).tokens = l.tokens + RefillOf(l)
           /\ Refill(l).tokens <= Sixtieths * l.burst
  <1>1. l.limit \in Nat /\ l.burst \in Nat /\ l.tokens \in Nat
    BY DEF Limiters
  <1>2. RefillOf(l) \in Nat /\ RefillOf(l) <= Sixtieths * l.burst - l.tokens
    BY <1>1 DEF RefillOf, Least, Sixtieths
  <1>3. l.tokens + RefillOf(l) \in Nat
    BY <1>1, <1>2
  <1> HIDE DEF RefillOf
  <1>4. Refill(l) \in Limiters /\ Refill(l).tokens = l.tokens + RefillOf(l)
    BY <1>3 DEF Refill, Limiters
  <1> QED BY <1>1, <1>2, <1>4 DEF Sixtieths

-----------------------------------------------------------------------------
(* RateLimit: what has been granted and not refilled, and what is still in   *)
(* the bucket, are together no more than the first burst.                   *)

Buckets == [limiter : Limiters, rpm : Nat, burst : Nat]

LimitType ==
    /\ policies \in [Policies -> RateLimits \cup {Unlimited, Absent}]
    /\ handler \in [Requests -> [pc : {"idle", "look", "refresh", "allow"},
                             rl : RateLimits \cup {Unlimited}]]
    /\ bucket \in Buckets \cup {NoBucket}
    /\ net \in Int /\ first \in Nat

(* A handler past its look at the bucket has a limit, and there is a bucket. *)
HandlersOK ==
    \A r \in Requests :
        handler[r].pc \in {"refresh", "allow"} => handler[r].rl \in RateLimits /\ bucket \in Buckets

BudgetOK ==
    /\ bucket = NoBucket => net = 0 /\ first = 0
    /\ bucket \in Buckets => net + bucket.limiter.tokens <= Sixtieths * first

LimitInv == LimitType /\ HandlersOK /\ BudgetOK

(* NoBucket is not a bucket.                                               *)
LEMMA NoBucketIsNone == NoBucket \notin Buckets
  BY DEF NoBucket, Buckets

(* What reading a rate limit gives.                                        *)
LEMMA RateLimitFields ==
    ASSUME NEW rl \in RateLimits
    PROVE  rl.rpm \in Nat /\ rl.burst \in Nat /\ PerSecond(rl) \in Nat
  BY RateLimitAssumption DEF PerSecond

(* The oldest policy is one that exists.                                   *)
LEMMA GoverningPolicyExists ==
    ASSUME LimitType, NEW p \in PolicyForTenant
    PROVE  policies[p] \in RateLimits \cup {Unlimited}
  BY DEF LimitType, PolicyForTenant

(* The inductive step: an action moves one handler, one policy or the clock. *)
LEMMA LimitInvKept ==
    ASSUME LimitInv, [LimitNext]_limitVars
    PROVE  LimitInv'
  <1> USE DEF LimitInv
  <1>1. ASSUME NEW p \in Policies, EditPolicy(p) PROVE LimitInv'
    BY <1>1 DEF EditPolicy, LimitType, HandlersOK, BudgetOK
  <1>2. ASSUME NEW r \in Requests, ReadPolicy(r) PROVE LimitInv'
    <2>1. PICK p \in PolicyForTenant :
              handler' = [handler EXCEPT ![r] = [pc |-> "look", rl |-> policies[p]]]
      BY <1>2 DEF ReadPolicy
    <2>2. policies[p] \in RateLimits \cup {Unlimited}
      BY <2>1, GoverningPolicyExists
    <2> QED BY <1>2, <2>1, <2>2 DEF ReadPolicy, LimitType, HandlersOK, BudgetOK
  <1>3. ASSUME NEW r \in Requests, AllowUnlimited(r) PROVE LimitInv'
    BY <1>3 DEF AllowUnlimited, LimitType, HandlersOK, BudgetOK, Idle
  <1>4. ASSUME NEW r \in Requests, BuildBucket(r) PROVE LimitInv'
    <2>1. handler[r].rl \in RateLimits
      BY <1>4 DEF BuildBucket, LimitType
    <2> DEFINE l == NewLimiter(PerSecond(handler[r].rl), handler[r].rl.burst)
    <2>2. l \in Limiters /\ l.tokens = Sixtieths * handler[r].rl.burst
      BY <2>1, RateLimitFields, NewLimiterFacts
    <2>3. bucket' = [limiter |-> l, rpm |-> handler[r].rl.rpm, burst |-> handler[r].rl.burst]
      BY <1>4 DEF BuildBucket
    <2> HIDE DEF l
    <2>4. bucket' \in Buckets /\ bucket'.limiter = l
      BY <2>1, <2>2, <2>3, RateLimitFields DEF Buckets
    <2>5. net' = 0 /\ first' = handler[r].rl.burst /\ first' \in Nat
      BY <1>4, <2>1, RateLimitFields DEF BuildBucket, BudgetOK
    <2>6. LimitType'
      BY <1>4, <2>4, <2>5 DEF BuildBucket, LimitType
    <2>7. HandlersOK'
      BY <1>4, <2>1, <2>4 DEF BuildBucket, LimitType, HandlersOK
    <2>8. BudgetOK'
      BY <2>2, <2>4, <2>5, NoBucketIsNone DEF BudgetOK, Sixtieths
    <2> QED BY <2>6, <2>7, <2>8
  <1>5. ASSUME NEW r \in Requests, FindBucket(r) PROVE LimitInv'
    BY <1>5 DEF FindBucket, LimitType, HandlersOK, BudgetOK
  <1>6. ASSUME NEW r \in Requests, RefreshRate(r) PROVE LimitInv'
    <2>1. handler[r].rl \in RateLimits /\ bucket \in Buckets
      BY <1>6 DEF RefreshRate, LimitType
    <2> DEFINE l == SetLimit(bucket.limiter, PerSecond(handler[r].rl))
    <2>2. l \in Limiters /\ l.tokens = bucket.limiter.tokens
      BY <2>1, RateLimitFields, ResetFacts DEF Buckets
    <2>3. bucket' = [bucket EXCEPT !.limiter = l]
      BY <1>6 DEF RefreshRate
    <2> HIDE DEF l
    <2>4. bucket' \in Buckets /\ bucket'.limiter = l
      BY <2>1, <2>2, <2>3 DEF Buckets
    <2>6. LimitType'
      BY <1>6, <2>4 DEF RefreshRate, LimitType
    <2>7. HandlersOK'
      BY <1>6, <2>1, <2>4 DEF RefreshRate, LimitType, HandlersOK
    <2>8. BudgetOK'
      BY <1>6, <2>1, <2>2, <2>4, NoBucketIsNone DEF RefreshRate, BudgetOK
    <2> QED BY <2>6, <2>7, <2>8
  <1>7. ASSUME NEW r \in Requests, RefreshBurst(r) PROVE LimitInv'
    <2>1. handler[r].rl \in RateLimits /\ bucket \in Buckets
      BY <1>7 DEF RefreshBurst, HandlersOK
    <2> DEFINE l == SetBurst(bucket.limiter, handler[r].rl.burst)
    <2>2. l \in Limiters /\ l.tokens <= bucket.limiter.tokens
      BY <2>1, RateLimitFields, ResetFacts DEF Buckets
    <2>3. bucket' = [limiter |-> l, rpm |-> handler[r].rl.rpm, burst |-> handler[r].rl.burst]
      BY <1>7 DEF RefreshBurst
    <2> HIDE DEF l
    <2>4. bucket' \in Buckets /\ bucket'.limiter = l
      BY <2>1, <2>2, <2>3, RateLimitFields DEF Buckets
    <2>6. LimitType'
      BY <1>7, <2>4 DEF RefreshBurst, LimitType
    <2>7. HandlersOK'
      BY <1>7, <2>1, <2>4 DEF RefreshBurst, LimitType, HandlersOK
    <2>8. l.tokens \in Int /\ bucket.limiter.tokens \in Int /\ net \in Int
          /\ Sixtieths * first \in Int
      BY <2>1, <2>2 DEF Buckets, Limiters, LimitType, Sixtieths
    <2>9. BudgetOK'
      BY <1>7, <2>1, <2>2, <2>4, <2>8, NoBucketIsNone DEF RefreshBurst, BudgetOK
    <2> QED BY <2>6, <2>7, <2>9
  <1>8. ASSUME NEW r \in Requests, Allow(r) PROVE LimitInv'
    <2>1. bucket \in Buckets /\ bucket.limiter \in Limiters
      BY <1>8 DEF Allow, HandlersOK, Buckets
    <2>2. CASE Allows(bucket.limiter, 1)
      <3> DEFINE l == Spend(bucket.limiter, 1)
      <3>1. l \in Limiters /\ l.tokens = bucket.limiter.tokens - Sixtieths * 1
        BY <2>1, <2>2, SpendFacts
      <3>2. bucket' = [bucket EXCEPT !.limiter = l] /\ net' = net + Sixtieths
        BY <1>8, <2>2 DEF Allow
      <3> HIDE DEF l
      <3>3. bucket' \in Buckets /\ bucket'.limiter = l
        BY <2>1, <3>1, <3>2 DEF Buckets
      <3>4. LimitType'
        BY <1>8, <3>2, <3>3 DEF Allow, LimitType, Idle, Sixtieths
      <3>5. HandlersOK'
        BY <1>8, <3>3 DEF Allow, LimitType, HandlersOK, Idle
      <3>6. l.tokens \in Int /\ bucket.limiter.tokens \in Int /\ net \in Int
            /\ Sixtieths * first \in Int
        BY <2>1, <3>1 DEF Limiters, LimitType, Sixtieths
      <3>7. BudgetOK'
        BY <1>8, <2>1, <3>1, <3>2, <3>3, <3>6, NoBucketIsNone DEF Allow, BudgetOK, Sixtieths
      <3> QED BY <3>4, <3>5, <3>7
    <2>3. CASE ~Allows(bucket.limiter, 1)
      BY <1>8, <2>3 DEF Allow, LimitType, HandlersOK, BudgetOK, Idle
    <2> QED BY <2>2, <2>3
  <1>9. CASE Tick
    <2>1. bucket \in Buckets /\ bucket.limiter \in Limiters
      BY <1>9 DEF Tick, LimitType, Buckets
    <2> DEFINE l == Refill(bucket.limiter)
               n == RefillOf(bucket.limiter)
    <2>2. n \in Nat /\ l \in Limiters /\ l.tokens = bucket.limiter.tokens + n
      BY <1>9, <2>1, RefillFacts DEF Tick
    <2>3. bucket' = [bucket EXCEPT !.limiter = l] /\ net' = net - n
      BY <1>9 DEF Tick
    <2> HIDE DEF l, n
    <2>4. bucket' \in Buckets /\ bucket'.limiter = l
      BY <2>1, <2>2, <2>3 DEF Buckets
    <2>5. LimitType'
      BY <1>9, <2>2, <2>3, <2>4 DEF Tick, LimitType
    <2>6. HandlersOK'
      BY <1>9, <2>4 DEF Tick, HandlersOK
    <2>7. l.tokens \in Int /\ bucket.limiter.tokens \in Int /\ net \in Int
          /\ Sixtieths * first \in Int
      BY <2>1, <2>2 DEF Limiters, LimitType, Sixtieths
    <2>8. BudgetOK'
      BY <1>9, <2>1, <2>2, <2>3, <2>4, <2>7, NoBucketIsNone DEF Tick, BudgetOK
    <2> QED BY <2>5, <2>6, <2>8
  <1>10. CASE UNCHANGED limitVars
    BY <1>10 DEF limitVars, LimitType, HandlersOK, BudgetOK, PolicyForTenant
  <1> QED BY <1>1, <1>2, <1>3, <1>4, <1>5, <1>6, <1>7, <1>8, <1>9, <1>10 DEF LimitNext

(* Nothing has been granted before the first bucket.                       *)
LEMMA LimitInvHolds == LimitSpec => []LimitInv
  <1>1. LimitInit => LimitInv
    BY NoBucketIsNone DEF LimitInit, LimitInv, LimitType, HandlersOK, BudgetOK, Idle
  <1>2. LimitInv /\ [LimitNext]_limitVars => LimitInv'
    BY LimitInvKept
  <1> QED BY <1>1, <1>2, PTL DEF LimitSpec

(* ratelimit.go:121, 153-155: through any mix of edits, stale reads and      *)
(* concurrent refreshes, a tenant is granted its first burst and what has   *)
(* been refilled, never more.                                              *)
THEOREM EditsGrantNothing == LimitSpec => []NoFreeBurst
  <1>1. LimitInv => NoFreeBurst
    <2> SUFFICES ASSUME LimitInv PROVE NoFreeBurst
      OBVIOUS
    <2>1. CASE bucket = NoBucket
      BY <2>1 DEF LimitInv, BudgetOK, NoFreeBurst, Sixtieths
    <2>2. CASE bucket \in Buckets
      <3>1. bucket.limiter.tokens \in Nat /\ net \in Int /\ Sixtieths * first \in Int
        BY <2>2 DEF LimitInv, LimitType, Buckets, Limiters, Sixtieths
      <3> QED BY <2>2, <3>1 DEF LimitInv, BudgetOK, NoFreeBurst
    <2> QED BY <2>1, <2>2 DEF LimitInv, LimitType
  <1> QED BY <1>1, LimitInvHolds, PTL

(* A set of natural numbers that is not empty has a least element.          *)
LEMMA NatHasLeast ==
    ASSUME NEW T \in SUBSET Nat, T # {}
    PROVE  \E x \in T : \A y \in T : x <= y
  <1> DEFINE R == {ss \in Nat \X Nat : ss[1] < ss[2]}
  <1>1. IsWellFoundedOn(R, Nat)
    BY NatLessThanWellFounded DEF OpToRel
  <1>2. PICK x \in T : \A y \in T : ~(<<y, x>> \in R)
    <2> HIDE DEF R
    <2> QED BY <1>1, WFMin
  <1>3. ASSUME NEW y \in T PROVE x <= y
    <2>1. x \in Nat /\ y \in Nat /\ ~(y < x)
      BY <1>2
    <2> QED BY <2>1
  <1> QED BY <1>3

(* Among policies that exist there is one that is older than every other:  *)
(* the first by name of those created first.                               *)
LEMMA OldestExists ==
    ASSUME NEW E \in SUBSET Policies, E # {}
    PROVE  \E p \in E : \A q \in E \ {p} : OlderPolicy(p, q)
  <1> DEFINE early == {Created[p] : p \in E}
  <1>1. /\ \A p \in E : Created[p] \in Nat /\ Rank[p] \in Nat
        /\ \A p, q \in E : p # q => Rank[p] # Rank[q]
    BY RateLimitAssumption
  <1>2. early \in SUBSET Nat /\ early # {}
    BY <1>1
  <1>3. PICK c \in early : \A d \in early : c <= d
    <2> HIDE DEF early
    <2> QED BY <1>2, NatHasLeast
  <1> DEFINE F == {p \in E : Created[p] = c}
             names == {Rank[p] : p \in F}
  <1>4. names \in SUBSET Nat /\ names # {}
    BY <1>1, <1>3
  <1>5. PICK n \in names : \A m \in names : n <= m
    <2> HIDE DEF names
    <2> QED BY <1>4, NatHasLeast
  <1>6. PICK p \in F : Rank[p] = n
    BY <1>5
  <1>7. ASSUME NEW q \in E, q # p PROVE OlderPolicy(p, q)
    <2>1. Created[p] = c /\ c <= Created[q] /\ Created[q] \in Nat /\ c \in Nat
      BY <1>1, <1>2, <1>3, <1>6
    <2>2. Created[q] = c => Rank[p] < Rank[q]
      <3>1. Created[q] = c => n <= Rank[q]
        BY <1>5
      <3>2. Rank[p] # Rank[q] /\ Rank[p] \in Nat /\ Rank[q] \in Nat
        BY <1>1, <1>6, <1>7
      <3> QED BY <1>6, <3>1, <3>2
    <2> QED BY <2>1, <2>2 DEF OlderPolicy
  <1> QED BY <1>6, <1>7

(* ratelimit.go:37-41: whatever the number of policies that target the     *)
(* tenant, at most one governs it, and one does whenever any exists        *)
(* (policyForTenant, olderPolicy).                                         *)
THEOREM OnePolicyIsChosen == LimitSpec => []OnePolicyGoverns
  <1>1. OnePolicyGoverns
    <2> DEFINE E == {p \in Policies : policies[p] # Absent}
    <2>1. PolicyForTenant = {p \in E : \A q \in E \ {p} : OlderPolicy(p, q)}
      BY DEF PolicyForTenant
    <2>2. ASSUME NEW p \in PolicyForTenant, NEW q \in PolicyForTenant, p # q PROVE FALSE
      <3>1. OlderPolicy(p, q) /\ OlderPolicy(q, p) /\ p \in Policies /\ q \in Policies
        BY <2>1, <2>2
      <3>2. Created[p] \in Nat /\ Created[q] \in Nat /\ Rank[p] \in Nat /\ Rank[q] \in Nat
        BY <3>1, RateLimitAssumption
      <3> QED BY <3>1, <3>2 DEF OlderPolicy
    <2>3. PolicyForTenant = {} \/ \E p : PolicyForTenant = {p}
      BY <2>2
    <2>4. Cardinality(PolicyForTenant) <= 1
      <3>1. Cardinality(PolicyForTenant) \in {0, 1}
        BY Zenon, <2>3, FS_EmptySet, FS_Singleton
      <3> QED BY <3>1
    <2>5. E # {} => PolicyForTenant # {}
      BY <2>1, OldestExists
    <2> QED BY <2>4, <2>5 DEF OnePolicyGoverns
  <1> QED BY <1>1, PTL

-----------------------------------------------------------------------------
(* StaticCap: the bucket and what it has granted are one burst.            *)

CapType ==
    /\ client \in [Clients -> {"asking", "metered", "answered"}]
    /\ limiter \in Limiters \cup {NoLimiter}
    /\ capNet \in Int

(* Before the first eligible request nothing is granted; from then on the    *)
(* account is exact, whoever built the bucket.                             *)
AccountOK ==
    /\ limiter = NoLimiter =>
          /\ capNet = 0
          /\ \A c \in Clients : client[c] # "metered"
    /\ limiter \in Limiters => capNet + limiter.tokens = Sixtieths * Burst

CapInv == CapType /\ AccountOK

(* NoLimiter is not a limiter.                                             *)
LEMMA NoLimiterIsNone == NoLimiter \notin Limiters
  BY DEF NoLimiter, Limiters

(* Only building, granting and the clock touch the account.                *)
LEMMA CapInvKept ==
    ASSUME CapInv, [CapNext]_capVars
    PROVE  CapInv'
  <1> USE DEF CapInv
  <1>1. ASSUME NEW c \in Clients, AdmitUnmetered(c) PROVE CapInv'
    BY <1>1 DEF AdmitUnmetered, Answered, CapType, AccountOK
  <1>2. ASSUME NEW c \in Clients, RefuseForGood(c) PROVE CapInv'
    BY <1>2 DEF RefuseForGood, Answered, CapType, AccountOK
  <1>3. ASSUME NEW c \in Clients, LimiterFor(c) PROVE CapInv'
    <2>1. client' \in [Clients -> {"asking", "metered", "answered"}] /\ capNet' = capNet
      BY <1>3 DEF LimiterFor, CapType
    <2>2. CASE limiter = NoLimiter
      <3> DEFINE l == NewLimiter(Sixtieths * Rate, Burst)
      <3>1. Sixtieths * Rate \in Nat /\ Burst \in Nat
        BY StaticCapAssumption DEF Sixtieths
      <3>2. l \in Limiters /\ l.tokens = Sixtieths * Burst
        BY <3>1, NewLimiterFacts
      <3>3. limiter' = l /\ capNet = 0
        BY <1>3, <2>2 DEF LimiterFor, AccountOK
      <3> HIDE DEF l
      <3>4. Sixtieths * Burst \in Int
        BY <3>1 DEF Sixtieths
      <3> QED BY <2>1, <3>2, <3>3, <3>4, NoLimiterIsNone DEF CapType, AccountOK
    <2>3. CASE limiter \in Limiters
      BY <1>3, <2>1, <2>3, NoLimiterIsNone DEF LimiterFor, CapType, AccountOK
    <2> QED BY <2>2, <2>3 DEF CapType
  <1>4. ASSUME NEW c \in Clients, AllowN(c) PROVE CapInv'
    <2>1. limiter \in Limiters
      BY <1>4 DEF AllowN, CapType, AccountOK
    <2>2. client' \in [Clients -> {"asking", "metered", "answered"}]
      BY <1>4 DEF AllowN, Answered, CapType
    <2>3. CASE Allows(limiter, Size[c])
      <3>1. Size[c] \in Nat
        BY StaticCapAssumption
      <3> DEFINE l == Spend(limiter, Size[c])
      <3>2. l \in Limiters /\ l.tokens = limiter.tokens - Sixtieths * Size[c]
        BY <2>1, <2>3, <3>1, SpendFacts
      <3>3. limiter' = l /\ capNet' = capNet + Sixtieths * Size[c]
        BY <1>4, <2>3 DEF AllowN
      <3> HIDE DEF l
      <3>4. /\ Sixtieths * Size[c] \in Int /\ limiter.tokens \in Int
            /\ capNet \in Int
        BY <2>1, <3>1 DEF Limiters, CapType, Sixtieths
      <3>5. capNet' + limiter'.tokens = Sixtieths * Burst /\ capNet' \in Int
        BY <2>1, <3>2, <3>3, <3>4 DEF AccountOK
      <3> QED BY <2>2, <3>2, <3>3, <3>5, NoLimiterIsNone DEF CapType, AccountOK
    <2>4. CASE ~Allows(limiter, Size[c])
      BY <1>4, <2>1, <2>2, <2>4, NoLimiterIsNone DEF AllowN, CapType, AccountOK
    <2> QED BY <2>3, <2>4
  <1>5. ASSUME NEW c \in Clients, Again(c) PROVE CapInv'
    BY <1>5 DEF Again, CapType, AccountOK
  <1>6. CASE CapTick
    <2>1. limiter \in Limiters
      BY <1>6 DEF CapTick, CapType
    <2> DEFINE l == Refill(limiter)
               n == RefillOf(limiter)
    <2>2. n \in Nat /\ l \in Limiters /\ l.tokens = limiter.tokens + n
      BY <1>6, <2>1, RefillFacts DEF CapTick
    <2>3. limiter' = l /\ capNet' = capNet - n /\ client' = client
      BY <1>6 DEF CapTick
    <2> HIDE DEF l, n
    <2>4. limiter.tokens \in Int /\ capNet \in Int
      BY <2>1 DEF Limiters, CapType
    <2>5. capNet' + limiter'.tokens = Sixtieths * Burst /\ capNet' \in Int
      BY <2>1, <2>2, <2>3, <2>4 DEF AccountOK
    <2> QED BY <2>1, <2>2, <2>3, <2>5, NoLimiterIsNone DEF CapType, AccountOK
  <1>7. CASE UNCHANGED capVars
    BY <1>7 DEF capVars, CapType, AccountOK
  <1> QED BY <1>1, <1>2, <1>3, <1>4, <1>5, <1>6, <1>7 DEF CapNext, Handle

(* admission.go:228-240: whoever races to build the backend's bucket, the    *)
(* tokens admitted are at most one burst and what has been refilled.        *)
THEOREM CapIsACap == CapSpec => []CapHolds
  <1>1. ASSUME CapInit PROVE CapInv
    <2>1. limiter = NoLimiter /\ capNet = 0 /\ client = [c \in Clients |-> "asking"]
      BY <1>1 DEF CapInit
    <2>2. CapType
      BY <2>1 DEF CapType
    <2>3. AccountOK
      BY <2>1, NoLimiterIsNone DEF AccountOK
    <2> QED BY <2>2, <2>3 DEF CapInv
  <1>2. CapInv /\ [CapNext]_capVars => CapInv'
    BY CapInvKept
  <1>3. CapInv => CapHolds
    <2> SUFFICES ASSUME CapInv PROVE CapHolds
      OBVIOUS
    <2>1. Sixtieths * Burst \in Nat
      BY StaticCapAssumption DEF Sixtieths
    <2>2. CASE limiter = NoLimiter
      BY <2>1, <2>2 DEF CapInv, AccountOK, CapHolds
    <2>3. CASE limiter \in Limiters
      <3>1. limiter.tokens \in Nat /\ capNet \in Int
        BY <2>3 DEF CapInv, CapType, Limiters
      <3> QED BY <2>1, <2>3, <3>1 DEF CapInv, AccountOK, CapHolds
    <2> QED BY <2>2, <2>3 DEF CapInv, CapType
  <1> QED BY <1>1, <1>2, <1>3, PTL DEF CapSpec

-----------------------------------------------------------------------------
(* GatewayProcess: how far the shutdown has come tells what is still open.   *)

ShutdownOK ==
    /\ shut \in Steps
    /\ shut # "waiting" => signalled /\ "metrics" \notin listening
    /\ shut \in {"apiShutdown", "stopAdmitter", "done"} <=> "api" \notin listening
    /\ shut \in {"stopAdmitter", "done"} => api = {} \/ deadline
    /\ ~scrapers => shut = "done"
    /\ deadline => shut # "waiting"
    /\ failed => ~alive
    /\ ~alive => api = {} /\ probes = {}

(* Every step of main, of the shutdown goroutine and of the world.          *)
LEMMA ShutdownKept ==
    ASSUME ShutdownOK, [ProcNext]_procVars
    PROVE  ShutdownOK'
  <1> USE DEF ShutdownOK, Steps
  <1>1. CASE CacheSynced
    BY <1>1 DEF CacheSynced
  <1>2. CASE Signal
    BY <1>2 DEF Signal
  <1>3. ASSUME NEW r \in Calls, Arrive(r) PROVE ShutdownOK'
    BY <1>3 DEF Arrive
  <1>4. ASSUME NEW r \in Calls, Answer(r) PROVE ShutdownOK'
    BY <1>4 DEF Answer
  <1>5. ASSUME NEW p \in Probes, Probe(p) PROVE ShutdownOK'
    BY <1>5 DEF Probe
  <1>6. CASE BeginShutdown
    BY <1>6 DEF BeginShutdown
  <1>7. CASE Deadline
    BY <1>7 DEF Deadline
  <1>8. CASE ShutdownApi
    BY <1>8 DEF ShutdownApi
  <1>9. CASE Drained
    BY <1>9 DEF Drained
  <1>10. CASE StopAdmitter
    BY <1>10 DEF StopAdmitter
  <1>11. CASE MainReturns
    BY <1>11 DEF MainReturns
  <1>12. CASE ServingFails
    BY <1>12 DEF ServingFails
  <1>13. CASE UNCHANGED procVars
    BY <1>13 DEF procVars
  <1> QED BY <1>1, <1>2, <1>3, <1>4, <1>5, <1>6, <1>7, <1>8, <1>9, <1>10, <1>11, <1>12, <1>13
          DEF ProcNext

(* The process starts with both listeners open and nobody shutting down.    *)
LEMMA ShutdownHolds == ProcSpec => []ShutdownOK
  <1>1. ProcInit => ShutdownOK
    BY DEF ProcInit, ShutdownOK, Steps, Servers
  <1>2. ShutdownOK /\ [ProcNext]_procVars => ShutdownOK'
    BY ShutdownKept
  <1> QED BY <1>1, <1>2, PTL DEF ProcSpec

(* main.go:260-261: the scrapers are stopped only when no request is being   *)
(* handled or the deadline has passed.                                     *)
THEOREM GuardOutlives == ProcSpec => []GuardOutlivesRequests
  <1>1. ShutdownOK => GuardOutlivesRequests
    BY DEF ShutdownOK, GuardOutlivesRequests
  <1> QED BY <1>1, ShutdownHolds, PTL

(* main.go:251-253: the readiness endpoint closes before the API does.      *)
THEOREM ReadinessFirst == ProcSpec => []ReadinessGoesFirst
  <1>1. ShutdownOK => ReadinessGoesFirst
    BY DEF ShutdownOK, ReadinessGoesFirst
  <1> QED BY <1>1, ShutdownHolds, PTL

-----------------------------------------------------------------------------
(* GatewayRequest: what each stage of the handler may assume.              *)

Before == {"auth", "policy", "limit", "parse", "route", "admit"}
InLoop == {"attempt", "roundtrip", "streaming", "between"}

(* Nothing has been written to the client.                                 *)
Silent == reply = NoClient /\ ~rec.answered

(* The backend of this attempt answered, and its answer is what went out.   *)
Answering ==
    /\ ~att.failed
    /\ rec.answered /\ rec.code \in Statuses
    /\ received = {targets[i]}
    /\ reply = [status |-> rec.code, writers |-> {targets[i]}, headers |-> {targets[i]}]

(* This attempt failed; only the last one is allowed to say so.            *)
FailedAttempt ==
    /\ att.failed
    /\ received \subseteq {targets[i]}
    /\ att.replayable => received = {}
    /\ lastFailure \in {502, 504}
    /\ att.suppress => Silent
    /\ ~att.suppress =>
          /\ rec.answered /\ rec.code = lastFailure
          /\ reply = [status |-> lastFailure, writers |-> {Gateway}, headers |-> {Gateway}]

MetricsOK == metrics \in [requests : Seq(Nat), upstreamErrors : Nat, fallbacks : Nat]

(* The attempt under way has a target, and only a second one is an advance.  *)
RouteOK ==
    /\ stage \in {"admit", "aborted"} \cup InLoop => Len(targets) >= 1
    /\ stage \in {"aborted"} \cup InLoop => i \in 1..Len(targets)
    /\ advanced => i = 2 /\ stage \notin Before
    /\ stage \in {"roundtrip", "streaming", "between"} => att.suppress = ~FinalAttempt

StageOK ==
    /\ stage # "done" => metrics.requests = <<>> /\ metrics.fallbacks = 0
    /\ stage \in Before \cup {"attempt", "roundtrip"} => Silent /\ received = {}
    /\ stage = "roundtrip" => ~att.failed /\ ~att.wrote /\ att.scratch = {}
    /\ stage \in {"streaming", "aborted"} => Answering
    /\ stage = "between" => Answering \/ FailedAttempt

(* What is left when the handler has returned.                             *)
OutcomeOK ==
    stage = "done" =>
        /\ \E b \in Backends \cup {Gateway} : received \subseteq {b}
        /\ \E w \in Backends \cup {Gateway} :
              \/ reply.writers = {w} /\ reply.headers = {w}
              \/ reply.writers = {} /\ reply.headers = {}
        /\ RecordedSuccessIsReal
        /\ FallbackIsRescue

(* The one upstream error a disconnect may still cause.                    *)
DisconnectOK ==
    cancelled =>
        IF (stage = "between" /\ att.failed) \/ stage = "done"
        THEN metrics.upstreamErrors <= errorsAtCancel + 1
        ELSE metrics.upstreamErrors = errorsAtCancel

ReqInv == ReqTypeOK /\ MetricsOK /\ RouteOK /\ StageOK /\ OutcomeOK /\ DisconnectOK

(* The five stages before admission, and what they answer a request with.   *)
LEMMA PipelineFacts ==
    /\ ToSet(Pipeline) = {"auth", "policy", "limit", "parse", "route"}
    /\ DOMAIN Pipeline = 1..5 /\ Len(Pipeline) = 5
    /\ \A s \in 1..5 : Pipeline[s] \in ToSet(Pipeline)
    /\ \A s \in 1..5 : \A code \in RefusalCodes[Pipeline[s]] : code \in Nat /\ code >= 400
  <1>1. DOMAIN Pipeline = 1..5 /\ Len(Pipeline) = 5
    BY DEF Pipeline
  <1>2. ToSet(Pipeline) = {Pipeline[n] : n \in 1..5}
    BY <1>1 DEF ToSet
  <1>3. /\ Pipeline[1] = "auth" /\ Pipeline[2] = "policy" /\ Pipeline[3] = "limit"
        /\ Pipeline[4] = "parse" /\ Pipeline[5] = "route"
    BY DEF Pipeline
  <1>4. \A s \in 1..5 : s = 1 \/ s = 2 \/ s = 3 \/ s = 4 \/ s = 5
    OBVIOUS
  <1>5. ToSet(Pipeline) = {"auth", "policy", "limit", "parse", "route"}
    BY <1>2, <1>3, <1>4
  <1>6. \A s \in 1..5 : Pipeline[s] \in ToSet(Pipeline)
    BY <1>2
  <1>7. ASSUME NEW s \in 1..5, NEW code \in RefusalCodes[Pipeline[s]]
        PROVE  code \in Nat /\ code >= 400
    <2>1. Pipeline[s] \in {"auth", "policy", "limit", "parse", "route"}
      BY <1>5, <1>6
    <2> QED BY <2>1, <1>7 DEF RefusalCodes
  <1> QED BY <1>1, <1>5, <1>6, <1>7

(* A candidate order is not empty, and its reachable prefix is one or two    *)
(* backends long.                                                          *)
LEMMA ReachablePrefix ==
    ASSUME NEW order \in Candidates
    PROVE  /\ order \in Seq(Backends)
           /\ CapBackendAttempts(order) \in Seq(Backends)
           /\ Len(CapBackendAttempts(order)) >= 1
           /\ Len(CapBackendAttempts(order)) <= maxBackendAttempts
  <1>1. Cardinality(Backends) \in Nat
    BY BackendsAssumption, FS_CardinalityType
  <1>2. PICK n \in 1..Cardinality(Backends) : order \in [1..n -> Backends]
    BY DEF Candidates
  <1>3. n \in Nat /\ n >= 1
    BY <1>1, <1>2
  <1>4. order \in Seq(Backends) /\ Len(order) = n
    BY <1>2, <1>3
  <1> DEFINE k == IF n > maxBackendAttempts THEN maxBackendAttempts ELSE n
  <1>5. k \in 1..n /\ k \in 1..maxBackendAttempts
    BY <1>3 DEF maxBackendAttempts
  <1>6. CapBackendAttempts(order) = SubSeq(order, 1, k)
    BY <1>4 DEF CapBackendAttempts
  <1> HIDE DEF k
  <1>7. SubSeq(order, 1, k) \in Seq(Backends) /\ Len(SubSeq(order, 1, k)) = k
    BY <1>3, <1>4, <1>5
  <1>8. k >= 1 /\ k <= maxBackendAttempts
    BY <1>5 DEF maxBackendAttempts
  <1> QED BY <1>4, <1>6, <1>7, <1>8

(* The first count of a request is the only one.                           *)
LEMMA CountedOnce ==
    ASSUME MetricsOK, metrics.requests = <<>>, NEW code \in Nat
    PROVE  /\ Append(metrics.requests, code) \in Seq(Nat)
           /\ \A n \in DOMAIN Append(metrics.requests, code) :
                 Append(metrics.requests, code)[n] = code
  BY DEF MetricsOK

(* A refusal by any stage before the proxy: one error, in one voice.        *)
LEMMA RefusalKeeps ==
    ASSUME ReqInv, stage \in Before, NEW code \in Nat, code >= 400, Fail(code),
           UNCHANGED <<mode, resolved, targets, proxyVars, cancelVars>>
    PROVE  ReqInv'
  <1>1. metrics.requests = <<>> /\ metrics.fallbacks = 0 /\ received = {}
    BY DEF ReqInv, StageOK, Before
  <1>2. /\ metrics' = [metrics EXCEPT !.requests = Append(@, code)]
        /\ reply' = [status |-> code, writers |-> {Gateway}, headers |-> {Gateway}]
        /\ stage' = "done"
    BY DEF Fail
  <1>3. Append(metrics.requests, code) \in Seq(Nat)
    BY <1>1, CountedOnce DEF ReqInv
  <1>4. MetricsOK' /\ metrics'.upstreamErrors = metrics.upstreamErrors
        /\ metrics'.fallbacks = 0 /\ metrics'.requests = Append(metrics.requests, code)
    BY <1>1, <1>2, <1>3 DEF ReqInv, MetricsOK
  <1>5. ReqTypeOK'
    BY SMTT(30), <1>2, <1>4 DEF ReqInv, ReqTypeOK, MetricsOK, proxyVars, cancelVars
  <1>6. RouteOK'
    BY <1>2 DEF ReqInv, RouteOK, proxyVars, InLoop, Before
  <1>7. StageOK'
    BY <1>2 DEF StageOK, Before
  <1>8. RecordedSuccessIsReal'
    BY <1>1, <1>4, CountedOnce DEF ReqInv, RecordedSuccessIsReal
  <1>9. FallbackIsRescue'
    BY <1>4 DEF FallbackIsRescue
  <1>10. received' = {} /\ reply'.writers = {Gateway} /\ reply'.headers = {Gateway}
    BY <1>1, <1>2 DEF proxyVars
  <1>11. OutcomeOK'
    BY <1>8, <1>9, <1>10 DEF OutcomeOK
  <1>12. DisconnectOK'
    BY <1>2, <1>4 DEF ReqInv, DisconnectOK, ReqTypeOK, cancelVars, Before
  <1> QED BY <1>4, <1>5, <1>6, <1>7, <1>11, <1>12 DEF ReqInv

(* A stage refuses.                                                        *)
LEMMA StageRefusesKeeps ==
    ASSUME ReqInv, NEW s \in DOMAIN Pipeline, StageRefuses(s)
    PROVE  ReqInv'
  <1>1. PICK code \in RefusalCodes[Pipeline[s]] : Fail(code)
    BY DEF StageRefuses
  <1>2. code \in Nat /\ code >= 400
    BY PipelineFacts
  <1>3. stage \in Before
    BY PipelineFacts DEF StageRefuses, Before
  <1> QED BY <1>1, <1>2, <1>3, RefusalKeeps DEF StageRefuses

(* A stage lets the request pass.                                          *)
LEMMA StagePassesKeeps ==
    ASSUME ReqInv, NEW s \in DOMAIN Pipeline, StagePasses(s)
    PROVE  ReqInv'
  <1>1. s \in 1..4 /\ s + 1 \in 1..5
    BY PipelineFacts DEF StagePasses
  <1>2. stage \in ToSet(Pipeline) /\ stage' \in ToSet(Pipeline)
    BY <1>1, PipelineFacts DEF StagePasses
  <1>3. stage \in Before \ {"admit"} /\ stage' \in Before \ {"admit"}
    BY <1>2, PipelineFacts DEF Before
  <1>4. ReqTypeOK'
    BY <1>2 DEF StagePasses, ReqInv, ReqTypeOK, proxyVars, cancelVars
  <1>5. MetricsOK' /\ RouteOK'
    BY <1>3 DEF StagePasses, ReqInv, MetricsOK, RouteOK, Before, InLoop, proxyVars
  <1>6. StageOK'
    BY <1>3 DEF StagePasses, ReqInv, StageOK, Silent, Before, proxyVars
  <1>7. OutcomeOK' /\ DisconnectOK'
    BY <1>3 DEF StagePasses, ReqInv, OutcomeOK, DisconnectOK, Before, cancelVars
  <1> QED BY <1>4, <1>5, <1>6, <1>7 DEF ReqInv

(* Candidates were found.                                                  *)
LEMMA RouteKeeps ==
    ASSUME ReqInv, Route
    PROVE  ReqInv'
  <1>1. PICK order \in Candidates :
            resolved' = order /\ targets' = CapBackendAttempts(order)
    BY DEF Route
  <1>2. /\ resolved' \in Seq(Backends) /\ targets' \in Seq(Backends)
        /\ Len(targets') <= maxBackendAttempts /\ Len(targets') >= 1
    BY <1>1, ReachablePrefix
  <1>3. stage = "route" /\ stage' = "admit"
    BY DEF Route
  <1>5. ReqTypeOK'
    BY <1>2, <1>3 DEF Route, ReqInv, ReqTypeOK, proxyVars, cancelVars
  <1>6. MetricsOK' /\ RouteOK'
    BY <1>2, <1>3 DEF Route, ReqInv, MetricsOK, RouteOK, InLoop, Before, proxyVars
  <1>7. StageOK'
    BY <1>3 DEF Route, ReqInv, StageOK, Silent, Before, proxyVars
  <1>8. OutcomeOK' /\ DisconnectOK'
    BY <1>3 DEF Route, ReqInv, OutcomeOK, DisconnectOK, cancelVars
  <1> QED BY <1>5, <1>6, <1>7, <1>8 DEF ReqInv

(* The admission decision.                                                 *)
LEMMA AdmitKeeps ==
    ASSUME ReqInv, AdmitOrRefuse
    PROVE  ReqInv'
  <1>1. stage = "admit" /\ stage \in Before
    BY DEF AdmitOrRefuse, Before
  <1>2. CASE decision'.admit
    <2>1. stage' = "attempt" /\ i' = 1 /\ metrics' = metrics /\ reply' = reply
      BY <1>2 DEF AdmitOrRefuse
    <2>2. ReqTypeOK'
      BY <2>1 DEF AdmitOrRefuse, ReqInv, ReqTypeOK, cancelVars, maxBackendAttempts
    <2>3. ~advanced
      BY <1>1 DEF ReqInv, RouteOK
    <2>4. Len(targets) \in Nat /\ Len(targets) >= 1
      BY <1>1 DEF ReqInv, RouteOK, ReqTypeOK
    <2>5. MetricsOK' /\ RouteOK'
      BY <2>1, <2>3, <2>4 DEF AdmitOrRefuse, ReqInv, MetricsOK, RouteOK
    <2>6. StageOK'
      BY <1>1, <2>1 DEF AdmitOrRefuse, ReqInv, StageOK, Silent, Before
    <2>7. OutcomeOK' /\ DisconnectOK'
      BY <1>1, <2>1 DEF AdmitOrRefuse, ReqInv, OutcomeOK, DisconnectOK, cancelVars
    <2> QED BY <2>2, <2>5, <2>6, <2>7 DEF ReqInv
  <1>3. CASE ~decision'.admit
    <2> DEFINE code == IF decision'.reason = "input_exceeds_burst" THEN 413 ELSE 429
    <2>1. PICK c : c = code
      OBVIOUS
    <2>2. c \in Nat /\ c >= 400 /\ Fail(c)
      BY <1>3, <2>1 DEF AdmitOrRefuse
    <2>3. UNCHANGED <<mode, resolved, targets, proxyVars, cancelVars>>
      BY <1>3 DEF AdmitOrRefuse, proxyVars, cancelVars
    <2> QED BY <1>1, <2>2, <2>3, RefusalKeeps
  <1> QED BY <1>2, <1>3

Attempts == [suppress : BOOLEAN, failed : BOOLEAN, wrote : BOOLEAN, replayable : BOOLEAN,
             scratch : SUBSET (Backends \cup {Gateway})]

(* An iteration starts with a writer of its own.                           *)
LEMMA StartAttemptKeeps ==
    ASSUME ReqInv, StartAttempt
    PROVE  ReqInv'
  <1>1. stage = "attempt" /\ stage' = "roundtrip" /\ att' = NewAttempt(FinalAttempt)
    BY DEF StartAttempt
  <1>2. /\ att' \in Attempts /\ att'.suppress = ~FinalAttempt
        /\ ~att'.failed /\ ~att'.wrote /\ att'.scratch = {}
    BY <1>1 DEF NewAttempt, FinalAttempt, Attempts
  <1>3. FinalAttempt' = FinalAttempt
    BY DEF StartAttempt, FinalAttempt, pipelineVars
  <1>4. ReqTypeOK'
    BY <1>1, <1>2 DEF StartAttempt, ReqInv, ReqTypeOK, Attempts, pipelineVars, cancelVars
  <1>5. RouteOK'
    <2>1. targets' = targets /\ i' = i /\ advanced' = advanced
      BY DEF StartAttempt, pipelineVars
    <2>2. Len(targets) >= 1 /\ i \in 1..Len(targets)
      BY <1>1 DEF ReqInv, RouteOK, InLoop
    <2> QED BY <1>1, <1>2, <1>3, <2>1, <2>2 DEF ReqInv, RouteOK, Before
  <1>6. MetricsOK' /\ StageOK'
    BY <1>1, <1>2 DEF StartAttempt, ReqInv, MetricsOK, StageOK, Silent, Before
  <1>7. OutcomeOK' /\ DisconnectOK'
    BY <1>1 DEF StartAttempt, ReqInv, OutcomeOK, DisconnectOK, cancelVars
  <1> QED BY <1>4, <1>5, <1>6, <1>7 DEF ReqInv

(* The target of the attempt under way.                                    *)
LEMMA TargetIsBackend ==
    ASSUME ReqInv, stage \in InLoop
    PROVE  targets[i] \in Backends /\ i \in 1..2 /\ (i = 2 => targets[i] = targets[2])
  <1>1. targets \in Seq(Backends) /\ i \in 1..Len(targets) /\ Len(targets) <= 2
    BY DEF ReqInv, ReqTypeOK, RouteOK, maxBackendAttempts
  <1> QED BY <1>1

(* What fails on a dial was not sent.                                        *)
LEMMA FailureFacts ==
    ASSUME NEW f \in Failures
    PROVE  f.code \in {502, 504} /\ f.dialOp \in BOOLEAN /\ (f.dialOp => ~f.sent)
  <1> DEFINE dials  == [sent : {FALSE}, dialOp : {TRUE}, code : {502, 504}]
             others == [sent : BOOLEAN, dialOp : {FALSE}, code : {502, 504}]
  <1>1. Failures = dials \cup others
    BY Zenon DEF Failures
  <1>2. \A x \in dials : x.code \in {502, 504} /\ x.dialOp = TRUE /\ x.sent = FALSE
    BY ZenonT(60)
  <1>3. \A x \in others : x.code \in {502, 504} /\ x.dialOp = FALSE
    BY ZenonT(60)
  <1> HIDE DEF dials, others
  <1>4. CASE f \in dials
    <2>1. f.code \in {502, 504} /\ f.dialOp = TRUE /\ f.sent = FALSE
      BY ZenonT(60), <1>2, <1>4
    <2> QED BY ZenonT(60), <2>1
  <1>5. CASE f \in others
    <2>1. f.code \in {502, 504} /\ f.dialOp = FALSE
      BY ZenonT(60), <1>3, <1>5
    <2> QED BY ZenonT(60), <2>1
  <1> QED BY ZenonT(60), <1>1, <1>4, <1>5

(* A failure is reported by the last attempt and swallowed by any other.     *)
LEMMA RoundTripFailsKeeps ==
    ASSUME ReqInv, RoundTripFails
    PROVE  ReqInv'
  <1>1. stage = "roundtrip" /\ stage' = "between" /\ stage \in InLoop
    BY DEF RoundTripFails, InLoop
  <1> DEFINE after(f) == [att EXCEPT !.failed = TRUE, !.replayable = NeverReachedBackend(f)]
             shown(f) == ~(after(f).failed /\ after(f).suppress)
  <1>2. PICK f \in Failures :
          /\ received' = IF f.sent THEN received \cup {targets[i]} ELSE received
          /\ metrics' = [metrics EXCEPT !.upstreamErrors = @ + 1]
          /\ lastFailure' = f.code
          /\ rec' = [code |-> IF FinalAttempt \/ shown(f) THEN f.code ELSE rec.code,
                     answered |-> rec.answered \/ shown(f)]
          /\ Commit(after(f), f.code, Gateway)
    BY DEF RoundTripFails
  <1>3. f.code \in {502, 504} /\ f.dialOp \in BOOLEAN /\ (f.dialOp => ~f.sent)
    BY FailureFacts
  <1>4. PICK a : a = after(f)
    OBVIOUS
  <1>5. att \in Attempts
    BY DEF ReqInv, ReqTypeOK, Attempts
  <1>6. a \in Attempts /\ a.failed /\ a.suppress = att.suppress /\ a.replayable = f.dialOp
    BY ZenonT(60), <1>3, <1>4, <1>5 DEF Attempts, NeverReachedBackend
  <1>7. att.suppress = ~FinalAttempt /\ FinalAttempt' = FinalAttempt
    BY <1>1 DEF ReqInv, RouteOK, FinalAttempt, RoundTripFails, pipelineVars
  <1>8. rec' = [code |-> IF a.suppress THEN rec.code ELSE f.code,
                answered |-> rec.answered \/ ~a.suppress]
    BY <1>2, <1>4, <1>6, <1>7
  <1>9. reply = NoClient /\ rec.answered = FALSE /\ received = {}
    BY <1>1 DEF ReqInv, StageOK, Silent, ReqTypeOK
  <1>10. Commit(a, f.code, Gateway)
    BY <1>2, <1>4
  <1> HIDE DEF after, shown
  <1>11. /\ att' \in Attempts /\ att'.failed
         /\ att'.suppress = att.suppress /\ att'.replayable = f.dialOp
    <2>1. CASE a.suppress
      BY <1>6, <1>10, <2>1 DEF Commit, Attempts
    <2>2. CASE ~a.suppress
      BY <1>6, <1>10, <2>2 DEF Commit, Attempts
    <2> QED BY <2>1, <2>2
  <1>12. a.suppress => reply' = NoClient
    BY <1>6, <1>9, <1>10 DEF Commit
  <1>13. ~a.suppress =>
           reply' = [status |-> f.code, writers |-> {Gateway}, headers |-> {Gateway}]
    <2> SUFFICES ASSUME ~a.suppress
                 PROVE  reply' = [status |-> f.code, writers |-> {Gateway}, headers |-> {Gateway}]
      OBVIOUS
    <2>1. reply' = [status  |-> IF reply.status = 0 THEN f.code ELSE reply.status,
                    writers |-> reply.writers \cup {Gateway},
                    headers |-> reply.headers \cup {Gateway}]
      BY <1>6, <1>10 DEF Commit
    <2>2. reply.status = 0 /\ reply.writers \cup {Gateway} = {Gateway}
          /\ reply.headers \cup {Gateway} = {Gateway}
      BY <1>9 DEF NoClient
    <2> QED BY <2>1, <2>2
  <1>14. reply' \in [status : Nat, writers : SUBSET (Backends \cup {Gateway}),
                     headers : SUBSET (Backends \cup {Gateway})]
    BY <1>3, <1>6, <1>12, <1>13 DEF NoClient
  <1>15. received' \subseteq {targets[i]} /\ (f.dialOp => received' = {})
    BY <1>2, <1>3, <1>9
  <1>16. targets[i] \in Backends
    BY <1>1, TargetIsBackend
  <1>17. /\ targets' = targets /\ i' = i /\ advanced' = advanced /\ resolved' = resolved
         /\ mode' = mode /\ cancelled' = cancelled /\ errorsAtCancel' = errorsAtCancel
    BY DEF RoundTripFails, pipelineVars, cancelVars
  <1>18. /\ MetricsOK' /\ metrics'.upstreamErrors = metrics.upstreamErrors + 1
         /\ metrics'.requests = metrics.requests /\ metrics'.fallbacks = metrics.fallbacks
    BY <1>2 DEF ReqInv, MetricsOK
  <1>19. rec' \in [code : Nat, answered : BOOLEAN]
    BY <1>3, <1>6, <1>8, <1>9 DEF ReqInv, ReqTypeOK, Attempts
  <1>20. ReqTypeOK'
    BY SMTT(30), <1>1, <1>2, <1>3, <1>11, <1>14, <1>15, <1>16, <1>17, <1>18, <1>19
       DEF ReqInv, ReqTypeOK, MetricsOK, Attempts
  <1>21. RouteOK'
    BY <1>1, <1>7, <1>11, <1>17 DEF ReqInv, RouteOK, InLoop, Before
  <1>22. FailedAttempt'
    <2>1. att'.failed /\ att'.suppress = a.suppress /\ att'.replayable = f.dialOp
      BY <1>6, <1>11
    <2>2. received' \subseteq {targets'[i']} /\ (att'.replayable => received' = {})
      BY <1>15, <1>17, <2>1
    <2>3. lastFailure' \in {502, 504}
      BY <1>2, <1>3
    <2>4. a.suppress => reply' = NoClient /\ ~rec'.answered
      BY <1>8, <1>9, <1>12
    <2>5. ~a.suppress => rec'.answered /\ rec'.code = lastFailure'
      <3>1. ~a.suppress => rec' = [code |-> f.code, answered |-> TRUE]
        BY <1>8
      <3>2. lastFailure' = f.code
        BY <1>2
      <3> QED BY <3>1, <3>2
    <2>6. ~a.suppress =>
            reply' = [status |-> lastFailure', writers |-> {Gateway}, headers |-> {Gateway}]
      BY <1>2, <1>13
    <2> QED BY <2>1, <2>2, <2>3, <2>4, <2>5, <2>6 DEF FailedAttempt, Silent
  <1>23. StageOK'
    BY <1>1, <1>18, <1>22 DEF ReqInv, StageOK, Before
  <1>24. OutcomeOK'
    BY <1>1 DEF OutcomeOK
  <1>25. DisconnectOK'
    BY <1>1, <1>11, <1>17, <1>18 DEF ReqInv, DisconnectOK, ReqTypeOK
  <1> QED BY <1>18, <1>20, <1>21, <1>23, <1>24, <1>25 DEF ReqInv

(* The upstream's answer is the first and only one the client gets.         *)
LEMMA UpstreamAnswersKeeps ==
    ASSUME ReqInv, NEW status \in Statuses, UpstreamAnswers(status)
    PROVE  ReqInv'
  <1>1. /\ stage = "roundtrip" /\ stage' = "streaming" /\ stage \in InLoop
        /\ received' = received \cup {targets[i]}
        /\ rec' = [code |-> status, answered |-> TRUE]
        /\ Commit(att, status, targets[i])
    BY DEF UpstreamAnswers, InLoop
  <1>2. /\ targets' = targets /\ i' = i /\ advanced' = advanced /\ resolved' = resolved
        /\ mode' = mode /\ cancelled' = cancelled /\ errorsAtCancel' = errorsAtCancel
        /\ lastFailure' = lastFailure /\ metrics' = metrics
    BY DEF UpstreamAnswers, pipelineVars, cancelVars
  <1>3. status \in Nat
    BY StatusAssumption
  <1>4. reply = NoClient /\ received = {} /\ ~att.failed /\ att \in Attempts
    BY <1>1 DEF ReqInv, StageOK, Silent, ReqTypeOK, Attempts
  <1>5. /\ att' = [att EXCEPT !.wrote = TRUE, !.scratch = {}]
        /\ reply' = [status  |-> IF reply.status = 0 THEN status ELSE reply.status,
                     writers |-> reply.writers \cup {targets[i]},
                     headers |-> reply.headers \cup {targets[i]}]
    BY <1>1, <1>4 DEF Commit
  <1>6. /\ reply.status = 0
        /\ reply.writers \cup {targets[i]} = {targets[i]}
        /\ reply.headers \cup {targets[i]} = {targets[i]}
    BY <1>4 DEF NoClient
  <1>7. /\ reply' = [status |-> status, writers |-> {targets[i]}, headers |-> {targets[i]}]
        /\ received' = {targets[i]}
    BY <1>1, <1>4, <1>5, <1>6
  <1>8. att' \in Attempts /\ ~att'.failed /\ att'.suppress = att.suppress
    BY <1>4, <1>5 DEF Attempts
  <1>9. targets[i] \in Backends
    BY <1>1, TargetIsBackend
  <1>10. ReqTypeOK'
    BY <1>1, <1>2, <1>3, <1>7, <1>8, <1>9 DEF ReqInv, ReqTypeOK, Attempts
  <1>11. RouteOK'
    BY <1>1, <1>2, <1>8 DEF ReqInv, RouteOK, InLoop, Before, FinalAttempt
  <1>12. Answering'
    BY <1>1, <1>2, <1>7, <1>8 DEF Answering
  <1>13. MetricsOK' /\ StageOK'
    BY <1>1, <1>2, <1>12 DEF ReqInv, MetricsOK, StageOK, Before
  <1>14. OutcomeOK' /\ DisconnectOK'
    BY <1>1, <1>2 DEF ReqInv, OutcomeOK, DisconnectOK
  <1> QED BY <1>10, <1>11, <1>13, <1>14 DEF ReqInv

(* The body ends or breaks: what was sent stays as it is.                   *)
LEMMA StreamKeeps ==
    ASSUME ReqInv, StreamEnds \/ StreamBreaks
    PROVE  ReqInv'
  <1>1. /\ stage = "streaming" /\ stage' \in {"between", "aborted"}
        /\ UNCHANGED <<pipelineVars, proxyVars, cancelVars, reply, metrics>>
    BY DEF StreamEnds, StreamBreaks
  <1>2. ReqTypeOK' /\ MetricsOK'
    BY <1>1 DEF ReqInv, ReqTypeOK, MetricsOK, pipelineVars, proxyVars, cancelVars
  <1>3. RouteOK'
    BY <1>1 DEF ReqInv, RouteOK, InLoop, Before, FinalAttempt, pipelineVars, proxyVars
  <1>4. Answering /\ Answering'
    BY <1>1 DEF ReqInv, StageOK, Answering, pipelineVars, proxyVars
  <1>5. StageOK'
    BY <1>1, <1>4 DEF ReqInv, StageOK, Before
  <1>6. OutcomeOK'
    BY <1>1 DEF OutcomeOK
  <1>7. DisconnectOK'
    BY <1>1, <1>4 DEF ReqInv, DisconnectOK, Answering, cancelVars
  <1> QED BY <1>2, <1>3, <1>5, <1>6, <1>7 DEF ReqInv

(* A retry follows a failure that reached neither a backend nor the client.  *)
LEMMA NextBackendKeeps ==
    ASSUME ReqInv, NextBackend
    PROVE  ReqInv'
  <1>1. /\ stage = "between" /\ stage' = "attempt" /\ stage \in InLoop
        /\ i' = i + 1 /\ advanced' = TRUE
        /\ UNCHANGED <<pipelineVars, att, rec, lastFailure, cancelVars, reply, received, metrics>>
    BY DEF NextBackend, InLoop
  <1>2. att.failed /\ att.replayable /\ ~FinalAttempt /\ ~cancelled
    BY DEF NextBackend, MayRetry
  <1>3. i \in 1..Len(targets) /\ i # Len(targets) /\ Len(targets) \in Nat /\ Len(targets) <= 2
    BY <1>1, <1>2 DEF ReqInv, RouteOK, ReqTypeOK, FinalAttempt, InLoop, maxBackendAttempts
  <1>4. i = 1 /\ Len(targets) = 2
    <2>1. PICK n \in Nat : n = Len(targets)
      BY <1>3
    <2>2. i \in 1..n /\ i # n /\ n <= 2
      BY <1>3, <2>1
    <2>3. i = 1 /\ n = 2
      BY <2>2
    <2> QED BY <2>1, <2>3
  <1>5. att.suppress /\ FailedAttempt
    BY <1>1, <1>2 DEF ReqInv, RouteOK, StageOK, Answering
  <1>6. Silent /\ received = {}
    BY <1>2, <1>5 DEF FailedAttempt
  <1>7. ReqTypeOK' /\ MetricsOK'
    BY <1>1, <1>4 DEF ReqInv, ReqTypeOK, MetricsOK, pipelineVars, cancelVars, maxBackendAttempts
  <1>8. RouteOK'
    BY <1>1, <1>4 DEF RouteOK, Before, pipelineVars
  <1>9. StageOK'
    BY <1>1, <1>6 DEF ReqInv, StageOK, Silent, Before
  <1>10. OutcomeOK' /\ DisconnectOK'
    BY <1>1, <1>2 DEF OutcomeOK, DisconnectOK, cancelVars
  <1> QED BY <1>7, <1>8, <1>9, <1>10 DEF ReqInv

(* The handler returns: the code it counts is the code that was sent, or the *)
(* failure nobody was told of.                                             *)
LEMMA AccountKeeps ==
    ASSUME ReqInv, Account
    PROVE  ReqInv'
  <1>1. /\ stage = "between" /\ stage' = "done" /\ stage \in InLoop
        /\ rec' = [rec EXCEPT !.code = FinalCode]
        /\ metrics' = [metrics EXCEPT !.requests = Append(@, FinalCode),
                              !.fallbacks = IF CountsAsFallback(FinalCode) THEN @ + 1 ELSE @]
        /\ reply' = IF reply.status = 0 THEN [reply EXCEPT !.status = 200] ELSE reply
        /\ UNCHANGED <<pipelineVars, i, att, lastFailure, advanced, cancelVars, received>>
    BY DEF Account, InLoop
  <1>2. PICK c : c = FinalCode
    OBVIOUS
  <1>3. /\ rec \in [code : Nat, answered : BOOLEAN] /\ lastFailure \in {0, 502, 504}
        /\ metrics.requests = <<>> /\ metrics.fallbacks = 0
        /\ (Answering \/ FailedAttempt)
    BY <1>1 DEF ReqInv, ReqTypeOK, StageOK
  <1>4. c \in Nat
    BY <1>2, <1>3 DEF FinalCode
  <1>5. c < 400 => Answering /\ c = rec.code
    <2>1. CASE Answering
      BY <1>2, <2>1 DEF Answering, FinalCode
    <2>2. CASE FailedAttempt
      <3>1. lastFailure \in {502, 504} /\ lastFailure # 0
        BY <2>2 DEF FailedAttempt
      <3>2. CASE rec.answered
        <4>1. ~att.suppress
          BY <2>2, <3>2 DEF FailedAttempt, Silent
        <4> QED BY <1>2, <2>2, <3>1, <3>2, <4>1 DEF FailedAttempt, FinalCode
      <3>3. CASE ~rec.answered
        BY <1>2, <3>1, <3>3 DEF FinalCode
      <3> QED BY <3>2, <3>3
    <2> QED BY <1>3, <2>1, <2>2
  <1>6. Append(metrics.requests, c) \in Seq(Nat)
    BY <1>3, <1>4, CountedOnce DEF ReqInv
  <1>7. /\ MetricsOK' /\ metrics'.upstreamErrors = metrics.upstreamErrors
        /\ metrics'.requests = Append(metrics.requests, c)
        /\ metrics'.fallbacks = IF CountsAsFallback(c) THEN 1 ELSE 0
    <2> DEFINE n == IF CountsAsFallback(c) THEN 1 ELSE 0
    <2>1. n \in Nat /\ n = IF CountsAsFallback(c) THEN metrics.fallbacks + 1 ELSE metrics.fallbacks
      BY <1>3
    <2>2. metrics' = [metrics EXCEPT !.requests = Append(metrics.requests, c), !.fallbacks = n]
      BY <1>1, <1>2, <2>1
    <2> HIDE DEF n
    <2>3. /\ MetricsOK' /\ metrics'.upstreamErrors = metrics.upstreamErrors
          /\ metrics'.requests = Append(metrics.requests, c) /\ metrics'.fallbacks = n
      BY <1>6, <2>1, <2>2 DEF ReqInv, MetricsOK
    <2> QED BY <2>3 DEF n
  <1>8. Answering => reply.status # 0 /\ reply' = reply
    <2> SUFFICES ASSUME Answering PROVE reply.status # 0 /\ reply' = reply
      OBVIOUS
    <2>1. reply.status = rec.code /\ rec.code \in Statuses
      BY DEF Answering
    <2>2. rec.code # 0
      BY <2>1, StatusAssumption
    <2> QED BY <1>1, <2>1, <2>2
  <1>9. targets[i] \in Backends /\ (i = 2 => targets[i] = targets[2])
    BY <1>1, TargetIsBackend
  <1>10. /\ reply' \in [status : Nat, writers : SUBSET (Backends \cup {Gateway}),
                        headers : SUBSET (Backends \cup {Gateway})]
         /\ reply'.writers = reply.writers /\ reply'.headers = reply.headers
    <2>1. reply' = IF reply.status = 0 THEN [reply EXCEPT !.status = 200] ELSE reply
      BY <1>1
    <2>2. reply \in [status : Nat, writers : SUBSET (Backends \cup {Gateway}),
                    headers : SUBSET (Backends \cup {Gateway})]
      BY DEF ReqInv, ReqTypeOK
    <2> QED BY <2>1, <2>2
  <1>11. ReqTypeOK'
    <2>1. rec' \in [code : Nat, answered : BOOLEAN]
      BY <1>1, <1>2, <1>3, <1>4
    <2>2. metrics'.upstreamErrors \in Nat /\ metrics'.fallbacks \in Nat
      BY <1>7 DEF MetricsOK
    <2>3. /\ stage' = "done" /\ mode' = mode /\ resolved' = resolved /\ targets' = targets
          /\ i' = i /\ att' = att /\ lastFailure' = lastFailure /\ advanced' = advanced
          /\ cancelled' = cancelled /\ errorsAtCancel' = errorsAtCancel /\ received' = received
      BY <1>1 DEF pipelineVars, cancelVars
    <2> QED BY <1>10, <2>1, <2>2, <2>3 DEF ReqInv, ReqTypeOK
  <1>12. RouteOK'
    BY <1>1 DEF ReqInv, RouteOK, InLoop, Before
  <1>13. StageOK'
    BY <1>1 DEF StageOK, Before
  <1>14. RecordedSuccessIsReal'
    <2> SUFFICES ASSUME NEW n \in DOMAIN metrics'.requests, metrics'.requests[n] < 400
                 PROVE  /\ reply'.status = metrics'.requests[n]
                        /\ reply'.writers \subseteq Backends /\ reply'.writers # {}
      BY DEF RecordedSuccessIsReal
    <2>1. metrics'.requests[n] = c
      BY <1>3, <1>4, <1>7, CountedOnce DEF ReqInv
    <2>2. Answering /\ c = rec.code /\ reply' = reply
      BY <1>5, <1>8, <2>1
    <2> QED BY <1>9, <2>1, <2>2 DEF Answering
  <1>15. FallbackIsRescue'
    <2> SUFFICES ASSUME metrics'.fallbacks > 0
                 PROVE  /\ reply'.writers = {targets'[2]} /\ received' = {targets'[2]}
                        /\ reply'.status >= 200 /\ reply'.status < 400
      BY DEF FallbackIsRescue
    <2>1. CountsAsFallback(c)
      BY <1>7
    <2>2. advanced /\ c >= 200 /\ c < 400
      BY <2>1 DEF CountsAsFallback
    <2>3. i = 2
      BY <2>2 DEF ReqInv, RouteOK
    <2>4. Answering /\ c = rec.code /\ reply' = reply
      BY <1>5, <1>8, <2>2
    <2> QED BY <1>1, <1>9, <2>2, <2>3, <2>4 DEF Answering, pipelineVars
  <1>16. OutcomeOK'
    <2>1. received' \subseteq {targets[i]}
      BY <1>1, <1>3 DEF Answering, FailedAttempt
    <2>2. \E w \in Backends \cup {Gateway} :
             \/ reply.writers = {w} /\ reply.headers = {w}
             \/ reply.writers = {} /\ reply.headers = {}
      <3>1. CASE Answering
        BY <1>9, <3>1 DEF Answering
      <3>2. CASE FailedAttempt /\ att.suppress
        BY <3>2 DEF FailedAttempt, Silent, NoClient
      <3>3. CASE FailedAttempt /\ ~att.suppress
        BY <3>3 DEF FailedAttempt
      <3> QED BY <1>3, <3>1, <3>2, <3>3
    <2> QED BY <1>9, <1>10, <1>14, <1>15, <2>1, <2>2 DEF OutcomeOK
  <1>17. DisconnectOK'
    BY <1>1, <1>7 DEF ReqInv, DisconnectOK, ReqTypeOK, cancelVars
  <1> QED BY <1>7, <1>11, <1>12, <1>13, <1>16, <1>17 DEF ReqInv

(* The client hangs up: nothing but the flag and the count move.            *)
LEMMA ClientCancelsKeeps ==
    ASSUME ReqInv, ClientCancels
    PROVE  ReqInv'
  <1>1. /\ cancelled' = TRUE /\ errorsAtCancel' = metrics.upstreamErrors
        /\ stage # "done"
        /\ UNCHANGED <<stage, pipelineVars, proxyVars, reply, metrics>>
    BY DEF ClientCancels, Ended
  <1>2. ReqTypeOK' /\ MetricsOK'
    BY <1>1 DEF ReqInv, ReqTypeOK, MetricsOK, pipelineVars, proxyVars
  <1>3. RouteOK'
    BY <1>1 DEF ReqInv, RouteOK, FinalAttempt, pipelineVars, proxyVars
  <1>4. StageOK'
    BY <1>1 DEF ReqInv, StageOK, Silent, Answering, FailedAttempt, pipelineVars, proxyVars
  <1>5. OutcomeOK' /\ DisconnectOK'
    BY <1>1 DEF ReqInv, OutcomeOK, DisconnectOK, ReqTypeOK
  <1> QED BY <1>2, <1>3, <1>4, <1>5 DEF ReqInv

(* The invariant of one request.                                           *)
LEMMA ReqInvHolds == ReqSpec => []ReqInv
  <1>1. ASSUME ReqInit PROVE ReqInv
    <2>1. att \in Attempts /\ reply = NoClient /\ rec = [code |-> 200, answered |-> FALSE]
      BY <1>1 DEF ReqInit, Attempts, NewAttempt
    <2>2. /\ resolved \in Seq(Backends) /\ targets \in Seq(Backends)
          /\ Len(targets) <= maxBackendAttempts /\ i \in 0..maxBackendAttempts
      <3>1. resolved = <<>> /\ targets = <<>> /\ i = 0
        BY <1>1 DEF ReqInit
      <3>2. <<>> \in Seq(Backends) /\ Len(<<>>) = 0
        OBVIOUS
      <3> QED BY <3>1, <3>2 DEF maxBackendAttempts
    <2>3. metrics = [requests |-> <<>>, upstreamErrors |-> 0, fallbacks |-> 0]
      BY <1>1 DEF ReqInit
    <2>4. ReqTypeOK
      <3>1. stage \in ToSet(Pipeline) /\ mode \in Modes
        BY <1>1, PipelineFacts DEF ReqInit
      <3>2. /\ lastFailure = 0 /\ advanced = FALSE /\ cancelled = FALSE
            /\ errorsAtCancel = 0 /\ received = {}
        BY <1>1 DEF ReqInit
      <3>3. rec \in [code : Nat, answered : BOOLEAN]
        BY <2>1
      <3>4. reply \in [status : Nat, writers : SUBSET (Backends \cup {Gateway}),
                       headers : SUBSET (Backends \cup {Gateway})]
        BY <2>1 DEF NoClient
      <3>5. metrics.upstreamErrors \in Nat /\ metrics.fallbacks \in Nat
        BY <2>3
      <3> QED BY <2>1, <2>2, <3>1, <3>2, <3>3, <3>4, <3>5 DEF ReqTypeOK, Attempts
    <2>5. MetricsOK
      BY <2>3 DEF MetricsOK
    <2>6. RouteOK
      BY <1>1 DEF ReqInit, RouteOK, Before, InLoop
    <2>7. StageOK
      <3>1. stage = "auth" /\ received = {}
        BY <1>1 DEF ReqInit
      <3>2. Silent
        BY <2>1 DEF Silent
      <3> QED BY <2>3, <3>1, <3>2 DEF StageOK, Before
    <2>8. OutcomeOK /\ DisconnectOK
      BY <1>1 DEF ReqInit, OutcomeOK, DisconnectOK
    <2> QED BY <2>4, <2>5, <2>6, <2>7, <2>8 DEF ReqInv
  <1>2. ASSUME ReqInv, [ReqNext]_reqVars PROVE ReqInv'
    <2>1. CASE UNCHANGED reqVars
      <3>1. ReqTypeOK' /\ MetricsOK'
        BY <1>2, <2>1 DEF reqVars, ReqInv, ReqTypeOK, MetricsOK
      <3>2. RouteOK'
        BY <1>2, <2>1 DEF reqVars, ReqInv, RouteOK, FinalAttempt
      <3>3. StageOK'
        BY <1>2, <2>1 DEF reqVars, ReqInv, StageOK, Silent, Answering, FailedAttempt
      <3>4. OutcomeOK'
        BY <1>2, <2>1 DEF reqVars, ReqInv, OutcomeOK, RecordedSuccessIsReal, FallbackIsRescue
      <3>5. DisconnectOK'
        BY <1>2, <2>1 DEF reqVars, ReqInv, DisconnectOK
      <3> QED BY <3>1, <3>2, <3>3, <3>4, <3>5 DEF ReqInv
    <2> QED BY <1>2, <2>1, StageRefusesKeeps, StagePassesKeeps, RouteKeeps, AdmitKeeps,
               StartAttemptKeeps, RoundTripFailsKeeps, UpstreamAnswersKeeps, StreamKeeps,
               NextBackendKeeps, AccountKeeps, ClientCancelsKeeps DEF ReqNext
  <1> QED BY <1>1, <1>2, PTL DEF ReqSpec

(* The variables of the request keep their types.                          *)
THEOREM RequestTypeCorrect == ReqSpec => []ReqTypeOK
  <1>1. ReqInv => ReqTypeOK
    BY DEF ReqInv
  <1> QED BY <1>1, ReqInvHolds, PTL

(* A set with at most one element.                                         *)
LEMMA AtMostOne ==
    ASSUME NEW S, NEW x, S \subseteq {x}
    PROVE  Cardinality(S) <= 1
  <1>1. S = {} \/ S = {x}
    OBVIOUS
  <1>2. CASE S = {}
    BY <1>2, FS_EmptySet
  <1>3. CASE S = {x}
    <2>1. Cardinality({x}) = 1
      BY FS_Singleton
    <2> QED BY <1>3, <2>1
  <1> QED BY <1>1, <1>2, <1>3

(* proxy.go:487-504: a completion is not idempotent; through any number of   *)
(* attempts and failures it is delivered to at most one backend.            *)
THEOREM DeliveredAtMostOnce == ReqSpec => []AtMostOneBackend
  <1>1. ASSUME ReqInv PROVE AtMostOneBackend
    <2>1. \E b : received \subseteq {b}
      <3>1. stage \in Before \cup InLoop \cup {"done", "aborted"}
        BY <1>1, PipelineFacts DEF ReqInv, ReqTypeOK, Before, InLoop
      <3> QED BY <1>1, <3>1
              DEF ReqInv, StageOK, OutcomeOK, Answering, FailedAttempt, Before, InLoop
    <2> QED BY <2>1, AtMostOne DEF AtMostOneBackend
  <1> QED BY <1>1, ReqInvHolds, PTL

(* proxy.go:506-538: status, body and headers come from one attempt.        *)
THEOREM OneVoiceHolds == ReqSpec => []OneVoice
  <1>1. ASSUME ReqInv PROVE OneVoice
    <2>1. \E w : \/ reply.writers = {w} /\ reply.headers = {w}
                 \/ reply.writers = {} /\ reply.headers = {}
      <3>1. stage \in Before \cup InLoop \cup {"done", "aborted"}
        BY <1>1, PipelineFacts DEF ReqInv, ReqTypeOK, Before, InLoop
      <3>2. CASE Silent
        BY <3>2 DEF Silent, NoClient
      <3>3. CASE Answering
        BY <3>3 DEF Answering
      <3>4. CASE FailedAttempt /\ ~att.suppress
        BY <3>4 DEF FailedAttempt
      <3>5. CASE FailedAttempt /\ att.suppress
        BY <3>2, <3>5 DEF FailedAttempt
      <3>6. CASE stage = "done"
        BY <1>1, <3>6 DEF ReqInv, OutcomeOK
      <3> QED BY <1>1, <3>1, <3>2, <3>3, <3>4, <3>5, <3>6 DEF ReqInv, StageOK, Before, InLoop
    <2> QED BY <2>1, AtMostOne DEF OneVoice
  <1> QED BY <1>1, ReqInvHolds, PTL

(* server.go:521-529: a success that is counted is one that a backend gave   *)
(* the client.                                                             *)
THEOREM SuccessesAreReal == ReqSpec => []RecordedSuccessIsReal
  <1>1. ASSUME ReqInv PROVE RecordedSuccessIsReal
    <2>1. CASE stage = "done"
      BY <1>1, <2>1 DEF ReqInv, OutcomeOK
    <2>2. CASE stage # "done"
      BY <1>1, <2>2 DEF ReqInv, StageOK, RecordedSuccessIsReal
    <2> QED BY <2>1, <2>2
  <1> QED BY <1>1, ReqInvHolds, PTL

(* metrics.go:95-104: a counted fallback was a rescue.                      *)
THEOREM FallbacksAreRescues == ReqSpec => []FallbackIsRescue
  <1>1. ASSUME ReqInv PROVE FallbackIsRescue
    <2>1. CASE stage = "done"
      BY <1>1, <2>1 DEF ReqInv, OutcomeOK
    <2>2. CASE stage # "done"
      BY <1>1, <2>2 DEF ReqInv, StageOK, FallbackIsRescue
    <2> QED BY <2>1, <2>2
  <1> QED BY <1>1, ReqInvHolds, PTL

(* proxy.go:682-689: one disconnect is at most one upstream error.          *)
THEOREM DisconnectCostsOne == ReqSpec => []OneErrorPerDisconnect
  <1>1. ReqInv => OneErrorPerDisconnect
    BY DEF ReqInv, DisconnectOK, OneErrorPerDisconnect, ReqTypeOK
  <1> QED BY <1>1, ReqInvHolds, PTL

-----------------------------------------------------------------------------
(* The KV-pressure guard: its types, the age of the telemetry a refusal is  *)
(* based on, and what it takes to engage and to release it.                *)

\* The scraper's own times: a tick that is under way, or has ended, has read the
\* clock, and a loop that is idle has a ticker.
TimesSet ==
    /\ phase \in {"scraping", "idle"} => tickNow \in Nat
    /\ phase = "idle" => due \in Nat

TypeInv == TypeOK /\ TimesSet

\* The zero values newBackendScraper and an idle handler start from are typed.
LEMMA ZeroTypes == ZeroSnapshot \in Snapshot /\ NoRequest \in RequestType
<1>1. ZeroSnapshot \in Snapshot
  BY DEF ZeroSnapshot, Snapshot
<1>2. NoRequest \in RequestType
  BY <1>1 DEF NoRequest, RequestType
<1> QED
  BY <1>1, <1>2

\* Observe keeps the type of the pressure state.
LEMMA ObserveType ==
    ASSUME TypeOK, NEW s \in Samples, NEW now \in Nat, Observe(s, now)
    PROVE  /\ engaged' \in BOOLEAN
           /\ overThresholdCount' \in {0, 1}
           /\ underSince' \in Time
<1> DEFINE count == IF StaleGap(now) THEN 0 ELSE overThresholdCount
           since == IF StaleGap(now) THEN Zero ELSE underSince
<1>1. count \in {0, 1} /\ since \in Time
  BY DEF TypeOK, Time
<1>2. CASE ~engaged /\ ObserveReleased(s, count) /\ underSince' = since
  BY <1>1, <1>2 DEF ObserveReleased
<1>3. CASE engaged /\ ObserveEngaged(s, now, since) /\ overThresholdCount' = count
  BY <1>1, <1>3 DEF ObserveEngaged, Time
<1> QED
  BY <1>2, <1>3 DEF Observe

(* The type invariant and its strengthening hold throughout. *)
LEMMA TypeInvHolds == Spec => []TypeInv
<1>1. Init => TypeInv
  <2> SUFFICES ASSUME Init PROVE TypeInv
    OBVIOUS
  <2>1. /\ clock \in Nat /\ phase \in Phases /\ tickNow \in Time /\ due \in Time
        /\ underSince \in Time /\ lastSuccessAt \in Time
        /\ overThresholdCount \in {0, 1} /\ samples \subseteq Reading
    BY DEF Init, Phases, Time
  <2>2. /\ engaged \in BOOLEAN /\ everSucceeded \in BOOLEAN
        /\ lastSample \in Samples \cup {NoSample}
        /\ snap \in Snapshot /\ req \in RequestType
    BY ZeroTypes DEF Init
  <2>3. TimesSet
    BY DEF Init, TimesSet
  <2> QED
    BY <2>1, <2>2, <2>3 DEF TypeInv, TypeOK
<1>2. TypeInv /\ [Next]_vars => TypeInv'
  <2> SUFFICES ASSUME TypeInv, [Next]_vars PROVE TypeInv'
    OBVIOUS
  <2> USE DurationAssumption DEF TypeInv, TypeOK, TimesSet, Phases, Time
  <2>1. CASE Register
    BY <2>1 DEF Register, pressureVars, scrapeVars
  <2>2. CASE Evict
    BY <2>2, ZeroTypes DEF Evict
  <2>3. CASE StartTick
    BY <2>3 DEF StartTick, pressureVars, scrapeVars
  <2>4. CASE ScrapeFails
    <3>1. snap' \in Snapshot
      BY <2>4 DEF ScrapeFails, Publish, EndTick, pressureVars, scrapeVars, Snapshot
    <3>2. due' \in Nat /\ phase' = "idle" /\ tickNow' = tickNow /\ tickNow \in Nat
      BY <2>4 DEF ScrapeFails, EndTick, Zero
    <3> QED
      BY <2>4, <3>1, <3>2 DEF ScrapeFails, EndTick, pressureVars, scrapeVars
  <2>5. ASSUME NEW s \in Samples, ScrapeSucceeds(s) PROVE TypeInv'
    <3>1. /\ engaged' \in BOOLEAN /\ overThresholdCount' \in {0, 1} /\ underSince' \in Time
          /\ tickNow \in Nat
      BY <2>5, ObserveType DEF ScrapeSucceeds, EndTick
    <3>2. snap' \in Snapshot
      BY <2>5, <3>1 DEF ScrapeSucceeds, Publish, Snapshot
    <3>3. due' \in Nat /\ phase' = "idle" /\ tickNow' = tickNow
      BY <2>5 DEF ScrapeSucceeds, EndTick, Zero
    <3>4. samples' \subseteq Reading
      BY <2>5, <3>1 DEF ScrapeSucceeds, Reading
    <3> QED
      BY <2>5, <3>1, <3>2, <3>3, <3>4 DEF ScrapeSucceeds, EndTick
  <2>6. ASSUME NEW tier \in Tiers, NEW length \in Lengths, Admit(tier, length)
        PROVE  TypeInv'
    <3>1. req' \in RequestType
      BY <2>6 DEF Admit, Zero, RequestType
    <3> QED
      BY <2>6, <3>1 DEF Admit, pressureVars, scrapeVars
  <2>7. CASE Observed
    <3>1. req' \in RequestType
      BY <2>7, ZeroTypes DEF Observed, RequestType
    <3> QED
      BY <2>7, <3>1 DEF Observed, pressureVars, scrapeVars
  <2>8. CASE Advance
    BY <2>8 DEF Advance, pressureVars, scrapeVars
  <2>9. CASE UNCHANGED vars
    BY <2>9 DEF vars, pressureVars, scrapeVars
  <2> QED
    BY <2>1, <2>2, <2>3, <2>4, <2>5, <2>6, <2>7, <2>8, <2>9 DEF Next
<1> QED
  BY <1>1, <1>2, PTL DEF Spec

\* Every variable of the guard keeps its type; in particular the consecutive
\* count of observe never exceeds one between two ticks.
THEOREM TypeCorrect == Spec => []TypeOK
BY TypeInvHolds, PTL DEF TypeInv

-----------------------------------------------------------------------------
(* How old the telemetry behind a refusal can be.                           *)

\* A scraper that has not ticked yet has nothing fresh to show.
NothingYet ==
    phase \in {"off", "new"} => ~snap.fresh /\ due = Zero

\* Between two ticks: fresh was computed at tickNow, and the ticker fires within
\* one scrape and one interval of it.
IdleAge ==
    phase = "idle" =>
        /\ due <= tickNow + HTTPTimeout + ScrapeInterval
        /\ clock <= due \/ clock <= tickNow + HTTPTimeout
        /\ snap.fresh => tickNow - lastSuccessAt <= MaxStaleness

\* During a scrape the snapshot is still the one of the tick before.
ScrapeAge ==
    phase = "scraping" =>
        /\ clock <= tickNow + HTTPTimeout
        /\ due = Zero \/ due <= tickNow + ScrapeInterval
        /\ snap.fresh =>
              tickNow - lastSuccessAt <= MaxStaleness + HTTPTimeout + ScrapeInterval

AgeInv == NothingYet /\ IdleAge /\ ScrapeAge /\ RejectOnlyOnRecentTelemetry

\* A snapshot that a request finds fresh rests on telemetry within StaleBound.
LEMMA FreshIsRecent ==
    ASSUME TypeInv, AgeInv, phase # "off", snap.fresh
    PROVE  clock - lastSuccessAt <= StaleBound
BY DurationAssumption DEF TypeInv, TypeOK, TimesSet, Phases, Time, Zero, AgeInv, NothingYet,
                          IdleAge, ScrapeAge, StaleBound

\* Whether the scrape failed or not, the end of a tick leaves IdleAge.
LEMMA EndTickAge ==
    ASSUME TypeInv, TypeInv', AgeInv, EndTick, Publish(tickNow),
           req' = req, clock' = clock
    PROVE  AgeInv'
<1>1. phase = "scraping" /\ phase' = "idle" /\ tickNow' = tickNow /\ tickNow \in Nat
  BY DEF EndTick, TypeInv, TimesSet
<1>2. snap'.fresh => tickNow - lastSuccessAt' <= MaxStaleness
  BY DEF Publish
<1>3. due' <= tickNow + HTTPTimeout + ScrapeInterval
  BY <1>1, DurationAssumption DEF EndTick, AgeInv, ScrapeAge, TypeInv, TypeOK, Time
<1>4. clock' <= tickNow + HTTPTimeout
  BY <1>1 DEF AgeInv, ScrapeAge
<1> QED
  BY <1>1, <1>2, <1>3, <1>4 DEF AgeInv, NothingYet, IdleAge, ScrapeAge,
                                RejectOnlyOnRecentTelemetry

\* Fail-open after staleness: whatever the scrapes do, a request is refused only
\* on telemetry within MaxStaleness plus one interval and two scrape timeouts.
THEOREM RejectionsAreRecent == Spec => []RejectOnlyOnRecentTelemetry
<1>1. Init => AgeInv
  BY DEF Init, AgeInv, NothingYet, IdleAge, ScrapeAge, RejectOnlyOnRecentTelemetry,
         ZeroSnapshot, NoRequest
<1>2. TypeInv /\ TypeInv' /\ AgeInv /\ [Next]_vars => AgeInv'
  <2> SUFFICES ASSUME TypeInv, TypeInv', AgeInv, [Next]_vars PROVE AgeInv'
    OBVIOUS
  <2>1. CASE Register
    BY <2>1 DEF Register, AgeInv, NothingYet, IdleAge, ScrapeAge, RejectOnlyOnRecentTelemetry
  <2>2. CASE Evict
    BY <2>2 DEF Evict, AgeInv, NothingYet, IdleAge, ScrapeAge, RejectOnlyOnRecentTelemetry,
                ZeroSnapshot
  <2>3. CASE StartTick
    <3>1. /\ phase' = "scraping" /\ tickNow' = clock /\ clock' = clock
          /\ snap' = snap /\ req' = req /\ lastSuccessAt' = lastSuccessAt
          /\ clock \in Nat
      BY <2>3 DEF StartTick, scrapeVars, TypeInv, TypeOK
    <3>2. due' = Zero \/ due' <= clock + ScrapeInterval
      BY <2>3, DurationAssumption DEF StartTick, AgeInv, NothingYet, TypeInv, TypeOK
    <3>3. snap.fresh => clock - lastSuccessAt <= MaxStaleness + HTTPTimeout + ScrapeInterval
      BY <2>3, DurationAssumption
         DEF StartTick, AgeInv, NothingYet, IdleAge, TypeInv, TypeOK, TimesSet, Time, Zero
    <3> QED
      BY <3>1, <3>2, <3>3, DurationAssumption
         DEF AgeInv, NothingYet, IdleAge, ScrapeAge, RejectOnlyOnRecentTelemetry
  <2>4. CASE ScrapeFails
    BY <2>4, EndTickAge DEF ScrapeFails, EndTick
  <2>5. ASSUME NEW s \in Samples, ScrapeSucceeds(s) PROVE AgeInv'
    BY <2>5, EndTickAge DEF ScrapeSucceeds, EndTick
  <2>6. ASSUME NEW tier \in Tiers, NEW length \in Lengths, Admit(tier, length)
        PROVE  AgeInv'
    <3>1. ~req'.admit => phase # "off" /\ snap.fresh /\ req'.age = clock - lastSuccessAt
      BY <2>6 DEF Admit, AdmitReason
    <3>2. RejectOnlyOnRecentTelemetry'
      BY <3>1, FreshIsRecent DEF RejectOnlyOnRecentTelemetry, StaleBound
    <3> QED
      BY <2>6, <3>2 DEF Admit, AgeInv, NothingYet, IdleAge, ScrapeAge, scrapeVars
  <2>7. CASE Observed
    BY <2>7 DEF Observed, AgeInv, NothingYet, IdleAge, ScrapeAge, scrapeVars,
                RejectOnlyOnRecentTelemetry, NoRequest
  <2>8. CASE Advance
    BY <2>8, DurationAssumption DEF Advance, AgeInv, NothingYet, IdleAge, ScrapeAge, scrapeVars,
                RejectOnlyOnRecentTelemetry, TypeInv, TypeOK, TimesSet
  <2>9. CASE UNCHANGED vars
    BY <2>9 DEF vars, AgeInv, NothingYet, IdleAge, ScrapeAge, scrapeVars,
                RejectOnlyOnRecentTelemetry
  <2> QED
    BY <2>1, <2>2, <2>3, <2>4, <2>5, <2>6, <2>7, <2>8, <2>9 DEF Next
<1>3. AgeInv => RejectOnlyOnRecentTelemetry
  BY DEF AgeInv
<1> QED
  BY <1>1, <1>2, <1>3, TypeInvHolds, PTL DEF Spec

-----------------------------------------------------------------------------
(* What it takes to engage the guard.                                       *)

\* A count of one was left by an over sample, with the guard released.
CountInv ==
    overThresholdCount = 1 => ~engaged /\ everSucceeded /\ Over(lastSample)

(* The counting invariant behind engagement holds throughout. *)
LEMMA CountInvHolds == Spec => []CountInv
<1>1. Init => CountInv
  BY DEF Init, CountInv
<1>2. TypeInv /\ CountInv /\ [Next]_vars => CountInv'
  <2> SUFFICES ASSUME TypeInv, CountInv, [Next]_vars PROVE CountInv'
    OBVIOUS
  <2>1. CASE Evict
    BY <2>1 DEF Evict, CountInv
  <2>2. ASSUME NEW s \in Samples, ScrapeSucceeds(s) PROVE CountInv'
    <3> DEFINE count == IF StaleGap(tickNow) THEN 0 ELSE overThresholdCount
               since == IF StaleGap(tickNow) THEN Zero ELSE underSince
    <3>1. count \in {0, 1} /\ (count = 1 => overThresholdCount = 1)
      BY DEF TypeInv, TypeOK
    <3>2. lastSample' = s /\ everSucceeded' = TRUE /\ Observe(s, tickNow)
      BY <2>2 DEF ScrapeSucceeds
    <3>3. CASE ~engaged /\ ObserveReleased(s, count)
      <4> HIDE DEF count
      <4>1. CASE ~Over(s)
        BY <3>3, <4>1 DEF ObserveReleased, CountInv
      <4>2. CASE Over(s) /\ count = 1
        BY <3>3, <4>2 DEF ObserveReleased, CountInv
      <4>3. CASE Over(s) /\ count = 0
        <5>1. engaged' = (count + 1 >= 2)
          BY <3>3, <4>3, Zenon DEF ObserveReleased
        <5>2. ~(count + 1 >= 2)
          BY <4>3
        <5>3. ~engaged'
          BY <5>1, <5>2, Zenon
        <5> QED
          BY <3>2, <4>3, <5>3 DEF CountInv, Over
      <4> QED
        BY <3>1, <4>1, <4>2, <4>3
    <3>4. CASE engaged /\ overThresholdCount' = count
      BY <3>1, <3>4 DEF CountInv
    <3> QED
      BY <3>2, <3>3, <3>4 DEF Observe
  <2>3. CASE UNCHANGED <<pressureVars, scrapeVars>>
    BY <2>3 DEF pressureVars, scrapeVars, CountInv, Over
  <2>4. Evict \/ (\E s \in Samples : ScrapeSucceeds(s)) \/ UNCHANGED <<pressureVars, scrapeVars>>
    BY DEF Next, Register, StartTick, ScrapeFails, Admit, Observed, Advance, vars
  <2> QED
    BY <2>1, <2>2, <2>3, <2>4
<1> QED
  BY <1>1, <1>2, TypeInvHolds, PTL DEF Spec

\* A single spike never engages the guard and neither do two that lie on both
\* sides of a stale gap: observe, resetConsecutive and tick together.
THEOREM EngagementNeedsTwoFresh == Spec => EngageNeedsTwoFresh
<1> DEFINE Step == ~engaged /\ engaged' =>
                      /\ everSucceeded /\ Over(lastSample) /\ Over(lastSample')
                      /\ lastSuccessAt' - lastSuccessAt <= MaxStaleness
<1>1. TypeInv /\ CountInv /\ [Next]_vars => [Step]_vars
  <2> SUFFICES ASSUME TypeInv, CountInv, Next, ~engaged, engaged' PROVE Step
    BY DEF vars, pressureVars
  <2>1. PICK s \in Samples : ScrapeSucceeds(s)
    BY DEF Next, Register, Evict, StartTick, ScrapeFails, Admit, Observed, Advance, pressureVars
  <2> DEFINE count == IF StaleGap(tickNow) THEN 0 ELSE overThresholdCount
  <2>2. lastSample' = s /\ lastSuccessAt' = tickNow /\ tickNow \in Nat
    BY <2>1 DEF ScrapeSucceeds, EndTick, TypeInv, TimesSet
  <2>3. ObserveReleased(s, count)
    BY <2>1 DEF ScrapeSucceeds, Observe
  <2>4. Over(s) /\ count = 1
    BY <2>3 DEF ObserveReleased, TypeInv, TypeOK
  <2>5. ~StaleGap(tickNow) /\ overThresholdCount = 1
    BY <2>4
  <2>6. everSucceeded /\ Over(lastSample)
    BY <2>5 DEF CountInv
  <2>7. tickNow - lastSuccessAt <= MaxStaleness
    BY <2>2, <2>5, <2>6, DurationAssumption DEF StaleGap, TypeInv, TypeOK, Time, Zero
  <2> QED
    BY <2>2, <2>4, <2>6, <2>7 DEF Over
<1> QED
  BY <1>1, TypeInvHolds, CountInvHolds, PTL DEF Spec, EngageNeedsTwoFresh

-----------------------------------------------------------------------------
(* When the guard lets go.                                                  *)

\* Successive scrapes read strictly later clocks.
TicksAdvance ==
    /\ phase \in {"off", "new"} => lastSuccessAt = Zero /\ due = Zero
    /\ phase = "scraping" => /\ lastSuccessAt < tickNow /\ tickNow <= clock
                             /\ due = Zero \/ tickNow < due
    /\ phase = "idle" => lastSuccessAt <= tickNow /\ tickNow < due

(* Two ticks are never counted at the same time. *)
LEMMA TicksAdvanceHolds == Spec => []TicksAdvance
<1>1. Init => TicksAdvance
  BY DEF Init, TicksAdvance
<1>2. TypeInv /\ TicksAdvance /\ [Next]_vars => TicksAdvance'
  <2> SUFFICES ASSUME TypeInv, TicksAdvance, [Next]_vars PROVE TicksAdvance'
    OBVIOUS
  <2> USE DurationAssumption DEF TypeInv, TypeOK, TimesSet, Time, Zero, Phases, TicksAdvance
  <2>1. CASE Register
    BY <2>1 DEF Register, scrapeVars
  <2>2. CASE Evict
    BY <2>2 DEF Evict
  <2>3. CASE StartTick
    <3>1. /\ phase' = "scraping" /\ tickNow' = clock /\ clock' = clock
          /\ lastSuccessAt' = lastSuccessAt
      BY <2>3 DEF StartTick, scrapeVars
    <3>2. CASE phase = "new" /\ due' = due
      BY <3>1, <3>2
    <3>3. CASE phase = "idle" /\ clock >= due /\ due' \in (clock + 1)..(clock + ScrapeInterval)
      BY <3>1, <3>3
    <3> QED
      BY <2>3, <3>2, <3>3 DEF StartTick
  <2>4. CASE ScrapeFails
    BY <2>4 DEF ScrapeFails, EndTick, scrapeVars
  <2>5. ASSUME NEW s \in Samples, ScrapeSucceeds(s) PROVE TicksAdvance'
    BY <2>5 DEF ScrapeSucceeds, EndTick
  <2>6. CASE Advance
    BY <2>6 DEF Advance, scrapeVars
  <2>7. CASE UNCHANGED <<clock, phase, tickNow, due, lastSuccessAt>>
    BY <2>7
  <2> QED
    BY <2>1, <2>2, <2>3, <2>4, <2>5, <2>6, <2>7
       DEF Next, Admit, Observed, vars, scrapeVars
<1> QED
  BY <1>1, <1>2, TypeInvHolds, PTL DEF Spec

\* The history: nothing is later than the last success, which is in it.
History ==
    /\ \A q \in samples : q.at <= lastSuccessAt
    /\ samples # {} => everSucceeded
    /\ everSucceeded => /\ lastSuccessAt \in Nat
                        /\ [at |-> lastSuccessAt, sample |-> lastSample] \in samples

\* underSince is the start of an unbroken streak that has not lasted long enough.
StreakStart ==
    underSince # Zero =>
        /\ engaged
        /\ lastSuccessAt - underSince < ReleaseSustain
        /\ \E r \in samples : r.at = underSince /\ UnbrokenUnder(r, samples)

\* ... and no unbroken streak started before it.
StreakFirst ==
    engaged => \A r \in samples :
        UnbrokenUnder(r, samples) => underSince # Zero /\ underSince <= r.at

StreakInv == History /\ StreakStart /\ StreakFirst

\* The streak observe works from, once tick has forgotten what precedes a gap.
From(now) == IF StaleGap(now) \/ underSince = Zero THEN now ELSE underSince

\* A sample that is not under breaks every streak.
LEMMA NotUnderBreaks ==
    ASSUME NEW S \in SUBSET Reading, NEW s \in Samples, NEW now \in Nat, ~Under(s),
           \A q \in S : q.at <= now,
           [at |-> now, sample |-> s] \in S
    PROVE  \A r \in S : ~UnbrokenUnder(r, S)
BY DEF UnbrokenUnder, Reading

\* An under sample extends the streak observe works from.
LEMMA StreakExtends ==
    ASSUME TypeInv, TicksAdvance, StreakInv, phase = "scraping",
           NEW s \in Samples, Under(s)
    PROVE  LET S == samples \cup {[at |-> tickNow, sample |-> s]} IN
           /\ From(tickNow) \in Nat /\ From(tickNow) <= tickNow
           /\ \E r \in S : r.at = From(tickNow) /\ UnbrokenUnder(r, S)
<1> DEFINE new == [at |-> tickNow, sample |-> s]
           S == samples \cup {new}
<1>1. /\ tickNow \in Nat /\ new \in Reading /\ new.at = tickNow /\ new.sample = s
      /\ S \subseteq Reading
      /\ \A q \in samples : q.at \in Nat /\ q.at < tickNow
  BY DEF TypeInv, TypeOK, TimesSet, Reading, TicksAdvance, StreakInv, History, Time, Zero
<1>2. CASE StaleGap(tickNow) \/ underSince = Zero
  <2>1. UnbrokenUnder(new, S)
    BY <1>1 DEF UnbrokenUnder
  <2> QED
    BY <1>1, <1>2, <2>1 DEF From
<1>3. CASE ~(StaleGap(tickNow) \/ underSince = Zero)
  <2>1. PICK r \in samples : r.at = underSince /\ UnbrokenUnder(r, samples)
    BY <1>3 DEF StreakInv, StreakStart
  <2> DEFINE lst == [at |-> lastSuccessAt, sample |-> lastSample]
  <2>2. /\ everSucceeded /\ lst \in samples /\ lst.at = lastSuccessAt /\ lastSuccessAt \in Nat
        /\ r.at <= lastSuccessAt /\ lastSuccessAt < tickNow
    BY <2>1 DEF StreakInv, History, TicksAdvance
  <2>3. tickNow - lastSuccessAt <= MaxStaleness
    BY <1>1, <1>3, <2>2, DurationAssumption DEF StaleGap
  <2>4. UnbrokenUnder(r, S)
    <3> SUFFICES ASSUME NEW q \in S, q.at >= r.at
                 PROVE  /\ Under(q.sample)
                        /\ q.at > r.at => \E p \in S : /\ r.at <= p.at /\ p.at < q.at
                                                       /\ q.at - p.at <= MaxStaleness
      BY DEF UnbrokenUnder
    <3>1. CASE q \in samples
      BY <2>1, <3>1 DEF UnbrokenUnder
    <3>2. CASE q = new
      BY <1>1, <2>2, <2>3, <3>2
    <3> QED
      BY <3>1, <3>2
  <2> QED
    BY <1>1, <1>3, <2>1, <2>4 DEF From
<1> QED
  BY <1>2, <1>3

\* ... and no streak that reaches it started earlier.
LEMMA StreakStartsThere ==
    ASSUME TypeInv, TicksAdvance, StreakInv, phase = "scraping", engaged,
           NEW s \in Samples,
           NEW r \in samples \cup {[at |-> tickNow, sample |-> s]},
           UnbrokenUnder(r, samples \cup {[at |-> tickNow, sample |-> s]})
    PROVE  From(tickNow) <= r.at
<1> DEFINE new == [at |-> tickNow, sample |-> s]
           S == samples \cup {new}
<1>1. /\ tickNow \in Nat /\ new.at = tickNow /\ new.sample = s
      /\ \A q \in samples : q.at \in Nat /\ q.at < tickNow /\ q.at <= lastSuccessAt
      /\ underSince \in Time /\ lastSuccessAt \in Int
  BY DEF TypeInv, TypeOK, TimesSet, Reading, TicksAdvance, StreakInv, History, Time, Zero
<1>2. From(tickNow) <= tickNow
  <2>1. underSince # Zero => underSince <= tickNow
    BY <1>1 DEF StreakInv, StreakStart
  <2> QED
    BY <1>1, <2>1 DEF From, Time
<1>3. CASE r = new
  BY <1>1, <1>2, <1>3
<1>4. CASE r \in samples
  <2>1. PICK p \in S : r.at <= p.at /\ p.at < new.at /\ new.at - p.at <= MaxStaleness
    <3>1. new \in S /\ new.at >= r.at /\ new.at > r.at /\ UnbrokenUnder(r, S)
      BY <1>1, <1>4
    <3> HIDE DEF new, S
    <3> QED
      BY <3>1 DEF UnbrokenUnder
  <2>2. p \in samples
    BY <1>1, <2>1
  <2>3. ~StaleGap(tickNow)
    BY <1>1, <2>1, <2>2, DurationAssumption DEF StaleGap
  <2>4. UnbrokenUnder(r, samples)
    <3> SUFFICES ASSUME NEW q \in samples, q.at >= r.at
                 PROVE  /\ Under(q.sample)
                        /\ q.at > r.at => \E t \in samples : /\ r.at <= t.at /\ t.at < q.at
                                                             /\ q.at - t.at <= MaxStaleness
      BY DEF UnbrokenUnder
    <3>1. Under(q.sample)
      BY DEF UnbrokenUnder
    <3>2. ASSUME q.at > r.at
          PROVE  \E t \in samples : /\ r.at <= t.at /\ t.at < q.at
                                    /\ q.at - t.at <= MaxStaleness
      <4>1. PICK t \in S : r.at <= t.at /\ t.at < q.at /\ q.at - t.at <= MaxStaleness
        BY <3>2 DEF UnbrokenUnder
      <4>2. t \in samples
        BY <1>1, <4>1
      <4> QED
        BY <4>1, <4>2
    <3> QED
      BY <3>1, <3>2
  <2>5. underSince # Zero /\ underSince <= r.at
    BY <1>4, <2>4 DEF StreakInv, StreakFirst
  <2> QED
    BY <2>3, <2>5 DEF From
<1> QED
  BY <1>3, <1>4

\* Over and under exclude each other.
LEMMA OverIsNotUnder ==
    ASSUME NEW s \in Samples, Over(s)
    PROVE  ~Under(s)
BY ThresholdAssumption, HysteresisAssumption DEF Over, Under

\* What one successful scrape does to the streak: it is broken, it ends the
\* engagement, or it goes on from the same start.
LEMMA ObserveStreak ==
    ASSUME TypeInv, StreakInv, NEW s \in Samples, ScrapeSucceeds(s)
    PROVE  \/ ~Under(s) /\ underSince' = Zero
           \/ ~engaged /\ ~engaged' /\ underSince' = Zero
           \/ /\ engaged /\ ~engaged' /\ Under(s) /\ underSince' = Zero
              /\ tickNow - From(tickNow) >= ReleaseSustain
           \/ /\ engaged /\ engaged' /\ Under(s) /\ underSince' = From(tickNow)
              /\ tickNow - From(tickNow) < ReleaseSustain
<1> DEFINE count == IF StaleGap(tickNow) THEN 0 ELSE overThresholdCount
           since == IF StaleGap(tickNow) THEN Zero ELSE underSince
<1>1. /\ tickNow \in Nat
      /\ (IF since = Zero THEN tickNow ELSE since) = From(tickNow)
  BY DEF ScrapeSucceeds, EndTick, TypeInv, TimesSet, From
<1>2. CASE ~engaged /\ ObserveReleased(s, count) /\ underSince' = since
  <2>1. underSince' = Zero
    BY <1>2 DEF StreakInv, StreakStart
  <2>2. CASE Over(s)
    BY <2>1, <2>2, OverIsNotUnder
  <2>3. CASE ~Over(s)
    <3>1. engaged' = (0 >= 2)
      BY <1>2, <2>3, Zenon DEF ObserveReleased
    <3>2. ~(0 >= 2)
      OBVIOUS
    <3>3. ~engaged'
      BY <3>1, <3>2, Zenon
    <3> QED
      BY <1>2, <2>1, <3>3
  <2> QED
    BY <2>2, <2>3
<1>3. CASE engaged /\ ObserveEngaged(s, tickNow, since)
  BY <1>1, <1>3 DEF ObserveEngaged
<1> QED
  BY <1>2, <1>3 DEF ScrapeSucceeds, Observe

(* The streak invariant behind a prompt release holds throughout. *)
LEMMA StreakInvHolds == Spec => []StreakInv
<1>1. Init => StreakInv
  BY DEF Init, StreakInv, History, StreakStart, StreakFirst
<1>2. TypeInv /\ TypeInv' /\ TicksAdvance /\ StreakInv /\ [Next]_vars => StreakInv'
  <2> SUFFICES ASSUME TypeInv, TypeInv', TicksAdvance, StreakInv, [Next]_vars
               PROVE  StreakInv'
    OBVIOUS
  <2>1. CASE Evict
    BY <2>1 DEF Evict, StreakInv, History, StreakStart, StreakFirst
  <2>2. ASSUME NEW s \in Samples, ScrapeSucceeds(s) PROVE StreakInv'
    <3> DEFINE new == [at |-> tickNow, sample |-> s]
               S == samples \cup {new}
    <3>1. /\ samples' = S /\ lastSuccessAt' = tickNow /\ everSucceeded' = TRUE
          /\ lastSample' = s /\ phase = "scraping" /\ tickNow \in Nat
      BY <2>2 DEF ScrapeSucceeds, EndTick, TypeInv, TimesSet
    <3>2. S \subseteq Reading /\ new \in S /\ new.at = tickNow
      BY <3>1 DEF TypeInv, TypeOK
    <3>3. \A q \in S : q.at <= tickNow
      <4>1. \A q \in samples : q.at \in Nat /\ q.at <= lastSuccessAt
        BY DEF TypeInv, TypeOK, Reading, StreakInv, History
      <4> QED
        BY <3>1, <3>2, <4>1 DEF TicksAdvance, TypeInv, TypeOK, Time, Zero
    <3>4. History'
      BY <3>1, <3>2, <3>3 DEF History
    <3>5. CASE ~Under(s) /\ underSince' = Zero
      <4>1. \A r \in S : ~UnbrokenUnder(r, S)
        BY <3>1, <3>2, <3>3, <3>5, NotUnderBreaks
      <4> QED
        BY <3>1, <3>4, <3>5, <4>1 DEF StreakInv, StreakStart, StreakFirst, UnbrokenUnder, Under
    <3>6. CASE underSince' = Zero /\ ~engaged'
      BY <3>4, <3>6 DEF StreakInv, StreakStart, StreakFirst
    <3>7. CASE /\ engaged /\ engaged' /\ Under(s) /\ underSince' = From(tickNow)
               /\ tickNow - From(tickNow) < ReleaseSustain
      <4>1. /\ underSince' \in Nat
            /\ \E r \in S : r.at = underSince' /\ UnbrokenUnder(r, S)
        BY <3>1, <3>7, StreakExtends
      <4>2. StreakStart'
        BY <3>1, <3>7, <4>1 DEF StreakStart, UnbrokenUnder, Under
      <4>3. \A r \in S : UnbrokenUnder(r, S) => underSince' <= r.at
        BY <3>1, <3>7, StreakStartsThere
      <4>4. StreakFirst'
        BY <3>1, <4>1, <4>3 DEF StreakFirst, UnbrokenUnder, Under, Zero
      <4> QED
        BY <3>4, <4>2, <4>4 DEF StreakInv
    <3> QED
      BY <2>2, <3>5, <3>6, <3>7, ObserveStreak
  <2>3. CASE UNCHANGED <<pressureVars, scrapeVars>>
    BY <2>3 DEF pressureVars, scrapeVars, StreakInv, History, StreakStart, StreakFirst,
                UnbrokenUnder, Under
  <2>4. Evict \/ (\E s \in Samples : ScrapeSucceeds(s)) \/ UNCHANGED <<pressureVars, scrapeVars>>
    BY DEF Next, Register, StartTick, ScrapeFails, Admit, Observed, Advance, vars
  <2> QED
    BY <2>1, <2>2, <2>3, <2>4
<1> QED
  BY <1>1, <1>2, TypeInvHolds, TicksAdvanceHolds, PTL DEF Spec

\* The guard lets go in time: no engaged guard has behind it an unbroken streak
\* of samples under both release thresholds that has lasted releaseSustain.
THEOREM ReleasesPromptly == Spec => []ReleaseIsPrompt
<1>1. TypeInv /\ StreakInv => ReleaseIsPrompt
  <2> SUFFICES ASSUME TypeInv, StreakInv, engaged, NEW r \in samples,
                      UnbrokenUnder(r, samples)
               PROVE  lastSuccessAt - r.at < ReleaseSustain
    BY DEF ReleaseIsPrompt
  <2>1. underSince # Zero /\ underSince <= r.at
    BY DEF StreakInv, StreakFirst
  <2>2. lastSuccessAt - underSince < ReleaseSustain
    BY <2>1 DEF StreakInv, StreakStart
  <2> QED
    BY <2>1, <2>2, DurationAssumption DEF TypeInv, TypeOK, Reading, Time, Zero
<1> QED
  BY <1>1, TypeInvHolds, StreakInvHolds, PTL

\* ... and never before: a running scraper releases only at the end of such a
\* streak, with no stale gap in it.
THEOREM ReleasesOnlySustained == Spec => ReleaseSustained
<1> DEFINE Step == engaged /\ ~engaged' /\ phase' # "off" =>
                      \E r \in samples' : /\ UnbrokenUnder(r, samples')
                                          /\ lastSuccessAt' - r.at >= ReleaseSustain
<1>1. TypeInv /\ TicksAdvance /\ StreakInv /\ [Next]_vars => [Step]_vars
  <2> SUFFICES ASSUME TypeInv, TicksAdvance, StreakInv, Next, engaged, ~engaged', phase' # "off"
               PROVE  \E r \in samples' : /\ UnbrokenUnder(r, samples')
                                          /\ lastSuccessAt' - r.at >= ReleaseSustain
    BY DEF vars, pressureVars
  <2>1. PICK s \in Samples : ScrapeSucceeds(s)
    BY DEF Next, Register, Evict, StartTick, ScrapeFails, Admit, Observed, Advance, pressureVars
  <2> DEFINE S == samples \cup {[at |-> tickNow, sample |-> s]}
  <2>2. samples' = S /\ lastSuccessAt' = tickNow /\ phase = "scraping" /\ tickNow \in Nat
    BY <2>1 DEF ScrapeSucceeds, EndTick, TypeInv, TimesSet
  <2>3. Under(s) /\ tickNow - From(tickNow) >= ReleaseSustain
    <3>1. CASE ~Under(s)
      BY <2>1, <3>1 DEF ScrapeSucceeds, Observe, ObserveEngaged
    <3> QED
      BY <2>1, <3>1, ObserveStreak
  <2>4. PICK r \in S : r.at = From(tickNow) /\ UnbrokenUnder(r, S)
    BY <2>2, <2>3, StreakExtends
  <2> QED
    BY <2>2, <2>3, <2>4
<1> QED
  BY <1>1, TypeInvHolds, TicksAdvanceHolds, StreakInvHolds, PTL DEF Spec, ReleaseSustained
=============================================================================
