----------------------------- MODULE RateLimit -----------------------------
(***************************************************************************)
(* The per-tenant request limiter (internal/gateway/ratelimit.go) for one   *)
(* tenant: policyForTenant picks the GPUQuotaPolicy that governs it, Allow   *)
(* finds, refreshes or builds the tenant's bucket under the registry's mutex *)
(* and takes a token outside it.  Operators edit, create and delete policies *)
(* while requests that read an earlier one are still on their way.           *)
(***************************************************************************)
EXTENDS TokenBucket, FiniteSets

CONSTANTS
    Requests,       \* handlers that may run at the same time
    Policies,       \* names a GPUQuotaPolicy of this tenant may have
    Created,        \* creationTimestamp of each name
    Rank,           \* the lexical order of the names
    RateLimits,     \* values of spec.rateLimit: [rpm, burst]
    Unlimited,      \* spec.rateLimit is nil
    Absent,         \* no such policy
    MaxEdits        \* bound: changes made to the policies

ASSUME RateLimitAssumption ==
    /\ Created \in [Policies -> Nat] /\ Rank \in [Policies -> Nat]
    /\ \A p, q \in Policies : p # q => Rank[p] # Rank[q]
    /\ RateLimits \subseteq [rpm : Nat, burst : Nat]
    /\ Unlimited \notin RateLimits /\ Absent \notin RateLimits \cup {Unlimited}
    /\ MaxEdits \in Nat

VARIABLES
    policies,       \* the cluster's policies for this tenant
    mu,             \* the request holding bucketRegistry.mu across steps, or Nobody
    bucket,         \* the tenant's trackedBucket, or NoBucket
    handler,        \* each handler: where it is and the policy it read
    net,            \* history: sixtieths granted minus sixtieths refilled
    first,          \* history: the burst the bucket was built with
    edits

limitVars == <<policies, mu, bucket, handler, net, first, edits>>

Nobody   == "nobody"
NoBucket == [limiter |-> NewLimiter(0, 0), rpm |-> -1, burst |-> -1]
Idle     == [pc |-> "idle", rl |-> Unlimited]

-----------------------------------------------------------------------------
\* olderPolicy: the earlier creationTimestamp, on a tie the smaller name.
OlderPolicy(p, q) ==
    \/ Created[p] < Created[q]
    \/ Created[p] = Created[q] /\ Rank[p] < Rank[q]

\* The policies policyForTenant may return: the oldest of those that exist.
PolicyForTenant ==
    {p \in Policies : /\ policies[p] # Absent
                      /\ \A q \in Policies \ {p} : policies[q] # Absent => OlderPolicy(p, q)}

\* The second rate a bucket refills at: requestsPerMinute / 60 tokens.
PerSecond(rl) == rl.rpm

LimitInit ==
    /\ policies \in [Policies -> RateLimits \cup {Unlimited, Absent}]
    /\ mu = Nobody
    /\ bucket = NoBucket
    /\ handler = [r \in Requests |-> Idle]
    /\ net = 0 /\ first = 0 /\ edits = 0

\* An operator creates, edits or deletes a policy.
EditPolicy(p) ==
    /\ edits < MaxEdits
    /\ \E v \in RateLimits \cup {Unlimited, Absent} :
          v # policies[p] /\ policies' = [policies EXCEPT ![p] = v]
    /\ edits' = edits + 1
    /\ UNCHANGED <<mu, bucket, handler, net, first>>

\* Stage 3: the policy is read.  Without one the request ends with 403.
ReadPolicy(r) ==
    /\ handler[r].pc = "idle"
    /\ \E p \in PolicyForTenant : handler' = [handler EXCEPT ![r] = [pc |-> "look", rl |-> policies[p]]]
    /\ UNCHANGED <<policies, mu, bucket, net, first, edits>>

\* Allow on a nil rateLimit: no bucket is touched.
AllowUnlimited(r) ==
    /\ handler[r].pc = "look" /\ handler[r].rl = Unlimited
    /\ handler' = [handler EXCEPT ![r] = Idle]
    /\ UNCHANGED <<policies, mu, bucket, net, first, edits>>

\* The tenant is seen for the first time: a full bucket.
BuildBucket(r) ==
    /\ handler[r].pc = "look" /\ handler[r].rl # Unlimited /\ mu = Nobody
    /\ bucket = NoBucket
    /\ bucket' = [limiter |-> NewLimiter(PerSecond(handler[r].rl), handler[r].rl.burst),
                  rpm |-> handler[r].rl.rpm, burst |-> handler[r].rl.burst]
    /\ first' = handler[r].rl.burst
    /\ handler' = [handler EXCEPT ![r].pc = "allow"]
    /\ UNCHANGED <<policies, mu, net, edits>>

\* The bucket is there and was built from the same values.
FindBucket(r) ==
    /\ handler[r].pc = "look" /\ handler[r].rl # Unlimited /\ mu = Nobody
    /\ bucket # NoBucket
    /\ bucket.rpm = handler[r].rl.rpm /\ bucket.burst = handler[r].rl.burst
    /\ handler' = [handler EXCEPT ![r].pc = "allow"]
    /\ UNCHANGED <<policies, mu, bucket, net, first, edits>>

\* Mutant of RefreshRate: the bucket is rebuilt from the new policy.
RefreshRateRebuilds(r) ==
    /\ handler[r].pc = "look" /\ handler[r].rl # Unlimited /\ mu = Nobody
    /\ bucket # NoBucket
    /\ bucket.rpm # handler[r].rl.rpm \/ bucket.burst # handler[r].rl.burst
    /\ mu' = r
    /\ bucket' = [bucket EXCEPT !.limiter = NewLimiter(PerSecond(handler[r].rl), handler[r].rl.burst)]
    /\ handler' = [handler EXCEPT ![r].pc = "refresh"]
    /\ UNCHANGED <<policies, net, first, edits>>

\* The values differ from the policy this request read: SetLimit, with the lock
\* held.  A request that has its limiter already does not need the lock.
RefreshRate(r) ==
    /\ handler[r].pc = "look" /\ handler[r].rl # Unlimited /\ mu = Nobody
    /\ bucket # NoBucket
    /\ bucket.rpm # handler[r].rl.rpm \/ bucket.burst # handler[r].rl.burst
    /\ mu' = r
    /\ bucket' = [bucket EXCEPT !.limiter = SetLimit(@, PerSecond(handler[r].rl))]
    /\ handler' = [handler EXCEPT ![r].pc = "refresh"]
    /\ UNCHANGED <<policies, net, first, edits>>

\* ... then SetBurst, the tracked values, and the unlock.
RefreshBurst(r) ==
    /\ handler[r].pc = "refresh"
    /\ bucket' = [limiter |-> SetBurst(bucket.limiter, handler[r].rl.burst),
                  rpm |-> handler[r].rl.rpm, burst |-> handler[r].rl.burst]
    /\ mu' = Nobody
    /\ handler' = [handler EXCEPT ![r].pc = "allow"]
    /\ UNCHANGED <<policies, net, first, edits>>

\* limiter.Allow, outside the lock.
Allow(r) ==
    /\ handler[r].pc = "allow"
    /\ \/ /\ Allows(bucket.limiter, 1)
          /\ bucket' = [bucket EXCEPT !.limiter = Spend(@, 1)]
          /\ net' = net + Sixtieths
       \/ /\ ~Allows(bucket.limiter, 1)
          /\ UNCHANGED <<bucket, net>>
    /\ handler' = [handler EXCEPT ![r] = Idle]
    /\ UNCHANGED <<policies, mu, first, edits>>

\* A second passes.
Tick ==
    /\ bucket # NoBucket /\ RefillOf(bucket.limiter) > 0
    /\ bucket' = [bucket EXCEPT !.limiter = Refill(@)]
    /\ net' = net - RefillOf(bucket.limiter)
    /\ UNCHANGED <<policies, mu, handler, first, edits>>

LimitNext ==
    \/ \E p \in Policies : EditPolicy(p)
    \/ \E r \in Requests :
          \/ ReadPolicy(r) \/ AllowUnlimited(r) \/ BuildBucket(r) \/ FindBucket(r)
          \/ RefreshRate(r) \/ RefreshBurst(r) \/ Allow(r)
    \/ Tick

LimitSpec == LimitInit /\ [][LimitNext]_limitVars

-----------------------------------------------------------------------------
(* Properties.                                                             *)

\* ratelimit.go:121, 153-155: a policy edit hands nobody a free burst.  Everything
\* granted was in the first burst or has been refilled since, through any mix of
\* edits, stale reads and concurrent refreshes.
NoFreeBurst == net <= Sixtieths * first

\* ratelimit.go:37-41: two policies may target one tenant; whatever their number,
\* at most one governs and one does whenever any exists.
OnePolicyGoverns ==
    /\ Cardinality(PolicyForTenant) <= 1
    /\ (\E p \in Policies : policies[p] # Absent) => PolicyForTenant # {}
=============================================================================
