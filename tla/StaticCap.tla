----------------------------- MODULE StaticCap -----------------------------
(***************************************************************************)
(* The static-cap admission mode (staticCapAdmitter in                      *)
(* internal/gateway/admission.go) for one backend: standard-tier requests of *)
(* at least longThreshold tokens draw their estimated size from the          *)
(* backend's bucket, which is built by the first of them to ask.  A refused   *)
(* client retries when it is told to (429) and gives up when it is told that  *)
(* no retry can help (413).                                                  *)
(***************************************************************************)
EXTENDS TokenBucket

CONSTANTS
    Clients,          \* request handlers, one request of a client at a time
    Tier, Size,       \* each client's tier and EstInputTokens
    Rate,             \* tokens a second
    Burst,
    LongThreshold

ASSUME StaticCapAssumption ==
    /\ Size \in [Clients -> Nat]
    /\ Tier \in [Clients -> {"standard", "premium"}]
    /\ Rate \in Nat /\ Burst \in Nat /\ LongThreshold \in Nat

VARIABLES
    limiter,          \* the backend's bucket in a.limiters, or NoLimiter
    client,           \* where each client's request is
    verdict,          \* the reason its last request got
    capNet            \* history: sixtieths granted minus sixtieths refilled

capVars == <<limiter, client, verdict, capNet>>

NoLimiter == [limit |-> -1, burst |-> 0, tokens |-> 0]

\* The population the bucket meters.
Eligible(c) == Tier[c] = "standard" /\ Size[c] >= LongThreshold

Admits == {"premium_tier", "below_threshold", "within_budget"}

CapInit ==
    /\ limiter = NoLimiter
    /\ client = [c \in Clients |-> "asking"]
    /\ verdict = [c \in Clients |-> ""]
    /\ capNet = 0

Answered(c, reason) ==
    /\ client' = [client EXCEPT ![c] = "answered"]
    /\ verdict' = [verdict EXCEPT ![c] = reason]

\* Outside the eligible population: admitted, nothing is charged.
AdmitUnmetered(c) ==
    /\ client[c] = "asking" /\ ~Eligible(c)
    /\ Answered(c, IF Tier[c] # "standard" THEN "premium_tier" ELSE "below_threshold")
    /\ UNCHANGED <<limiter, capNet>>

\* Mutant of ExceedsBurst: AllowN's refusal is left to speak for this case.
ExceedsBurstUnchecked(c) == FALSE

\* A request the bucket can never hold.
ExceedsBurst(c) == Size[c] > Burst

RefuseForGood(c) ==
    /\ client[c] = "asking" /\ Eligible(c) /\ ExceedsBurst(c)
    /\ Answered(c, "input_exceeds_burst")
    /\ UNCHANGED <<limiter, capNet>>

\* Mutant of LimiterFor: a bucket for every request that asks.
LimiterForEach(c) ==
    /\ client[c] = "asking" /\ Eligible(c) /\ ~ExceedsBurst(c)
    /\ limiter' = NewLimiter(Sixtieths * Rate, Burst)
    /\ client' = [client EXCEPT ![c] = "metered"]
    /\ UNCHANGED <<verdict, capNet>>

\* limiterFor, one critical section: find the backend's bucket or build it.
LimiterFor(c) ==
    /\ client[c] = "asking" /\ Eligible(c) /\ ~ExceedsBurst(c)
    /\ limiter' = IF limiter = NoLimiter THEN NewLimiter(Sixtieths * Rate, Burst) ELSE limiter
    /\ client' = [client EXCEPT ![c] = "metered"]
    /\ UNCHANGED <<verdict, capNet>>

\* AllowN, outside the lock.
AllowN(c) ==
    /\ client[c] = "metered"
    /\ \/ /\ Allows(limiter, Size[c])
          /\ limiter' = Spend(limiter, Size[c])
          /\ capNet' = capNet + Sixtieths * Size[c]
          /\ Answered(c, "within_budget")
       \/ /\ ~Allows(limiter, Size[c])
          /\ Answered(c, "input_rate_limit")
          /\ UNCHANGED <<limiter, capNet>>

\* A client that was told 429 asks again; an admitted one may send another request.
Again(c) ==
    /\ client[c] = "answered" /\ verdict[c] # "input_exceeds_burst"
    /\ client' = [client EXCEPT ![c] = "asking"]
    /\ UNCHANGED <<limiter, verdict, capNet>>

\* A second passes.
CapTick ==
    /\ limiter # NoLimiter /\ RefillOf(limiter) > 0
    /\ limiter' = Refill(limiter)
    /\ capNet' = capNet - RefillOf(limiter)
    /\ UNCHANGED <<client, verdict>>

\* What the handler of a client's request does next: one of these is enabled.
Handle(c) == AdmitUnmetered(c) \/ RefuseForGood(c) \/ LimiterFor(c) \/ AllowN(c)

CapNext ==
    \/ \E c \in Clients : Handle(c) \/ Again(c)
    \/ CapTick

CapSpec == CapInit /\ [][CapNext]_capVars

\* Time passes, handlers run and a refused client retries.
CapFairSpec ==
    /\ CapSpec
    /\ WF_capVars(CapTick)
    /\ \A c \in Clients : /\ WF_capVars(Handle(c))
                          /\ WF_capVars(Again(c) /\ verdict[c] = "input_rate_limit")

-----------------------------------------------------------------------------
(* Properties.                                                             *)

\* The cap is a cap (admission.go:228-240): whatever handlers race to build the
\* bucket, the tokens admitted never exceed one burst and what was refilled.
CapHolds == capNet <= Sixtieths * Burst

\* admission.go:148-155: "input_rate_limit" invites a retry, so a client that
\* heeds it is let in at last, once the others that draw from the bucket fall
\* silent; only a request that can never fit is told something else.
RetryPays ==
    \A c \in {d \in Clients : Eligible(d)} :
        <>[](\A d \in Clients \ {c} : Eligible(d) => client[d] = "answered") =>
            (verdict[c] = "input_rate_limit" ~> verdict[c] \in Admits)
=============================================================================
