---------------------------- MODULE TokenBucket ----------------------------
(***************************************************************************)
(* golang.org/x/time/rate.Limiter as the gateway uses it.  Tokens are held  *)
(* in sixtieths, so that a rate of rpm/60 tokens a second is the integer     *)
(* rpm.  The library refills lazily and clamps when it next looks; refilling *)
(* on every tick of the clock and clamping at once gives the same answers.   *)
(***************************************************************************)
EXTENDS Integers

Sixtieths == 60

Least(a, b) == IF a < b THEN a ELSE b

\* NewLimiter: a limiter starts out full.
NewLimiter(limit, burst) == [limit |-> limit, burst |-> burst, tokens |-> Sixtieths * burst]

\* SetLimit and SetBurst keep the tokens, SetBurst what of them still fits.
SetLimit(l, limit) == [l EXCEPT !.limit = limit]
SetBurst(l, burst) == [l EXCEPT !.burst = burst, !.tokens = Least(@, Sixtieths * burst)]

\* AllowN: n tokens or nothing.
Allows(l, n) == Sixtieths * n <= l.tokens
Spend(l, n)  == [l EXCEPT !.tokens = @ - Sixtieths * n]

\* What a second of refill adds.
RefillOf(l) == Least(l.limit, Sixtieths * l.burst - l.tokens)
Refill(l)   == [l EXCEPT !.tokens = @ + RefillOf(l)]
=============================================================================
