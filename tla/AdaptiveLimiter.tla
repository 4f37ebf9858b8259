--------------------------- MODULE AdaptiveLimiter ---------------------------
(***************************************************************************)
(* The adaptive limiter of cliutil/ratelimit.go, as the client uses it: a  *)
(* request reserves the next slot at the present rate, and its response    *)
(* moves the rate.  Rate-limit headers, once seen, set the rate; without   *)
(* them it climbs by a quarter after RampAfter successes and is halved by  *)
(* a 429.                                                                  *)
(*                                                                         *)
(* Rates are integers, in tenths of a request per second; a zero ceiling,  *)
(* maximum or budget is an absent one, as in the code.  Slots lie Second   *)
(* \div rate ticks apart.  A limiter for a rate of zero is nil in the code *)
(* and does nothing: it has no state here.                                 *)
(***************************************************************************)
EXTENDS Integers

CONSTANTS
    Start,          \* set of [rate, max]: the limiters a client may be given
    Advertised,     \* set of [remaining, secs]: rate-limit headers
    RampAfter,      \* successes before the rate climbs (10)
    Brake,          \* brakeSafetySeconds (2)
    Second,         \* ticks between two slots at rate 1
    RateBound       \* bound: a limiter without a maximum climbs no further

ASSUME LimiterAssumption ==
    /\ Start \subseteq [rate : Nat \ {0}, max : Nat]
    /\ \A s \in Start : s.max \in {0, s.rate}
    /\ Advertised \subseteq [remaining : Nat, secs : Nat \ {0}]
    /\ {RampAfter, Brake, Second} \subseteq Nat \ {0}
    /\ RateBound \in Nat

VARIABLES
    limiter,        \* the AdaptiveLimiter's fields
    ahead,          \* ticks from now to the last reserved slot
    gap             \* ticks between the last two slots, -1 before the second

limiterVars == <<limiter, ahead, gap>>

\* newAdaptiveLimiter
New(s) == [rate         |-> s.rate,
           floor        |-> IF s.rate < 5 THEN s.rate ELSE 5,
           ceiling      |-> 0,
           max          |-> s.max,
           budget       |-> 0,
           successes    |-> 0,
           headerDriven |-> FALSE]

\* The zero lastRequest is long ago: the first request has no one to wait for.
LongAgo == -Second

LimiterInit ==
    /\ limiter \in {New(s) : s \in Start}
    /\ ahead = LongAgo
    /\ gap = -1

-----------------------------------------------------------------------------

AtMost(rate, cap) == IF cap > 0 /\ rate > cap THEN cap ELSE rate
AtLeast(rate, least) == IF rate < least THEN least ELSE rate

HighWater(l, h) == LET even == (10 * h.remaining) \div h.secs
                   IN  IF even > l.budget THEN even ELSE l.budget

\* What is left cannot cover a short burst at the refill rate: spend it slowly.
Braked(rate, h) == IF 10 * h.remaining < rate * Brake
                   THEN (10 * h.remaining) \div Brake ELSE rate

ObserveHeaders(l, h) ==
    LET budget == HighWater(l, h)
    IN  [l EXCEPT !.budget = budget,
                  !.rate = AtLeast(AtMost(Braked(budget, h), l.max), l.floor),
                  !.headerDriven = TRUE,
                  !.successes = 0]

\* Broken: the ramp forgets the maximum, or climbs back to the refused rate.
RampedPastMax(l) ==
    AtLeast(AtMost((5 * l.rate) \div 4, (9 * l.ceiling) \div 10), l.floor)
\* A quarter more, but below nine tenths of the rate that was refused.
Ramped(l) ==
    LET more == (5 * l.rate) \div 4
    IN  AtLeast(AtMost(AtMost(more, (9 * l.ceiling) \div 10), l.max), l.floor)

OnSuccess(l) ==
    IF l.headerDriven THEN [l EXCEPT !.successes = 0]
    ELSE IF l.successes + 1 < RampAfter THEN [l EXCEPT !.successes = @ + 1]
    ELSE [l EXCEPT !.rate = Ramped(l), !.successes = 0]

OnRateLimit(l) ==
    [l EXCEPT !.ceiling = l.rate,
              !.rate = AtLeast(l.rate \div 2, l.floor),
              !.budget = IF l.headerDriven THEN @ ELSE @ \div 2,
              !.successes = 0]

Observed(l, headers) ==
    IF headers = {} THEN l ELSE ObserveHeaders(l, CHOOSE h \in headers : TRUE)

\* No headers, or one pair of them.
MaybeHeaders == {{}} \cup {{h} : h \in Advertised}

-----------------------------------------------------------------------------

Delay == Second \div limiter.rate

\* Wait: the request's slot is one delay after the last one, or now.
Wait ==
    LET slot == IF ahead + Delay > 0 THEN ahead + Delay ELSE 0
    IN  /\ slot <= Second
        /\ ahead' = slot
        /\ gap' = IF ahead = LongAgo THEN gap ELSE slot - ahead
        /\ UNCHANGED limiter

\* A response below 400, with or without headers.
Succeed(headers) ==
    /\ limiter.rate <= RateBound
    /\ limiter' = OnSuccess(Observed(limiter, headers))
    /\ UNCHANGED <<ahead, gap>>

\* A 429: its headers are observed first.
Refuse(headers) ==
    /\ limiter' = OnRateLimit(Observed(limiter, headers))
    /\ UNCHANGED <<ahead, gap>>

\* Any other error says something only through its headers.
Err(headers) ==
    /\ limiter' = Observed(limiter, headers)
    /\ UNCHANGED <<ahead, gap>>

\* Time passes; a slot longer ago than any delay is as good as none.
Elapse ==
    /\ ahead > LongAgo
    /\ ahead' = ahead - 1
    /\ UNCHANGED <<limiter, gap>>

LimiterNext ==
    \/ Wait
    \/ \E headers \in MaybeHeaders : Succeed(headers) \/ Refuse(headers) \/ Err(headers)
    \/ Elapse

LimiterSpec == LimiterInit /\ [][LimiterNext]_limiterVars

-----------------------------------------------------------------------------

LimiterTypeOK ==
    /\ limiter \in [rate : Nat \ {0}, floor : Nat \ {0}, ceiling : Nat, max : Nat,
                    budget : Nat, successes : 0 .. RampAfter - 1, headerDriven : BOOLEAN]
    /\ ahead \in Int
    /\ gap \in Int

(* Whatever headers, successes and refusals follow one another, the rate   *)
(* stays between the floor and the user's maximum: it neither starves nor  *)
(* passes the stated limit.                                                *)
WithinLimits ==
    /\ limiter.floor <= limiter.rate
    /\ limiter.max > 0 => limiter.rate <= limiter.max

(* Without headers the ramp never returns to a rate the server refused: it *)
(* stays a tenth below, unless that is below the floor.                    *)
BelowRefusedRate ==
    limiter.ceiling > 0 /\ ~limiter.headerDriven =>
        \/ limiter.rate = limiter.floor
        \/ 10 * limiter.rate <= 9 * limiter.ceiling

(* Two requests in a row are never closer than the user's rate limit       *)
(* allows, whatever happened to the rate between them.                     *)
RequestsSpaced == gap >= 0 /\ limiter.max > 0 => gap >= Second \div limiter.max

(* What OnSuccess, OnRateLimit and ObserveHeaders keep between them.       *)
RateWithinLimits == WithinLimits /\ BelowRefusedRate /\ RequestsSpaced
=============================================================================
