--------------------------- MODULE RateLimitProofs ---------------------------
(***************************************************************************)
(* The two things that hold requests back.  The rate of the adaptive       *)
(* limiter keeps within its limits, for every starting rate, every header  *)
(* and every number of successes and refusals.  The reservation ledger,    *)
(* and the index file behind the same kind of lock, for any number of      *)
(* processes: the lock excludes while nobody dies, and what is granted and *)
(* what is recorded is not lost.                                           *)
(***************************************************************************)
EXTENDS AdaptiveLimiter, EndpointLedger, FiniteSetTheorems, TLAPS

-----------------------------------------------------------------------------
(* Integer division                                                        *)

\* A quotient is an integer, with a remainder below the divisor.
LEMMA Division ==
    ASSUME NEW n \in Int, NEW d \in Int, d > 0
    PROVE  /\ n \div d \in Int
           /\ d * (n \div d) <= n
           /\ n < d * (n \div d) + d
  BY SMT

\* Of two divisors, the larger has the smaller quotient.
LEMMA LargerDivisor ==
    ASSUME NEW n \in Int, NEW a \in Int, NEW b \in Int, a > 0, a <= b, n >= 0
    PROVE  n \div b <= n \div a
<1> DEFINE p == n \div a
           q == n \div b
<1>1. p \in Int /\ q \in Int /\ b * q <= n /\ n < a * p + a
  BY Division
<1>2. ASSUME q > p PROVE FALSE
  <2>1. q >= 0 BY <1>1, <1>2, Division
  <2> QED BY <1>1, <1>2
<1> QED BY <1>1, <1>2

-----------------------------------------------------------------------------
(* What the limiter's methods return                                       *)

Limiters == [rate : Nat \ {0}, floor : Nat \ {0}, ceiling : Nat, max : Nat,
             budget : Nat, successes : 0 .. RampAfter - 1, headerDriven : BOOLEAN]

(* What the invariant asks of a limiter.  A refused rate was at least the  *)
(* floor: this is what keeps a ceiling harmless whose nine tenths round to *)
(* none, for the rate is then the floor itself, a single unit.             *)
Sound(l) ==
    /\ l \in Limiters
    /\ l.max > 0 => l.floor <= l.max
    /\ l.ceiling > 0 => l.floor <= l.ceiling
    /\ l.floor <= l.rate
    /\ l.max > 0 => l.rate <= l.max
    /\ l.ceiling > 0 /\ ~l.headerDriven =>
           l.rate = l.floor \/ 10 * l.rate <= 9 * l.ceiling

\* Headers move the rate and the budget within the limits.
LEMMA ObserveSound ==
    ASSUME NEW l, Sound(l), NEW h \in Advertised
    PROVE  Sound(ObserveHeaders(l, h)) /\ ObserveHeaders(l, h).max = l.max
<1> DEFINE budget == HighWater(l, h)
           braked == Braked(budget, h)
           rate   == AtLeast(AtMost(braked, l.max), l.floor)
<1>0. /\ l \in Limiters /\ l.max \in Nat /\ l.floor \in Nat \ {0} /\ l.budget \in Nat
      /\ h.remaining \in Nat /\ h.secs \in Nat \ {0} /\ Brake \in Nat \ {0}
  BY LimiterAssumption DEF Sound, Limiters
<1>1. (10 * h.remaining) \div h.secs \in Int /\ (10 * h.remaining) \div Brake \in Int
  BY <1>0, Division
<1>2. budget \in Nat
  BY <1>0, <1>1 DEF HighWater
<1>3. braked \in Int
  BY <1>1, <1>2 DEF Braked
<1>4. /\ rate \in Nat \ {0} /\ l.floor <= rate
      /\ l.max > 0 => rate <= l.max
  <2>1. /\ AtMost(braked, l.max) \in Int
        /\ l.max > 0 => AtMost(braked, l.max) <= l.max
    BY <1>0, <1>3 DEF AtMost
  <2>2. /\ rate \in Nat \ {0} /\ l.floor <= rate
        /\ rate = AtMost(braked, l.max) \/ rate = l.floor
    BY <1>0, <2>1 DEF AtLeast
  <2> QED BY <2>1, <2>2 DEF Sound
<1>5. ObserveHeaders(l, h) = [l EXCEPT !.budget = budget, !.rate = rate,
                                       !.headerDriven = TRUE, !.successes = 0]
  BY DEF ObserveHeaders
<1> HIDE DEF budget, rate
<1> DEFINE m == ObserveHeaders(l, h)
<1> HIDE DEF m
<1>6. m = [rate |-> rate, floor |-> l.floor, ceiling |-> l.ceiling, max |-> l.max,
           budget |-> budget, successes |-> 0, headerDriven |-> TRUE]
  BY <1>0, <1>5 DEF Limiters, m
<1>7. m \in Limiters
  BY <1>0, <1>2, <1>4, <1>6, LimiterAssumption DEF Limiters
<1> QED BY <1>4, <1>6, <1>7 DEF Sound, m

\* The ramp stays a tenth below the refused rate, or at the floor.
LEMMA RampSound ==
    ASSUME NEW l, Sound(l), ~l.headerDriven
    PROVE  /\ Ramped(l) \in Nat \ {0}
           /\ l.floor <= Ramped(l)
           /\ l.max > 0 => Ramped(l) <= l.max
           /\ l.ceiling > 0 => Ramped(l) = l.floor \/ 10 * Ramped(l) <= 9 * l.ceiling
<1> DEFINE more  == (5 * l.rate) \div 4
           below == (9 * l.ceiling) \div 10
           once  == AtMost(more, below)
           twice == AtMost(once, l.max)
<1>0. /\ l.max \in Nat /\ l.floor \in Nat \ {0} /\ l.ceiling \in Nat /\ l.rate \in Nat \ {0}
      /\ l.max > 0 => l.floor <= l.max
  BY DEF Sound, Limiters
<1>1. more \in Nat /\ 4 * more <= 5 * l.rate /\ below \in Nat /\ 10 * below <= 9 * l.ceiling
      /\ 9 * l.ceiling < 10 * below + 10
  BY <1>0
<1>2. /\ once \in Int /\ once <= more /\ (below > 0 => once <= below)
      /\ twice \in Int /\ twice <= once /\ (l.max > 0 => twice <= l.max)
  BY <1>0, <1>1 DEF AtMost
<1>3. /\ AtLeast(twice, l.floor) \in Nat \ {0} /\ l.floor <= AtLeast(twice, l.floor)
      /\ AtLeast(twice, l.floor) = twice \/ AtLeast(twice, l.floor) = l.floor
  BY <1>0, <1>2 DEF AtLeast
<1>4. Ramped(l) = AtLeast(twice, l.floor)
  BY DEF Ramped
<1> HIDE DEF more, below, once, twice
\* Nine tenths of a ceiling of one unit round to no ceiling at all.
<1>5. ASSUME l.ceiling > 0, below = 0 PROVE twice <= l.floor
  <2>1. l.ceiling = 1 BY <1>0, <1>1, <1>5
  <2>2. l.rate = 1 BY <1>0, <2>1 DEF Sound, Limiters
  <2>3. more <= 1 BY <1>1, <2>2
  <2> QED BY <1>0, <1>1, <1>2, <2>3
<1> QED BY <1>0, <1>1, <1>2, <1>3, <1>4, <1>5

LEMMA SuccessSound ==
    ASSUME NEW l, Sound(l)
    PROVE  Sound(OnSuccess(l)) /\ OnSuccess(l).max = l.max
<1> DEFINE m == OnSuccess(l)
<1>0. l \in Limiters /\ RampAfter \in Nat \ {0}
  BY LimiterAssumption DEF Sound
<1>1. CASE l.headerDriven
  <2>1. m = [l EXCEPT !.successes = 0] BY <1>1 DEF OnSuccess
  <2> HIDE DEF m
  <2> QED BY <1>0, <2>1 DEF Sound, Limiters, m
<1>2. CASE ~l.headerDriven /\ l.successes + 1 >= RampAfter
  <2>1. m = [l EXCEPT !.rate = Ramped(l), !.successes = 0]
    BY <1>0, <1>2 DEF OnSuccess, Limiters
  <2>2. Ramped(l) \in Nat \ {0} BY <1>2, RampSound
  <2> HIDE DEF m
  <2>3. m = [rate |-> Ramped(l), floor |-> l.floor, ceiling |-> l.ceiling, max |-> l.max,
             budget |-> l.budget, successes |-> 0, headerDriven |-> l.headerDriven]
    BY <1>0, <2>1 DEF Limiters
  <2>4. m \in Limiters
    BY <1>0, <2>2, <2>3 DEF Limiters
  <2> QED BY <1>2, <2>3, <2>4, RampSound DEF Sound, m
<1>3. CASE ~l.headerDriven /\ ~(l.successes + 1 >= RampAfter)
  <2>1. m = [l EXCEPT !.successes = @ + 1]
    BY <1>0, <1>3 DEF OnSuccess, Limiters
  <2>2. l.successes + 1 \in 0 .. RampAfter - 1 BY <1>0, <1>3 DEF Limiters
  <2> HIDE DEF m
  <2> QED BY <1>0, <2>1, <2>2 DEF Sound, Limiters, m
<1> QED BY <1>1, <1>2, <1>3

LEMMA RefusalSound ==
    ASSUME NEW l, Sound(l)
    PROVE  Sound(OnRateLimit(l)) /\ OnRateLimit(l).max = l.max
<1> DEFINE half == l.rate \div 2
           budget == IF l.headerDriven THEN l.budget ELSE l.budget \div 2
<1>0. /\ l \in Limiters /\ RampAfter \in Nat \ {0} /\ l.floor \in Nat \ {0}
      /\ half \in Nat /\ 2 * half <= l.rate /\ budget \in Nat
  BY LimiterAssumption DEF Sound, Limiters
<1>1. /\ AtLeast(half, l.floor) \in Nat \ {0} /\ l.floor <= AtLeast(half, l.floor)
      /\ AtLeast(half, l.floor) = half \/ AtLeast(half, l.floor) = l.floor
  BY <1>0 DEF AtLeast
<1>2. OnRateLimit(l) = [l EXCEPT !.ceiling = l.rate, !.rate = AtLeast(half, l.floor),
                                 !.budget = budget, !.successes = 0]
  BY <1>0 DEF OnRateLimit, Limiters
<1> HIDE DEF half, budget
<1> DEFINE m == OnRateLimit(l)
<1> HIDE DEF m
<1>7. m = [rate |-> AtLeast(half, l.floor), floor |-> l.floor, ceiling |-> l.rate,
           max |-> l.max, budget |-> budget, successes |-> 0,
           headerDriven |-> l.headerDriven]
  BY <1>0, <1>2 DEF Limiters, m
<1>3. /\ m \in Limiters /\ m.rate = AtLeast(half, l.floor) /\ m.ceiling = l.rate
      /\ m.floor = l.floor /\ m.max = l.max
  BY <1>0, <1>1, <1>7 DEF Limiters
<1>4. l.floor <= l.rate /\ l.rate \in Nat /\ (l.max > 0 => l.floor <= l.max /\ l.rate <= l.max)
  BY <1>0 DEF Sound, Limiters
<1>5. m.max > 0 => m.rate <= m.max
  BY <1>0, <1>1, <1>3, <1>4 DEF Limiters
<1>6. m.rate = m.floor \/ 10 * m.rate <= 9 * m.ceiling
  BY <1>0, <1>1, <1>3, <1>4
<1> QED BY <1>0, <1>1, <1>3, <1>4, <1>5, <1>6 DEF Sound, m

\* Whatever headers came with a response, or none.
LEMMA ObservedSound ==
    ASSUME NEW l, Sound(l), NEW headers \in MaybeHeaders
    PROVE  Sound(Observed(l, headers)) /\ Observed(l, headers).max = l.max
<1>1. CASE headers = {}
  BY <1>1 DEF Observed
<1>2. CASE headers # {}
  <2>1. \E h \in headers : TRUE BY <1>2
  <2>2. (CHOOSE h \in headers : TRUE) \in headers BY <2>1
  <2>3. headers \subseteq Advertised BY DEF MaybeHeaders
  <2> DEFINE first == CHOOSE h \in headers : TRUE
  <2>4. Observed(l, headers) = ObserveHeaders(l, first) BY <1>2 DEF Observed
  <2>5. first \in Advertised BY <2>2, <2>3
  <2> HIDE DEF first
  <2> QED BY <2>4, <2>5, ObserveSound
<1> QED BY <1>1, <1>2

-----------------------------------------------------------------------------
(* The specification                                                       *)

LimiterInv == Sound(limiter) /\ ahead \in Int /\ gap \in Int /\ RequestsSpaced

LEMMA InitSound == LimiterInit => LimiterInv
<1> SUFFICES ASSUME LimiterInit PROVE LimiterInv
  OBVIOUS
<1>1. PICK s \in Start : limiter = New(s)
  BY DEF LimiterInit
<1>2. s.rate \in Nat \ {0} /\ s.max \in {0, s.rate} /\ RampAfter \in Nat \ {0}
      /\ Second \in Nat \ {0}
  BY LimiterAssumption
<1>3. Sound(limiter)
  BY <1>1, <1>2 DEF New, Sound, Limiters
<1>4. ahead \in Int /\ gap \in Int /\ ~(gap >= 0)
  BY <1>2 DEF LimiterInit, LongAgo
<1> QED BY <1>3, <1>4 DEF LimiterInv, RequestsSpaced

\* A step that moves the rate leaves the slots alone.
LEMMA RateStep ==
    ASSUME LimiterInv, NEW l, Sound(l), l.max = limiter.max,
           limiter' = l, UNCHANGED <<ahead, gap>>
    PROVE  LimiterInv'
  BY DEF LimiterInv, RequestsSpaced

LEMMA StepSound == LimiterInv /\ [LimiterNext]_limiterVars => LimiterInv'
<1> SUFFICES ASSUME LimiterInv, [LimiterNext]_limiterVars PROVE LimiterInv'
  OBVIOUS
<1>1. CASE Wait
  <2> DEFINE slot == IF ahead + Delay > 0 THEN ahead + Delay ELSE 0
  <2>1. /\ limiter \in Limiters /\ limiter.rate \in Nat \ {0} /\ limiter.max \in Nat
        /\ limiter.max > 0 => limiter.rate <= limiter.max
        /\ ahead \in Int /\ gap \in Int /\ Second \in Nat \ {0}
    BY LimiterAssumption DEF LimiterInv, Sound, Limiters
  <2>2. Delay \in Int
    BY <2>1, Division DEF Delay
  <2>3. slot \in Int /\ slot - ahead >= Delay
    BY <2>1, <2>2
  <2>4. /\ ahead' = slot /\ limiter' = limiter
        /\ gap' = gap \/ gap' = slot - ahead
    BY <1>1 DEF Wait
  <2>5. limiter.max > 0 => Delay >= Second \div limiter.max
    BY <2>1, LargerDivisor DEF Delay
  <2>6. limiter.max > 0 => Second \div limiter.max \in Int
    BY <2>1, Division
  <2> HIDE DEF slot
  <2>7. RequestsSpaced'
    BY <2>1, <2>2, <2>3, <2>4, <2>5, <2>6 DEF LimiterInv, RequestsSpaced
  <2> QED BY <2>1, <2>3, <2>4, <2>7 DEF LimiterInv
<1>2. ASSUME NEW headers \in MaybeHeaders, Succeed(headers) PROVE LimiterInv'
  BY <1>2, ObservedSound, SuccessSound, RateStep DEF Succeed, LimiterInv
<1>3. ASSUME NEW headers \in MaybeHeaders, Refuse(headers) PROVE LimiterInv'
  BY <1>3, ObservedSound, RefusalSound, RateStep DEF Refuse, LimiterInv
<1>4. ASSUME NEW headers \in MaybeHeaders, Err(headers) PROVE LimiterInv'
  BY <1>4, ObservedSound, RateStep DEF Err, LimiterInv
<1>5. CASE Elapse
  BY <1>5 DEF Elapse, LimiterInv, RequestsSpaced
<1>6. CASE UNCHANGED limiterVars
  BY <1>6 DEF limiterVars, LimiterInv, RequestsSpaced
<1> QED BY <1>1, <1>2, <1>3, <1>4, <1>5, <1>6 DEF LimiterNext

LEMMA InvImplies == LimiterInv => LimiterTypeOK /\ RateWithinLimits
  BY DEF LimiterInv, Sound, Limiters, LimiterTypeOK, RateWithinLimits, WithinLimits,
         BelowRefusedRate

(* The limiter keeps to its ranges: the rate is never zero, so that the    *)
(* distance of two slots is always defined.                                *)
THEOREM LimiterTypeCorrect == LimiterSpec => []LimiterTypeOK
  BY InitSound, StepSound, InvImplies, PTL DEF LimiterSpec

(* Whatever limiter a client is given, whatever headers its responses have *)
(* and however successes and refusals alternate: the rate stays between    *)
(* its floor and the user's maximum, without headers it never climbs back  *)
(* to a refused rate, and two requests are as far apart as the maximum     *)
(* asks for.                                                               *)
THEOREM RateWithinLimitsCorrect == LimiterSpec => []RateWithinLimits
  BY InitSound, StepSound, InvImplies, PTL DEF LimiterSpec

-----------------------------------------------------------------------------
(* Types                                                                   *)

LEMMA LedgerConstants ==
    /\ "nobody" \notin Caller
    /\ Burst \in Nat /\ Burst >= 1 /\ Parts \in Nat /\ Parts >= 1 /\ StaleAfter \in Nat
    /\ Burst * Parts \in Nat /\ Burst * Parts >= Parts
<1>1. /\ "nobody" \notin Caller
      /\ Burst \in Nat /\ Burst >= 1 /\ Parts \in Nat /\ Parts >= 1 /\ StaleAfter \in Nat
  BY LedgerAssumption
<1> QED BY <1>1

Buckets == [parts : 0 .. Burst * Parts, updated : Nat \cup {-1}]
Places == {"idle", "lock", "break", "read", "write", "release", "sleep"}
Callers ==
    [pc : Places, file : File, new : Buckets, seen : SUBSET Caller, wake : Nat, waits : Nat,
     finished : BOOLEAN]

LedgerType ==
    /\ clock \in Nat
    /\ lock \in [File -> [owner : Caller \cup {"nobody"}, at : Nat]]
    /\ bucket \in Buckets
    /\ index \subseteq Caller
    /\ caller \in [Caller -> Callers]
    /\ IsFiniteSet(reserved)
    /\ deaths \in Nat
    /\ overlapped \in BOOLEAN

LEMMA Smaller ==
    ASSUME NEW a \in Int, NEW b \in Int
    PROVE  Min({a, b}) = IF a <= b THEN a ELSE b
<1> DEFINE m == IF a <= b THEN a ELSE b
<1>1. m \in {a, b} /\ \A y \in {a, b} : m <= y
  OBVIOUS
<1>2. \A x \in {a, b} : (\A y \in {a, b} : x <= y) => x = m
  OBVIOUS
<1> QED BY <1>1, <1>2 DEF Min

LEMMA Larger ==
    ASSUME NEW a \in Int, NEW b \in Int
    PROVE  Max({a, b}) = IF a >= b THEN a ELSE b
<1> DEFINE m == IF a >= b THEN a ELSE b
<1>1. m \in {a, b} /\ \A y \in {a, b} : m >= y
  OBVIOUS
<1>2. \A x \in {a, b} : (\A y \in {a, b} : x >= y) => x = m
  OBVIOUS
<1> QED BY <1>1, <1>2 DEF Max

-----------------------------------------------------------------------------
(* The token bucket                                                        *)

\* The requests granted for a moment from "from" on.
Since(S, from) == {r \in S : r.at >= from}
During(S, from, to) == {r \in S : r.at \in from .. to}

\* At the time now, bucket b is what is left of Burst tokens and their
\* refill after the grants S.
Accounts(now, b, S) ==
    IF b.updated = -1 THEN S = {}
    ELSE /\ \A r \in S : r.at \in Nat /\ r.at <= b.updated
         /\ b.updated > now => b.parts = 0
         /\ \A from \in Nat : from <= b.updated =>
              Parts * Cardinality(Since(S, from)) + b.parts <= Burst * Parts + (b.updated - from)

\* No stretch of time has more grants than a full bucket and its refill.
Fair(S) ==
    \A from, to \in Nat : from <= to /\ (\E r \in S : r.at = to) =>
        Parts * Cardinality(During(S, from, to)) <= Burst * Parts + (to - from)

LEMMA TimesOne ==
    ASSUME NEW k \in Nat, NEW m \in Nat, NEW n \in Nat, m <= n + 1
    PROVE  k * m <= k * n + k
<1>1. k * m <= k * (n + 1)
  <2>1. PICK j \in Nat : n + 1 = m + j
    OBVIOUS
  <2>2. k * (n + 1) = k * m + k * j
    BY <2>1
  <2>3. k * j >= 0
    OBVIOUS
  <2> QED BY <2>2, <2>3
<1> QED BY <1>1

LEMMA RefilledAccounts ==
    ASSUME LedgerType, Accounts(clock, bucket, reserved)
    PROVE  LET now == Refilled(bucket)
           IN  /\ now \in Buckets /\ now.updated >= clock /\ now.updated # -1
               /\ Accounts(clock, now, reserved)
<1> DEFINE now == Refilled(bucket)
<1>0. /\ clock \in Nat /\ bucket \in Buckets /\ bucket.parts \in Nat /\ bucket.parts <= Burst * Parts
      /\ bucket.updated \in Nat \cup {-1} /\ Burst * Parts \in Nat
      /\ \A from \in Nat : IsFiniteSet(Since(reserved, from))
  BY LedgerConstants, FS_Subset DEF LedgerType, Buckets, Since
<1>1. CASE bucket.updated = -1
  <2>1. now = [parts |-> Burst * Parts, updated |-> clock] /\ reserved = {}
    BY <1>1 DEF Refilled, Accounts
  <2>2. \A from \in Nat : Cardinality(Since(reserved, from)) = 0
    BY <1>0, <2>1, FS_EmptySet DEF Since
  <2>3. Parts * 0 = 0
    BY LedgerConstants
  <2> QED BY <1>0, <2>1, <2>2, <2>3 DEF Accounts, Buckets
<1>2. CASE bucket.updated # -1 /\ bucket.updated < clock
  <2> DEFINE more == bucket.parts + clock - bucket.updated
             parts == IF Burst * Parts <= more THEN Burst * Parts ELSE more
  <2>1. bucket.updated \in Nat /\ more \in Nat /\ Burst * Parts \in Nat
    BY <1>0, <1>2
  <2>2. now = [parts |-> parts, updated |-> clock]
    BY <1>2, <2>1, Smaller DEF Refilled
  <2>3. parts \in 0 .. Burst * Parts /\ parts <= more
    BY <2>1
  <2>4. now \in Buckets /\ now.parts = parts /\ now.updated = clock
    BY <1>0, <2>2, <2>3 DEF Buckets
  <2> HIDE DEF parts
  <2>5. ASSUME NEW from \in Nat, from <= clock
        PROVE  Parts * Cardinality(Since(reserved, from)) + parts <= Burst * Parts + (clock - from)
    <3>1. PICK n \in Nat : n = Parts * Cardinality(Since(reserved, from))
      BY <1>0, LedgerConstants, FS_CardinalityType
    <3>2. CASE from <= bucket.updated
      <4>1. n + bucket.parts <= Burst * Parts + (bucket.updated - from)
        BY <1>2, <3>1, <3>2 DEF Accounts
      <4> QED BY <1>0, <2>1, <2>3, <2>5, <3>1, <4>1
    <3>3. CASE from > bucket.updated
      <4>1. Since(reserved, from) = {}
        BY <1>2, <2>1, <3>3 DEF Accounts, Since
      <4>2. n = 0
        BY <3>1, <4>1, FS_EmptySet, LedgerConstants
      <4> QED BY <1>0, <2>1, <2>3, <2>5, <3>1, <4>2
    <3> QED BY <2>1, <3>2, <3>3
  <2>6. \A r \in reserved : r.at \in Nat /\ r.at <= clock
    BY <1>0, <1>2, <2>1 DEF Accounts
  <2> QED BY <1>0, <1>2, <2>4, <2>5, <2>6 DEF Accounts
<1>3. CASE bucket.updated # -1 /\ bucket.updated >= clock
  <2>1. now = bucket
    BY <1>0, <1>3 DEF Refilled
  <2> QED BY <1>0, <1>3, <2>1
<1> QED BY <1>0, <1>1, <1>2, <1>3

LEMMA OneMore ==
    ASSUME NEW S, IsFiniteSet(S), NEW r, NEW from \in Nat
    PROVE  \E m, n \in Nat : /\ m = Parts * Cardinality(Since(S \cup {r}, from))
                             /\ n = Parts * Cardinality(Since(S, from))
                             /\ m <= n + Parts
<1>1. IsFiniteSet(Since(S, from)) /\ IsFiniteSet(Since(S, from) \cup {r})
  BY FS_Subset, FS_AddElement DEF Since
<1>2. Since(S \cup {r}, from) \subseteq Since(S, from) \cup {r}
  BY DEF Since
<1>3. Cardinality(Since(S, from) \cup {r}) <= Cardinality(Since(S, from)) + 1
  BY <1>1, FS_AddElement, FS_CardinalityType
<1>4. /\ IsFiniteSet(Since(S \cup {r}, from))
      /\ Cardinality(Since(S \cup {r}, from)) <= Cardinality(Since(S, from) \cup {r})
  BY <1>1, <1>2, FS_Subset
<1>5. PICK c, d \in Nat : /\ c = Cardinality(Since(S \cup {r}, from))
                          /\ d = Cardinality(Since(S, from)) /\ c <= d + 1
  BY <1>1, <1>3, <1>4, FS_CardinalityType
<1>6. Parts * c \in Nat /\ Parts * d \in Nat
  BY LedgerConstants
<1>7. Parts * c <= Parts * d + Parts
  BY <1>5, TimesOne, LedgerConstants
<1> QED BY <1>5, <1>6, <1>7

\* The moment given out is the one the bucket is accounted to, so no
\* stretch of time that ends there holds too many.
LEMMA StaysFair ==
    ASSUME NEW b \in Buckets, NEW S, IsFiniteSet(S), NEW r, r.at = b.updated, b.updated \in Nat,
           Fair(S), Accounts(clock, b, S \cup {r})
    PROVE  Fair(S \cup {r})
<1> SUFFICES ASSUME NEW from \in Nat, NEW to \in Nat, from <= to,
                    \E q \in S \cup {r} : q.at = to
             PROVE  Parts * Cardinality(During(S \cup {r}, from, to)) <= Burst * Parts + (to - from)
  BY DEF Fair
<1>0. /\ b.updated \in Nat /\ b.updated # -1 /\ b.parts \in Nat /\ to <= b.updated
      /\ \A q \in S \cup {r} : q.at \in Nat /\ q.at <= b.updated
  BY DEF Accounts, Buckets
<1>1. CASE to = b.updated
  <2>1. During(S \cup {r}, from, to) = Since(S \cup {r}, from)
    BY <1>0, <1>1 DEF During, Since
  <2>2. Parts * Cardinality(Since(S \cup {r}, from)) + b.parts <= Burst * Parts + (b.updated - from)
    BY <1>0, <1>1 DEF Accounts
  <2>3. PICK n, m \in Nat : /\ n = Parts * Cardinality(Since(S \cup {r}, from))
                            /\ m = Parts * Cardinality(Since(S, from))
                            /\ n <= m + Parts
    BY OneMore
  <2> QED BY <1>0, <1>1, <2>1, <2>2, <2>3, LedgerConstants
<1>2. CASE to # b.updated
  <2>1. During(S \cup {r}, from, to) = During(S, from, to)
    BY <1>0, <1>2 DEF During
  <2>2. \E q \in S : q.at = to
    BY <1>2
  <2> QED BY <2>1, <2>2 DEF Fair
<1> QED BY <1>1, <1>2

LEMMA TakeAccounts ==
    ASSUME NEW b \in Buckets, b.updated >= clock, b.updated # -1, clock \in Nat,
           NEW S, IsFiniteSet(S), Accounts(clock, b, S), Fair(S), NEW r, r.at = Moment(b)
    PROVE  /\ Take(b) \in Buckets /\ Moment(b) \in Nat
           /\ Accounts(clock, Take(b), S \cup {r}) /\ Fair(S \cup {r})
<1> DEFINE N == Take(b)
<1>0. /\ b = [parts |-> b.parts, updated |-> b.updated]
      /\ b.updated \in Nat /\ b.parts \in Nat /\ b.parts <= Burst * Parts
      /\ \A q \in S : q.at \in Nat /\ q.at <= b.updated
      /\ b.updated > clock => b.parts = 0
      /\ \A from \in Nat : from <= b.updated =>
              Parts * Cardinality(Since(S, from)) + b.parts <= Burst * Parts + (b.updated - from)
  BY LedgerConstants DEF Accounts, Buckets
<1>1. CASE b.parts >= Parts
  <2>1. b.updated = clock
    BY <1>0, <1>1, LedgerConstants
  <2>2. N = [parts |-> b.parts - Parts, updated |-> clock] /\ r.at = clock
    BY <1>0, <1>1, <2>1 DEF Take, Moment
  <2>3. N \in Buckets
    BY <1>0, <1>1, <2>2, LedgerConstants DEF Buckets
  <2>4. ASSUME NEW from \in Nat, from <= clock
        PROVE  Parts * Cardinality(Since(S \cup {r}, from)) + (b.parts - Parts)
                 <= Burst * Parts + (clock - from)
    <3>1. PICK m, n \in Nat : /\ m = Parts * Cardinality(Since(S \cup {r}, from))
                              /\ n = Parts * Cardinality(Since(S, from))
                              /\ m <= n + Parts
      BY OneMore
    <3>2. n + b.parts <= Burst * Parts + (clock - from)
      BY <1>0, <2>1, <2>4, <3>1
    <3> QED BY <1>0, <3>1, <3>2, LedgerConstants
  <2>5. Accounts(clock, N, S \cup {r})
    <3>1. \A q \in S \cup {r} : q.at \in Nat /\ q.at <= clock
      BY <1>0, <2>1, <2>2
    <3>2. N.updated = clock /\ N.parts = b.parts - Parts /\ clock # -1 /\ ~(clock > clock)
      BY <2>2
    <3>3. \A from \in Nat : from <= N.updated =>
            Parts * Cardinality(Since(S \cup {r}, from)) + N.parts
              <= Burst * Parts + (N.updated - from)
      BY <2>4, <3>2
    <3> HIDE DEF N
    <3> QED BY <3>1, <3>2, <3>3 DEF Accounts
  <2>6. Fair(S \cup {r})
    BY <2>2, <2>3, <2>5, StaysFair
  <2> QED BY <1>1, <2>3, <2>5, <2>6 DEF Moment
<1>2. CASE b.parts < Parts
  <2> DEFINE at == b.updated + Parts - b.parts
  <2>1. at \in Nat /\ at > b.updated
    BY <1>0, <1>2, LedgerConstants
  <2>2. N = [parts |-> 0, updated |-> at] /\ r.at = at /\ Moment(b) = at
    BY <1>0, <1>2, LedgerConstants DEF Take, Moment
  <2>3. N \in Buckets
    BY <2>1, <2>2, LedgerConstants DEF Buckets
  <2>4. ASSUME NEW from \in Nat, from <= at
        PROVE  Parts * Cardinality(Since(S \cup {r}, from)) <= Burst * Parts + (at - from)
    <3>1. PICK m, n \in Nat : /\ m = Parts * Cardinality(Since(S \cup {r}, from))
                              /\ n = Parts * Cardinality(Since(S, from))
                              /\ m <= n + Parts
      BY OneMore
    <3>2. CASE from <= b.updated
      <4>1. n + b.parts <= Burst * Parts + (b.updated - from)
        BY <1>0, <3>1, <3>2
      <4> QED BY <1>0, <3>1, <4>1, LedgerConstants
    <3>3. CASE from > b.updated
      <4>1. Since(S, from) = {}
        BY <1>0, <3>3 DEF Since
      <4>2. n = 0
        BY <3>1, <4>1, FS_EmptySet, LedgerConstants
      <4> QED BY <2>1, <2>4, <3>1, <4>2, LedgerConstants
    <3> QED BY <1>0, <3>2, <3>3
  <2> HIDE DEF at
  <2>5. Accounts(clock, N, S \cup {r})
    <3>1. \A q \in S \cup {r} : q.at \in Nat /\ q.at <= at
      BY <1>0, <2>1, <2>2
    <3>2. N.updated = at /\ N.parts = 0 /\ at # -1
      BY <2>1, <2>2
    <3>3. ASSUME NEW from \in Nat, from <= at
          PROVE  Parts * Cardinality(Since(S \cup {r}, from)) + 0 <= Burst * Parts + (at - from)
      <4>1. PICK m, n \in Nat : /\ m = Parts * Cardinality(Since(S \cup {r}, from))
                                /\ n = Parts * Cardinality(Since(S, from))
                                /\ m <= n + Parts
        BY OneMore
      <4>2. m <= Burst * Parts + (at - from)
        BY <2>4, <3>3, <4>1
      <4> QED BY <4>1, <4>2
    <3> HIDE DEF N
    <3> QED BY <3>1, <3>2, <3>3 DEF Accounts
  <2>6. Fair(S \cup {r})
    BY <2>1, <2>2, <2>3, <2>5, StaysFair
  <2> QED BY <2>1, <2>2, <2>3, <2>5, <2>6
<1> QED BY <1>0, <1>1, <1>2, LedgerConstants

-----------------------------------------------------------------------------
(* The invariants                                                          *)

\* While nobody has died, every lock file is of a process that is inside,
\* and young enough to be believed.
Locked ==
    /\ \A p \in Caller : caller[p].pc # "break"
    /\ \A p \in Caller : Inside(p, caller[p].file) => LockOf(p).owner = p
    /\ \A f \in File : lock[f] # NoLock =>
         /\ lock[f].owner \in Caller /\ Inside(lock[f].owner, f)
         /\ clock - lock[f].at <= StaleAfter

LockedInv == deaths = 0 => ~overlapped /\ Locked

\* The request of p, with the moment it was given.
Grant(p) == [by |-> p, nth |-> caller[p].waits, at |-> caller[p].wake]

\* No two processes are inside one file.
Exclusive == \A f \in File, p, q \in Caller : Inside(p, f) /\ Inside(q, f) => p = q

\* What a process rewrites the index with names what the index names.
Indexed ==
    \A p \in Caller :
      /\ caller[p].finished => p \in index
      /\ caller[p].file = "index" /\ caller[p].pc = "write" => index \subseteq caller[p].seen
      /\ caller[p].file = "index" /\ caller[p].pc = "release" => p \in index

\* The ledger, and the one that is about to be written, account for what
\* was granted.
Granted ==
    /\ Accounts(clock, bucket, reserved) /\ Fair(reserved)
    /\ \A p \in Caller : caller[p].file = "ledger" /\ caller[p].pc = "write" =>
         /\ Accounts(clock, caller[p].new, reserved \cup {Grant(p)})
         /\ Fair(reserved \cup {Grant(p)})

KeptInv == ~overlapped => Exclusive /\ Indexed /\ Granted

-----------------------------------------------------------------------------
(* Type correctness                                                        *)

LEMMA BucketTypes ==
    ASSUME LedgerType
    PROVE  Take(Refilled(bucket)) \in Buckets /\ Moment(Refilled(bucket)) \in Nat
<1> DEFINE now == Refilled(bucket)
<1>0. /\ clock \in Nat /\ bucket.parts \in Nat /\ bucket.parts <= Burst * Parts
      /\ bucket.updated \in Nat \cup {-1} /\ bucket \in Buckets
  BY LedgerConstants DEF LedgerType, Buckets
<1>1. now.updated \in Nat /\ now.parts \in 0 .. Burst * Parts /\ now \in Buckets
  <2>1. CASE bucket.updated = -1
    BY <1>0, <2>1, LedgerConstants DEF Refilled, Buckets
  <2>2. CASE bucket.updated \in Nat /\ bucket.updated < clock
    <3> DEFINE more == bucket.parts + clock - bucket.updated
    <3>1. more \in Nat /\ Burst * Parts \in Nat
      BY <1>0, <2>2, LedgerConstants
    <3>2. now = [parts |-> IF Burst * Parts <= more THEN Burst * Parts ELSE more,
                 updated |-> clock]
      BY <2>2, <3>1, Smaller DEF Refilled
    <3> HIDE DEF more
    <3> QED BY <1>0, <3>1, <3>2 DEF Buckets
  <2>3. CASE bucket.updated \in Nat /\ ~(bucket.updated < clock)
    BY <1>0, <2>3, LedgerConstants DEF Refilled, Buckets
  <2> QED BY <1>0, <2>1, <2>2, <2>3
<1>2. now = [parts |-> now.parts, updated |-> now.updated]
  BY <1>1 DEF Buckets
<1> HIDE DEF now
<1>3. CASE now.parts >= Parts
  <2>1. Take(now) = [parts |-> now.parts - Parts, updated |-> now.updated]
    BY <1>2, <1>3 DEF Take
  <2>2. now.parts - Parts \in 0 .. Burst * Parts
    BY <1>1, <1>3, LedgerConstants
  <2>3. Moment(now) \in Nat
    BY <1>0, <1>3 DEF Moment
  <2> QED BY <1>1, <2>1, <2>2, <2>3 DEF Buckets, now
<1>4. CASE ~(now.parts >= Parts)
  <2>1. Take(now) = [parts |-> 0, updated |-> now.updated + Parts - now.parts]
    BY <1>2, <1>4 DEF Take
  <2>2. 0 \in 0 .. Burst * Parts /\ now.updated + Parts - now.parts \in Nat
    BY <1>1, <1>4, LedgerConstants
  <2>3. Moment(now) \in Nat
    BY <1>4, <2>2 DEF Moment
  <2> QED BY <2>1, <2>2, <2>3 DEF Buckets, now
<1> QED BY <1>3, <1>4

LEMMA IdleCaller ==
    /\ Idle \in Callers
    /\ \A waits \in Nat, done \in BOOLEAN :
         [Idle EXCEPT !.waits = waits, !.finished = done] \in Callers
<1>1. 0 \in 0 .. Burst * Parts
  BY LedgerConstants
<1>2. Unwritten \in Buckets
  BY <1>1 DEF Unwritten, Buckets
<1>3. "idle" \in Places /\ "ledger" \in File /\ {} \in SUBSET Caller
  BY DEF Places, File
<1>4. Idle \in Callers
  BY <1>2, <1>3 DEF Idle, Callers
<1> QED BY <1>4 DEF Callers

\* A process goes on, or comes back with nothing in hand.
LEMMA Moves ==
    ASSUME caller \in [Caller -> Callers], NEW p \in Caller
    PROVE  /\ \A pc \in Places : Enter(p, pc) => caller' \in [Caller -> Callers]
           /\ \A done \in BOOLEAN : Return(p, done) => caller' \in [Caller -> Callers]
           /\ Leave(p) => caller' \in [Caller -> Callers]
<1>1. caller[p] \in Callers /\ caller[p].waits \in Nat /\ caller[p].finished \in BOOLEAN
  BY DEF Callers
<1>2. ASSUME NEW pc \in Places PROVE [caller[p] EXCEPT !.pc = pc] \in Callers
  BY <1>1 DEF Callers
<1>3. ASSUME NEW done \in BOOLEAN
      PROVE [Idle EXCEPT !.waits = caller[p].waits, !.finished = done] \in Callers
  BY <1>1, IdleCaller
<1>4. \A pc \in Places : Enter(p, pc) => caller' \in [Caller -> Callers]
  BY <1>2 DEF Enter
<1>5. \A done \in BOOLEAN : Return(p, done) => caller' \in [Caller -> Callers]
  BY <1>3 DEF Return
<1> QED BY <1>1, <1>4, <1>5 DEF Leave

LEMMA LedgerTypeStep ==
    ASSUME LedgerType, [LedgerNext]_ledgerVars
    PROVE  LedgerType'
<1> DEFINE Locks == [File -> [owner : Caller \cup {"nobody"}, at : Nat]]
<1>0. /\ clock \in Nat /\ lock \in Locks /\ bucket \in Buckets /\ index \subseteq Caller
      /\ caller \in [Caller -> Callers] /\ IsFiniteSet(reserved) /\ deaths \in Nat
      /\ overlapped \in BOOLEAN
  BY DEF LedgerType
<1>1. Places = {"idle", "lock", "break", "read", "write", "release", "sleep"}
  BY DEF Places
<1>2. ASSUME NEW p \in Caller
      PROVE  /\ caller[p] \in Callers /\ caller[p].file \in File /\ caller[p].new \in Buckets
             /\ caller[p].seen \subseteq Caller /\ caller[p].finished \in BOOLEAN
             /\ \A t \in Nat, q \in Caller \cup {"nobody"} :
                   SetLock(p, [owner |-> q, at |-> t]) => lock' \in Locks
             /\ SetLock(p, NoLock) => lock' \in Locks
  BY <1>0 DEF Callers, SetLock, NoLock
<1>3. ASSUME NEW p \in Caller, CreateLock(p)
      PROVE  LedgerType'
  BY <1>0, <1>1, <1>2, <1>3, Moves DEF LedgerType, CreateLock
<1>4. ASSUME NEW p \in Caller, JudgeStale(p) \/ RemoveStale(p) \/ AbandonLock(p)
      PROVE  LedgerType'
  BY <1>0, <1>1, <1>2, <1>4, Moves DEF LedgerType, JudgeStale, RemoveStale, AbandonLock
<1>5. ASSUME NEW p \in Caller, BeginWait(p) \/ BeginFinalize(p)
      PROVE  LedgerType'
  BY <1>0, <1>1, <1>2, <1>5 DEF LedgerType, BeginWait, BeginFinalize, Callers, File
<1>6. ASSUME NEW p \in Caller, ReadLedger(p)
      PROVE  LedgerType'
  <2> DEFINE x == [caller[p] EXCEPT !.pc = "write", !.new = Take(Refilled(bucket)),
                                    !.wake = Moment(Refilled(bucket))]
  <2>1. x \in Callers
    <3>1. /\ Take(Refilled(bucket)) \in Buckets /\ Moment(Refilled(bucket)) \in Nat
          /\ "write" \in Places /\ caller[p] \in Callers
      BY <1>1, <1>2, BucketTypes
    <3> QED BY <3>1 DEF Callers
  <2>2. caller' = [caller EXCEPT ![p] = x]
    BY <1>6 DEF ReadLedger
  <2> HIDE DEF x
  <2> QED BY <1>0, <1>6, <2>1, <2>2 DEF LedgerType, ReadLedger
<1>7. ASSUME NEW p \in Caller, WriteLedger(p)
      PROVE  LedgerType'
  BY <1>0, <1>1, <1>2, <1>7, Moves, FS_AddElement DEF LedgerType, WriteLedger
<1>8. ASSUME NEW p \in Caller,
             WriteFails(p) \/ ReleaseLedger(p) \/ EndWait(p) \/ CancelWait(p)
      PROVE  LedgerType'
  BY <1>0, <1>1, <1>2, <1>8, Moves
  DEF LedgerType, WriteFails, ReleaseLedger, EndWait, CancelWait
<1>9. ASSUME NEW p \in Caller, ReadIndex(p)
      PROVE  LedgerType'
  <2>1. [caller[p] EXCEPT !.pc = "write", !.seen = index] \in Callers
    <3>1. "write" \in Places /\ caller[p] \in Callers /\ index \in SUBSET Caller
      BY <1>0, <1>1, <1>2
    <3> QED BY <3>1 DEF Callers
  <2> QED BY <1>0, <1>9, <2>1 DEF LedgerType, ReadIndex
<1>10. ASSUME NEW p \in Caller, WriteIndex(p) \/ Die(p)
       PROVE  LedgerType'
  BY <1>0, <1>1, <1>2, <1>10, Moves DEF LedgerType, WriteIndex, Die
<1>12. ASSUME NEW p \in Caller, EndFinalize(p)
       PROVE  LedgerType'
  <2>1. caller' \in [Caller -> Callers] /\ lock' \in Locks
    BY <1>0, <1>2, <1>12, Moves DEF EndFinalize
  <2> QED BY <1>0, <1>12, <2>1 DEF LedgerType, EndFinalize
<1>11. ASSUME LedgerTick \/ UNCHANGED ledgerVars
       PROVE  LedgerType'
  BY <1>0, <1>11 DEF LedgerType, LedgerTick, ledgerVars
<1> QED BY <1>3, <1>4, <1>5, <1>6, <1>7, <1>8, <1>9, <1>10, <1>11, <1>12 DEF LedgerNext, Proceed

LEMMA LedgerTypeInit == LedgerInit => LedgerType
<1>1. Idle \in Callers /\ 0 \in 0 .. Burst * Parts
  <2>1. 0 \in 0 .. Burst * Parts
    BY LedgerConstants
  <2> QED BY <2>1, IdleCaller
<1>2. IsFiniteSet({})
  BY FS_EmptySet
<1>3. Unwritten \in Buckets /\ NoLock \in [owner : Caller \cup {"nobody"}, at : Nat]
  BY <1>1 DEF Unwritten, Buckets, NoLock
<1>4. LedgerInit => /\ clock \in Nat /\ bucket \in Buckets /\ index \subseteq Caller
                   /\ deaths \in Nat
  BY <1>3 DEF LedgerInit
<1>6. LedgerInit => IsFiniteSet(reserved)
  BY <1>2 DEF LedgerInit
<1>7. LedgerInit => overlapped \in BOOLEAN
  BY DEF LedgerInit
<1>5. LedgerInit => /\ lock \in [File -> [owner : Caller \cup {"nobody"}, at : Nat]]
                   /\ caller \in [Caller -> Callers]
  BY <1>1, <1>3 DEF LedgerInit
<1> QED BY <1>4, <1>5, <1>6, <1>7 DEF LedgerType

\* What is safe needs no fairness.
LedgerSteps == LedgerInit /\ [][LedgerNext]_ledgerVars

LEMMA LedgerTypeHolds == LedgerSteps => []LedgerType
<1> QED BY LedgerTypeInit, LedgerTypeStep, PTL DEF LedgerSteps

LEMMA LedgerTypeMeans == LedgerType => LedgerTypeOK
  BY DEF LedgerType, LedgerTypeOK, Buckets, Callers, Places

(* The clock, the files and the processes keep to their ranges; the bucket *)
(* never holds more than its burst.                                        *)
THEOREM LedgerTypeCorrect == LedgerSpec => []LedgerTypeOK
<1> QED BY LedgerTypeMeans, LedgerTypeHolds, PTL DEF LedgerSpec, LedgerSteps

-----------------------------------------------------------------------------
(* The lock excludes while nobody dies                                     *)

\* A process that stays where the files are concerned.
LEMMA InsideOnward ==
    ASSUME caller \in [Caller -> Callers], Locked, NEW p \in Caller, NEW x \in Callers,
           caller' = [caller EXCEPT ![p] = x], lock' = lock, clock' = clock, x.pc # "break",
           \A f \in File : Inside(p, f) <=> x.file = f /\ x.pc \in {"read", "write", "release"}
    PROVE  Locked'
<1>0. \A q \in Caller : caller[q].file \in File
  BY DEF Callers
<1>1. \A q \in Caller : caller'[q] = IF q = p THEN x ELSE caller[q]
  OBVIOUS
<1>2. ASSUME NEW q \in Caller PROVE caller'[q].pc # "break"
  BY <1>1 DEF Locked
<1>3. ASSUME NEW q \in Caller, NEW f \in File PROVE Inside(q, f)' <=> Inside(q, f)
  BY <1>1 DEF Inside
<1>4. ASSUME NEW q \in Caller, Inside(q, caller[q].file)' PROVE LockOf(q)'.owner = q
  <2>1. Inside(q, caller'[q].file) /\ caller'[q].file \in File
    BY <1>0, <1>1, <1>3, <1>4 DEF Inside, Callers
  <2>2. caller[q].file = caller'[q].file
    BY <2>1 DEF Inside
  <2> QED BY <2>1, <2>2 DEF Locked, LockOf
<1>5. ASSUME NEW f \in File, lock'[f] # NoLock
      PROVE  /\ lock'[f].owner \in Caller /\ Inside(lock[f].owner, f)'
             /\ clock' - lock'[f].at <= StaleAfter
  <2>1. lock[f].owner \in Caller /\ Inside(lock[f].owner, f) /\ clock - lock[f].at <= StaleAfter
    BY <1>5 DEF Locked
  <2> QED BY <1>3, <2>1
<1> QED BY <1>2, <1>4, <1>5 DEF Locked

LEMMA LockedStep ==
    ASSUME LedgerType, LockedInv, LedgerNext, deaths' = 0
    PROVE  ~overlapped' /\ Locked'
<1>0. /\ clock \in Nat /\ lock \in [File -> [owner : Caller \cup {"nobody"}, at : Nat]]
      /\ caller \in [Caller -> Callers] /\ deaths \in Nat /\ StaleAfter \in Nat
      /\ \A p \in Caller : caller[p].file \in File /\ caller[p].pc \in Places
      /\ NoLock.owner = "nobody" /\ "nobody" \notin Caller
  BY LedgerConstants DEF LedgerType, Callers, NoLock
<1>1. deaths = 0
  <2>1. ASSUME NEW p \in Caller, Proceed(p) PROVE deaths' = deaths
    BY <2>1
    DEF Proceed, CreateLock, JudgeStale, RemoveStale, ReadLedger, WriteLedger, ReleaseLedger,
        EndWait, ReadIndex, WriteIndex, EndFinalize
  <2>2. ASSUME NEW p \in Caller, BeginWait(p) \/ BeginFinalize(p) \/ AbandonLock(p)
                                 \/ CancelWait(p) \/ WriteFails(p)
        PROVE  deaths' = deaths
    BY <2>2 DEF BeginWait, BeginFinalize, AbandonLock, CancelWait, WriteFails
  <2>3. LedgerTick => deaths' = deaths
    BY DEF LedgerTick
  <2>4. ASSUME NEW p \in Caller, Die(p) PROVE FALSE
    BY <1>0, <2>4 DEF Die
  <2> QED BY <2>1, <2>2, <2>3, <2>4 DEF LedgerNext
<1>2. ~overlapped
  BY <1>1, Zenon DEF LockedInv
<1>3. Locked
  BY <1>1, Zenon DEF LockedInv
<1>4. /\ \A p \in Caller : caller[p].pc # "break"
      /\ \A p \in Caller : Inside(p, caller[p].file) => LockOf(p).owner = p
      /\ \A f \in File : lock[f] # NoLock =>
           /\ lock[f].owner \in Caller /\ Inside(lock[f].owner, f)
           /\ clock - lock[f].at <= StaleAfter
  BY <1>3 DEF Locked
<1>5. ASSUME NEW p \in Caller, CreateLock(p) PROVE ~overlapped' /\ Locked'
  <2>1. ~\E q \in Caller \ {p} : Inside(q, caller[p].file)
    BY <1>0, <1>4, <1>5 DEF CreateLock, LockOf, Inside
  <2>2. ~overlapped'
    BY <1>2, <2>1, <1>5, Zenon DEF CreateLock
  <2>3. Locked'
    BY <1>0, <1>4, <1>5 DEF Locked, CreateLock, LockOf, SetLock, Enter, Inside, In
  <2> QED BY <2>2, <2>3
<1>6. ASSUME NEW p \in Caller, JudgeStale(p) \/ RemoveStale(p) \/ Die(p) PROVE FALSE
  BY <1>0, <1>1, <1>4, <1>6 DEF JudgeStale, RemoveStale, Die, Stale, LockOf, In
<1>7. ASSUME NEW p \in Caller, AbandonLock(p) \/ CancelWait(p) \/ EndWait(p)
      PROVE  Locked'
  <2> DEFINE x == [Idle EXCEPT !.waits = caller[p].waits, !.finished = caller[p].finished]
  <2>1. x \in Callers /\ caller[p].pc \in {"lock", "sleep"}
    BY <1>0, <1>7, IdleCaller DEF Callers, AbandonLock, CancelWait, EndWait, In
  <2>2. caller' = [caller EXCEPT ![p] = x] /\ lock' = lock /\ clock' = clock
    BY <1>7 DEF AbandonLock, CancelWait, EndWait, Leave, Return
  <2>3. x.pc = "idle"
    BY DEF Idle
  <2> HIDE DEF x
  <2> QED BY <1>0, <1>3, <2>1, <2>2, <2>3, InsideOnward DEF Inside
<1>8. ASSUME NEW p \in Caller, BeginWait(p) \/ BeginFinalize(p)
             \/ ReadLedger(p) \/ ReadIndex(p) \/ WriteLedger(p) \/ WriteIndex(p)
      PROVE  Locked'
  <2>1. caller'[p] \in Callers
    BY LedgerTypeStep DEF LedgerType
  <2>2. lock' = lock /\ clock' = clock
    BY <1>8 DEF BeginWait, BeginFinalize, ReadLedger, ReadIndex, WriteLedger, WriteIndex
  <2>3. caller' = [caller EXCEPT ![p] = caller'[p]]
    <3>1. CASE BeginWait(p) \/ BeginFinalize(p)
      BY <1>0, <3>1 DEF BeginWait, BeginFinalize
    <3>2. CASE ReadLedger(p) \/ ReadIndex(p)
      BY <1>0, <3>2 DEF ReadLedger, ReadIndex
    <3>3. CASE WriteLedger(p) \/ WriteIndex(p)
      BY <1>0, <3>3 DEF WriteLedger, WriteIndex, Enter
    <3> QED BY <1>8, <3>1, <3>2, <3>3
  <2>4. \/ caller[p].pc = "idle" /\ caller'[p].pc = "lock"
        \/ /\ caller'[p].file = caller[p].file
           /\ caller[p].pc = "read" /\ caller'[p].pc = "write"
        \/ /\ caller'[p].file = caller[p].file
           /\ caller[p].pc = "write" /\ caller'[p].pc = "release"
    <3>1. CASE BeginWait(p) \/ BeginFinalize(p)
      BY <1>0, <3>1 DEF BeginWait, BeginFinalize, In, Callers
    <3>2. CASE ReadLedger(p) \/ ReadIndex(p)
      BY <1>0, <3>2 DEF ReadLedger, ReadIndex, In, Callers
    <3>3. CASE WriteLedger(p) \/ WriteIndex(p)
      BY <1>0, <3>3 DEF WriteLedger, WriteIndex, Enter, In, Callers
    <3> QED BY <1>8, <3>1, <3>2, <3>3
  <2>5. PICK x \in Callers : x = caller'[p]
    BY <2>1
  <2> QED BY <1>0, <1>3, <2>2, <2>3, <2>4, <2>5, InsideOnward DEF Inside
<1>11. ASSUME NEW p \in Caller, WriteFails(p) \/ EndFinalize(p) \/ ReleaseLedger(p)
       PROVE  Locked'
  <2>0. Inside(p, caller[p].file)
    BY <1>11 DEF WriteFails, EndFinalize, ReleaseLedger, In, Inside
  <2>1. \A q \in Caller \ {p} : ~Inside(q, caller[p].file)
    BY <1>4, <2>0 DEF LockOf, Inside
  <2>2. lock' = [lock EXCEPT ![caller[p].file] = NoLock] /\ clock' = clock
    BY <1>11 DEF WriteFails, EndFinalize, ReleaseLedger, SetLock
  <2>3. /\ caller'[p].pc \in {"idle", "sleep"}
        /\ \A q \in Caller \ {p} : caller'[q] = caller[q]
    <3>1. CASE WriteFails(p) \/ EndFinalize(p)
      BY <1>0, <3>1 DEF WriteFails, EndFinalize, Leave, Return, Idle
    <3>2. CASE ReleaseLedger(p)
      BY <1>0, <3>2 DEF ReleaseLedger, Enter, Callers
    <3> QED BY <1>11, <3>1, <3>2
  <2>4. ASSUME NEW q \in Caller PROVE caller'[q].pc # "break"
    BY <1>4, <2>3
  <2>5. ASSUME NEW q \in Caller, Inside(q, caller[q].file)'
        PROVE  lock'[caller'[q].file].owner = q
    <3>1. q # p /\ caller'[q] = caller[q] /\ Inside(q, caller[q].file)
      BY <2>3, <2>5 DEF Inside
    <3>2. caller[q].file # caller[p].file
      BY <2>1, <3>1
    <3> QED BY <1>0, <1>4, <2>2, <3>1, <3>2 DEF LockOf
  <2>6. ASSUME NEW f \in File, lock'[f] # NoLock
        PROVE  /\ lock'[f].owner \in Caller /\ Inside(lock[f].owner, f)'
               /\ clock' - lock'[f].at <= StaleAfter
    <3>1. f # caller[p].file /\ lock'[f] = lock[f]
      BY <1>0, <2>2, <2>6
    <3>2. /\ lock[f].owner \in Caller /\ Inside(lock[f].owner, f)
          /\ clock - lock[f].at <= StaleAfter
      BY <1>4, <2>6, <3>1
    <3>3. lock[f].owner # p
      BY <3>1, <3>2 DEF Inside
    <3> QED BY <2>2, <2>3, <3>1, <3>2, <3>3 DEF Inside
  <2> QED BY <2>4, <2>5, <2>6 DEF Locked, LockOf
<1>12. ASSUME LedgerTick
       PROVE  Locked'
  BY <1>0, <1>4, <1>12 DEF Locked, LedgerTick, HoldersPrompt, LockOf, Inside
<1>13. ASSUME NEW p \in Caller, ~CreateLock(p), ~Die(p),
              \/ BeginWait(p) \/ BeginFinalize(p) \/ Proceed(p)
              \/ AbandonLock(p) \/ CancelWait(p) \/ WriteFails(p)
       PROVE  overlapped' = overlapped
  BY <1>13
  DEF Proceed, CreateLock, JudgeStale, RemoveStale, AbandonLock, BeginWait, ReadLedger,
      WriteLedger, WriteFails, ReleaseLedger, EndWait, CancelWait, BeginFinalize, ReadIndex,
      WriteIndex, EndFinalize
<1>14. LedgerTick => overlapped' = overlapped
  BY DEF LedgerTick
<1>15. Locked'
  BY <1>5, <1>6, <1>7, <1>8, <1>11, <1>12 DEF LedgerNext, Proceed
<1>16. ~overlapped'
  BY <1>2, <1>5, <1>6, <1>13, <1>14, Zenon DEF LedgerNext
<1> QED BY <1>15, <1>16, Zenon

LEMMA LockedHolds == LedgerSteps => []LockedInv
<1>1. LedgerInit => LockedInv
  <2>1. LedgerInit => ~overlapped
    BY Zenon DEF LedgerInit
  <2>2. LedgerInit => Locked
    BY DEF LedgerInit, Locked, Inside, LockOf, Idle, File
  <2> QED BY <2>1, <2>2, Zenon DEF LockedInv
<1>2. LedgerType /\ LockedInv /\ [LedgerNext]_ledgerVars => LockedInv'
  <2>1. CASE UNCHANGED ledgerVars
    <3>1. Locked => Locked'
      BY <2>1 DEF Locked, ledgerVars, Inside, LockOf
    <3>2. deaths' = deaths /\ overlapped' = overlapped
      BY <2>1 DEF ledgerVars
    <3> QED BY <3>1, <3>2, Zenon DEF LockedInv
  <2>2. ASSUME LedgerType, LockedInv, LedgerNext PROVE LockedInv'
    BY <2>2, LockedStep, Zenon DEF LockedInv
  <2> QED BY <2>1, <2>2
<1> QED BY <1>1, <1>2, LedgerTypeHolds, PTL DEF LedgerSteps

LEMMA LockedMeans == LedgerType /\ LockedInv => OverlapOnlyAfterDeath
<1>1. LedgerType /\ ~(deaths > 0) => deaths = 0
  BY DEF LedgerType
<1> QED BY <1>1, Zenon DEF LockedInv, OverlapOnlyAfterDeath

(* While no process dies, no two processes are inside one file, whatever   *)
(* the number of processes.                                                *)
THEOREM LockExcludes == LedgerSpec => []OverlapOnlyAfterDeath
<1> QED BY LockedMeans, LedgerTypeHolds, LockedHolds, PTL DEF LedgerSpec, LedgerSteps

-----------------------------------------------------------------------------
(* Nothing that was granted or recorded is lost                            *)

\* Time passes and a bucket accounts for the same grants.
LEMMA AccountsLater ==
    ASSUME NEW now \in Nat, NEW later \in Nat, now <= later, NEW b \in Buckets, NEW S,
           Accounts(now, b, S)
    PROVE  Accounts(later, b, S)
BY DEF Accounts, Buckets

\* A step that writes neither file and leaves nobody about to write one who
\* was not before.
Quiet ==
    /\ index' = index /\ bucket' = bucket /\ reserved' = reserved
    /\ clock' \in Nat /\ clock <= clock'
    /\ \A p \in Caller :
         \/ caller'[p] = caller[p]
         \/ /\ caller'[p].finished = caller[p].finished
            /\ \/ caller'[p].pc \notin {"write", "release"}
               \/ caller'[p].pc = "release" /\ caller'[p].file = "ledger"

LEMMA QuietKeeps ==
    ASSUME LedgerType, Indexed, Granted, Quiet
    PROVE  Indexed' /\ Granted'
<1>1. Indexed'
  BY DEF Indexed, Quiet
<1>2. Accounts(clock', bucket, reserved)
  BY AccountsLater DEF LedgerType, Granted, Quiet
<1>3. ASSUME NEW p \in Caller, caller'[p].file = "ledger", caller'[p].pc = "write"
      PROVE  /\ Accounts(clock', caller'[p].new, reserved' \cup {Grant(p)'})
             /\ Fair(reserved' \cup {Grant(p)'})
  <2>1. caller'[p] = caller[p] /\ reserved' = reserved /\ Grant(p)' = Grant(p)
    BY <1>3 DEF Quiet, Grant
  <2>2. /\ Accounts(clock, caller[p].new, reserved \cup {Grant(p)})
        /\ Fair(reserved \cup {Grant(p)})
    BY <1>3, <2>1 DEF Granted
  <2>3. caller[p].new \in Buckets /\ clock \in Nat /\ clock' \in Nat /\ clock <= clock'
    BY DEF LedgerType, Callers, Quiet
  <2>4. Accounts(clock', caller[p].new, reserved \cup {Grant(p)})
    BY <2>2, <2>3, AccountsLater
  <2> QED BY <2>1, <2>2, <2>4
<1>4. Granted'
  <2>1. Accounts(clock', bucket', reserved') /\ Fair(reserved')
    BY <1>2 DEF Granted, Quiet
  <2> QED BY <1>3, <2>1 DEF Granted
<1> QED BY <1>1, <1>4

\* Only CreateLock lets a process into a file.
LEMMA Entering ==
    ASSUME LedgerType, NEW p \in Caller, NEW f \in File, Inside(p, f)', LedgerNext
    PROVE  Inside(p, f) \/ (CreateLock(p) /\ caller[p].file = f)
<1>0. caller \in [Caller -> Callers]
  BY DEF LedgerType
<1>1. ASSUME NEW q \in Caller, CreateLock(q)
      PROVE  Inside(p, f) \/ (CreateLock(p) /\ caller[p].file = f)
  <2>1. CASE p = q
    <3>1. caller'[p].file = caller[p].file
      BY <1>0, <1>1, <2>1 DEF CreateLock, Enter, Callers
    <3> QED BY <1>1, <2>1, <3>1 DEF Inside
  <2>2. CASE p # q
    BY <1>0, <1>1, <2>2 DEF CreateLock, Enter, Inside
  <2> QED BY <2>1, <2>2
<1>2. ASSUME NEW q \in Caller, JudgeStale(q) \/ RemoveStale(q) \/ ReleaseLedger(q)
      PROVE  Inside(p, f)
  BY <1>0, <1>2 DEF JudgeStale, RemoveStale, ReleaseLedger, Enter, Inside, In, Callers
<1>3. ASSUME NEW q \in Caller, AbandonLock(q) \/ WriteFails(q) \/ EndWait(q) \/ CancelWait(q)
                               \/ EndFinalize(q) \/ Die(q)
      PROVE  Inside(p, f)
  <2>1. caller'[q].pc = "idle" /\ \A o \in Caller \ {q} : caller'[o] = caller[o]
    BY <1>0, <1>3
    DEF AbandonLock, WriteFails, EndWait, CancelWait, EndFinalize, Die, Leave, Return, Idle
  <2> QED BY <2>1 DEF Inside
<1>4. ASSUME NEW q \in Caller, BeginWait(q) \/ BeginFinalize(q)
      PROVE  Inside(p, f)
  <2>1. caller'[q].pc = "lock" /\ \A o \in Caller \ {q} : caller'[o] = caller[o]
    BY <1>0, <1>4 DEF BeginWait, BeginFinalize, Callers
  <2> QED BY <2>1 DEF Inside
<1>5. ASSUME NEW q \in Caller, ReadLedger(q) \/ ReadIndex(q)
      PROVE  Inside(p, f)
  <2>1. /\ caller'[q].file = caller[q].file /\ caller[q].pc = "read"
        /\ \A o \in Caller \ {q} : caller'[o] = caller[o]
    BY <1>0, <1>5 DEF ReadLedger, ReadIndex, In, Callers
  <2> QED BY <2>1 DEF Inside
<1>6. ASSUME NEW q \in Caller, WriteLedger(q) \/ WriteIndex(q)
      PROVE  Inside(p, f)
  <2>1. /\ caller'[q].file = caller[q].file /\ caller[q].pc = "write"
        /\ \A o \in Caller \ {q} : caller'[o] = caller[o]
    BY <1>0, <1>6 DEF WriteLedger, WriteIndex, Enter, In, Callers
  <2> QED BY <2>1 DEF Inside
<1>7. LedgerTick => Inside(p, f)
  BY DEF LedgerTick, Inside
<1> QED BY <1>1, <1>2, <1>3, <1>4, <1>5, <1>6, <1>7 DEF LedgerNext, Proceed

LEMMA ExclusiveStep ==
    ASSUME LedgerType, Exclusive, LedgerNext, ~overlapped'
    PROVE  Exclusive'
<1>0. caller \in [Caller -> Callers]
  BY DEF LedgerType
<1> SUFFICES ASSUME NEW f \in File, NEW p \in Caller, NEW q \in Caller,
                    Inside(p, f)', Inside(q, f)', p # q
             PROVE  FALSE
  BY DEF Exclusive
<1>1. ASSUME NEW r \in Caller, NEW o \in Caller, r # o, CreateLock(r), Inside(o, caller[r].file)
      PROVE  FALSE
  BY <1>1, Zenon DEF CreateLock
<1>2. ~(Inside(p, f) /\ Inside(q, f))
  BY DEF Exclusive
<1>3. ~(CreateLock(p) /\ CreateLock(q))
  BY <1>0 DEF CreateLock, Enter, In, Callers
<1> QED BY <1>1, <1>2, <1>3, Entering

LEMMA KeptStep ==
    ASSUME LedgerType, LedgerNext, Exclusive, Indexed, Granted
    PROVE  Indexed' /\ Granted'
<1>0. /\ clock \in Nat /\ bucket \in Buckets /\ index \subseteq Caller
      /\ caller \in [Caller -> Callers] /\ IsFiniteSet(reserved)
      /\ \A p \in Caller : caller[p] \in Callers /\ caller[p].file \in File
  BY DEF LedgerType, Callers
<1>1. ASSUME NEW p \in Caller, CreateLock(p) \/ JudgeStale(p) \/ RemoveStale(p) \/ ReleaseLedger(p)
      PROVE  Quiet
  BY <1>0, <1>1
  DEF Quiet, CreateLock, JudgeStale, RemoveStale, ReleaseLedger, Enter, Callers
<1>2. ASSUME NEW p \in Caller, BeginWait(p) \/ BeginFinalize(p)
      PROVE  Quiet
  BY <1>0, <1>2 DEF Quiet, BeginWait, BeginFinalize, Callers
<1>3. ASSUME NEW p \in Caller, AbandonLock(p) \/ WriteFails(p) \/ EndWait(p) \/ CancelWait(p)
                               \/ Die(p)
      PROVE  Quiet
  <2>1. /\ caller'[p].pc = "idle" /\ caller'[p].finished = caller[p].finished
        /\ \A o \in Caller \ {p} : caller'[o] = caller[o]
    BY <1>0, <1>3
    DEF AbandonLock, WriteFails, EndWait, CancelWait, Die, Leave, Return, Idle
  <2>2. index' = index /\ bucket' = bucket /\ reserved' = reserved /\ clock' = clock
    BY <1>3 DEF AbandonLock, WriteFails, EndWait, CancelWait, Die
  <2> QED BY <1>0, <2>1, <2>2 DEF Quiet
<1>4. LedgerTick => Quiet
  BY <1>0 DEF LedgerTick, Quiet
<1>5. ASSUME NEW p \in Caller, ReadLedger(p)
      PROVE  Indexed' /\ Granted'
  <2> DEFINE now == Refilled(bucket)
  <2>1. /\ now \in Buckets /\ now.updated >= clock /\ now.updated # -1
        /\ Accounts(clock, now, reserved) /\ Fair(reserved)
    BY RefilledAccounts DEF Granted
  <2>2. /\ caller'[p].new = Take(now) /\ caller'[p].wake = Moment(now)
        /\ caller'[p].finished = caller[p].finished /\ caller'[p].file = "ledger"
        /\ \A q \in Caller \ {p} : caller'[q] = caller[q]
        /\ clock' = clock /\ bucket' = bucket /\ index' = index /\ reserved' = reserved
    BY <1>0, <1>5 DEF ReadLedger, Callers
  <2>3. Indexed'
    BY <2>2 DEF Indexed
  <2> HIDE DEF now
  <2>4. Grant(p)'.at = Moment(now)
    BY <2>2 DEF Grant
  <2>5. /\ Accounts(clock, Take(now), reserved \cup {Grant(p)'})
        /\ Fair(reserved \cup {Grant(p)'})
    BY <1>0, <2>1, <2>4, TakeAccounts
  <2>6. ASSUME NEW q \in Caller, caller'[q].file = "ledger", caller'[q].pc = "write"
        PROVE  /\ Accounts(clock', caller'[q].new, reserved' \cup {Grant(q)'})
               /\ Fair(reserved' \cup {Grant(q)'})
    <3>1. CASE q = p
      BY <2>2, <2>5, <3>1
    <3>2. CASE q # p
      <4>1. caller'[q] = caller[q] /\ Grant(q)' = Grant(q)
        BY <2>2, <3>2 DEF Grant
      <4> QED BY <2>2, <2>6, <4>1 DEF Granted
    <3> QED BY <3>1, <3>2
  <2> QED BY <2>2, <2>3, <2>6 DEF Granted
<1>6. ASSUME NEW p \in Caller, WriteLedger(p)
      PROVE  Indexed' /\ Granted'
  <2>1. /\ caller[p].file = "ledger" /\ caller[p].pc = "write"
        /\ caller'[p].file = "ledger" /\ caller'[p].pc = "release"
        /\ caller'[p].finished = caller[p].finished
        /\ \A q \in Caller \ {p} : caller'[q] = caller[q]
        /\ clock' = clock /\ index' = index /\ bucket' = caller[p].new
        /\ reserved' = reserved \cup {Grant(p)}
    BY <1>0, <1>6 DEF WriteLedger, Enter, In, Callers, Grant
  <2>2. Indexed'
    BY <2>1 DEF Indexed
  <2>3. Accounts(clock', bucket', reserved') /\ Fair(reserved')
    BY <2>1 DEF Granted
  <2>4. ASSUME NEW q \in Caller, caller'[q].file = "ledger", caller'[q].pc = "write"
        PROVE  FALSE
    <3>1. q # p /\ caller'[q] = caller[q]
      BY <2>1, <2>4
    <3>2. Inside(p, "ledger") /\ Inside(q, "ledger") /\ "ledger" \in File
      BY <2>1, <2>4, <3>1 DEF Inside, File
    <3> QED BY <3>1, <3>2 DEF Exclusive
  <2> QED BY <2>2, <2>3, <2>4 DEF Granted
<1>7. ASSUME NEW p \in Caller, ReadIndex(p)
      PROVE  Indexed' /\ Granted'
  <2>1. /\ caller'[p].seen = index /\ caller'[p].pc = "write" /\ caller'[p].file = "index"
        /\ caller'[p].finished = caller[p].finished
        /\ \A q \in Caller \ {p} : caller'[q] = caller[q]
        /\ clock' = clock /\ bucket' = bucket /\ index' = index /\ reserved' = reserved
    BY <1>0, <1>7 DEF ReadIndex, Callers
  <2>2. Indexed'
    BY <2>1 DEF Indexed
  <2>3. ASSUME NEW q \in Caller, caller'[q].file = "ledger"
        PROVE  caller'[q] = caller[q] /\ Grant(q)' = Grant(q)
    BY <2>1, <2>3 DEF Grant
  <2> QED BY <2>1, <2>2, <2>3 DEF Granted
<1>8. ASSUME NEW p \in Caller, WriteIndex(p)
      PROVE  Indexed' /\ Granted'
  <2>1. /\ caller[p].pc = "write" /\ caller[p].file = "index"
        /\ caller'[p].pc = "release" /\ caller'[p].file = "index"
        /\ caller'[p].finished = caller[p].finished
        /\ \A q \in Caller \ {p} : caller'[q] = caller[q]
        /\ clock' = clock /\ bucket' = bucket /\ reserved' = reserved
        /\ index' = caller[p].seen \cup {p}
    BY <1>0, <1>8 DEF WriteIndex, Enter, In, Callers
  <2>2. index \subseteq index' /\ p \in index'
    BY <2>1 DEF Indexed
  <2>3. ASSUME NEW q \in Caller, caller'[q].file = "index", caller'[q].pc = "write"
        PROVE  FALSE
    <3>1. q # p /\ caller'[q] = caller[q]
      BY <2>1, <2>3
    <3>2. Inside(p, "index") /\ Inside(q, "index") /\ "index" \in File
      BY <2>1, <2>3, <3>1 DEF Inside, File
    <3> QED BY <3>1, <3>2 DEF Exclusive
  <2>4. Indexed'
    BY <2>1, <2>2, <2>3 DEF Indexed
  <2>5. ASSUME NEW q \in Caller, caller'[q].file = "ledger"
        PROVE  caller'[q] = caller[q] /\ Grant(q)' = Grant(q)
    BY <2>1, <2>5 DEF Grant
  <2> QED BY <2>1, <2>4, <2>5 DEF Granted
<1>9. ASSUME NEW p \in Caller, EndFinalize(p)
      PROVE  Indexed' /\ Granted'
  <2>1. /\ caller[p].pc = "release" /\ caller[p].file = "index"
        /\ caller'[p].pc = "idle"
        /\ \A q \in Caller \ {p} : caller'[q] = caller[q]
        /\ clock' = clock /\ bucket' = bucket /\ reserved' = reserved /\ index' = index
    BY <1>0, <1>9 DEF EndFinalize, Return, Idle, In
  <2>2. Indexed'
    BY <2>1 DEF Indexed
  <2>3. ASSUME NEW q \in Caller, caller'[q].pc = "write"
        PROVE  caller'[q] = caller[q] /\ Grant(q)' = Grant(q)
    BY <2>1, <2>3 DEF Grant
  <2> QED BY <2>1, <2>2, <2>3 DEF Granted
<1>10. ASSUME Quiet PROVE Indexed' /\ Granted'
  BY <1>10, QuietKeeps
<1> QED BY <1>1, <1>2, <1>3, <1>4, <1>5, <1>6, <1>7, <1>8, <1>9, <1>10 DEF LedgerNext, Proceed

LEMMA KeptHolds == LedgerSteps => []KeptInv
<1>1. LedgerInit => KeptInv
  <2>1. LedgerInit => Exclusive /\ Indexed
    BY DEF LedgerInit, Exclusive, Indexed, Inside, Idle
  <2>2. LedgerInit => Accounts(clock, bucket, reserved) /\ Fair(reserved)
    BY DEF LedgerInit, Accounts, Fair, Unwritten
  <2>3. LedgerInit => \A p \in Caller : caller[p].pc # "write"
    BY DEF LedgerInit, Idle
  <2> QED BY <2>1, <2>2, <2>3 DEF KeptInv, Granted
<1>2. LedgerType /\ KeptInv /\ [LedgerNext]_ledgerVars => KeptInv'
  <2>1. CASE UNCHANGED ledgerVars
    <3>1. /\ Exclusive' <=> Exclusive
          /\ Indexed' <=> Indexed
          /\ Granted' <=> Granted
      BY <2>1 DEF ledgerVars, Exclusive, Inside, Indexed, Granted, Grant
    <3>2. overlapped' = overlapped
      BY <2>1 DEF ledgerVars
    <3> QED BY <3>1, <3>2, Zenon DEF KeptInv
  <2>2. ASSUME LedgerType, KeptInv, LedgerNext, ~overlapped' PROVE Exclusive' /\ Indexed' /\ Granted'
    <3>1. ASSUME NEW p \in Caller, ~CreateLock(p),
                 \/ BeginWait(p) \/ BeginFinalize(p) \/ Proceed(p)
                 \/ AbandonLock(p) \/ CancelWait(p) \/ WriteFails(p) \/ Die(p)
          PROVE  overlapped' = overlapped
      BY <3>1
      DEF Proceed, CreateLock, JudgeStale, RemoveStale, AbandonLock, BeginWait, ReadLedger,
          WriteLedger, WriteFails, ReleaseLedger, EndWait, CancelWait, BeginFinalize, ReadIndex,
          WriteIndex, EndFinalize, Die
    <3>2. LedgerTick => overlapped' = overlapped
      BY DEF LedgerTick
    <3>3. ASSUME NEW p \in Caller, CreateLock(p), overlapped PROVE FALSE
      BY <2>2, <3>3, Zenon DEF CreateLock
    <3>4. ~overlapped
      BY <2>2, <3>1, <3>2, <3>3, Zenon DEF LedgerNext
    <3>5. Exclusive /\ Indexed /\ Granted
      BY <2>2, <3>4, Zenon DEF KeptInv
    <3> QED BY <2>2, <3>5, ExclusiveStep, KeptStep, Zenon
  <2> QED BY <2>1, <2>2, Zenon DEF KeptInv
<1> QED BY <1>1, <1>2, LedgerTypeHolds, PTL DEF LedgerSteps

LEMMA KeptMeans ==
    ASSUME LedgerType, LockedInv, KeptInv
    PROVE  NothingLost
<1>1. SUFFICES ASSUME deaths = 0 \/ ~overlapped
               PROVE  /\ \A from, to \in {r.at : r \in reserved} :
                           Parts * Cardinality({r \in reserved : r.at \in from .. to})
                               <= Burst * Parts + Max({0, to - from})
                      /\ {p \in Caller : caller[p].finished} \subseteq index
  BY DEF NothingLost
<1>2. ~overlapped
  BY <1>1, Zenon DEF LockedInv
<1>3. Indexed /\ Granted
  BY <1>2, Zenon DEF KeptInv
<1>4. \A r \in reserved : r.at \in Nat
  BY <1>3 DEF Granted, Accounts
<1>5. ASSUME NEW from \in {r.at : r \in reserved}, NEW to \in {r.at : r \in reserved}
      PROVE  Parts * Cardinality({r \in reserved : r.at \in from .. to})
               <= Burst * Parts + Max({0, to - from})
  <2>1. from \in Nat /\ to \in Nat /\ \E r \in reserved : r.at = to
    BY <1>4
  <2>2. CASE from <= to
    <3>1. Parts * Cardinality(During(reserved, from, to)) <= Burst * Parts + (to - from)
      BY <1>3, <2>1, <2>2 DEF Granted, Fair
    <3>2. Max({0, to - from}) = to - from
      BY <2>1, <2>2, Larger
    <3> QED BY <3>1, <3>2 DEF During
  <2>3. CASE from > to
    <3>1. {r \in reserved : r.at \in from .. to} = {}
      BY <1>4, <2>1, <2>3
    <3>2. Cardinality({r \in reserved : r.at \in from .. to}) = 0
      BY <3>1, FS_EmptySet
    <3>4. Parts * 0 = 0 /\ Burst * Parts \in Nat
      BY LedgerConstants
    <3>3. Max({0, to - from}) = 0
      BY <2>1, <2>3, Larger
    <3> QED BY <3>2, <3>3, <3>4
  <2> QED BY <2>1, <2>2, <2>3
<1> QED BY <1>3, <1>5 DEF Indexed

(* Unless two processes overlapped after a death, no stretch of time holds *)
(* more granted requests than a full bucket and its refill allow, and the  *)
(* audit index names every finalized run: whatever the burst, the rate,    *)
(* the number of processes, and the moments at which they die or fail.     *)
THEOREM NothingLostCorrect == LedgerSpec => []NothingLost
<1> QED BY KeptMeans, LedgerTypeHolds, LockedHolds, KeptHolds, PTL DEF LedgerSpec, LedgerSteps
=============================================================================
