------------------------ MODULE ClientRequestProofs ------------------------
(***************************************************************************)
(* What holds of the requests of any number of callers: a change is sent   *)
(* once, and a read sees one's own writes (ClientRequest); of the results  *)
(* a tool's caller collects (BoundedResults); and of these two, the ledger *)
(* and the limiter put side by side (MCRequests).                          *)
(***************************************************************************)
EXTENDS MCRequests, RateLimitProofs, SequenceTheorems

-----------------------------------------------------------------------------
(* ClientRequest: types                                                    *)

\* A set of n elements has 2^n subsets.
LEMMA Powers == \A n \in Nat : 2 ^ n \in Nat
<1> SUFFICES ASSUME NEW n \in Nat PROVE 2 ^ n \in Nat
  OBVIOUS
<1>1. IsFiniteSet(1 .. n) /\ Cardinality(1 .. n) = n
  BY FS_Interval
<1>2. IsFiniteSet(SUBSET (1 .. n)) /\ Cardinality(SUBSET (1 .. n)) = 2 ^ Cardinality(1 .. n)
  BY <1>1, FS_SUBSET
<1> QED BY <1>1, <1>2, FS_CardinalityType

Steps == {"idle", "send", "flight", "write", "fill"}

\* What a caller may hold; Resting names an operation even where there is none.
Runs ==
    [pc : Steps, op : Operation \cup {Resting.op}, attempt : 0 .. Retries, waited : Nat,
     executed : Nat, resp : 0 .. changes, open : BOOLEAN, mixed : BOOLEAN]

ClientType ==
    /\ setup \in [mode : Mode, policy : Policy]
    /\ changes \in Nat
    /\ cached \in Entry({Torn} \cup 0 .. changes)
    /\ call \in [Client -> [run : Runs, calls : Nat]]
    /\ acked \in [Client -> 0 .. changes]
    /\ answer \in [Client -> {NoAnswer, Torn} \cup 0 .. changes]
    /\ crossed \in BOOLEAN

LEMMA RestingType == ClientType => Resting \in Runs
  BY ClientAssumption DEF ClientType, Resting, Runs, Steps

LEMMA RunTriedAgain ==
    ASSUME NEW run \in Runs, NEW pc \in Steps, NEW a \in 0 .. Retries, NEW w \in Nat
    PROVE  [run EXCEPT !.pc = pc, !.attempt = a, !.waited = w] \in Runs
  BY DEF Runs

LEMMA RetryMakes ==
    ASSUME ClientType, NEW c \in Client, NEW wait \in Nat, Retry(c, wait), MayRetry(c, wait)
    PROVE  /\ ClientType'
           /\ call'[c].run = [call[c].run EXCEPT !.pc = "send", !.attempt = @ + 1, !.waited = @ + wait]
           /\ \A d \in Client \ {c} : call'[d] = call[d]
<1> DEFINE run == [call[c].run EXCEPT !.pc = "send", !.attempt = @ + 1, !.waited = @ + wait]
<1>1. call[c] \in [run : Runs, calls : Nat] /\ call[c].run \in Runs
  BY DEF ClientType
<1>2. call[c].run.attempt < Retries
  BY <1>1, ClientAssumption DEF MayRetry, MaxRetries, ClientType, Runs
<1>3. run \in Runs
  <2>1. /\ call[c].run.attempt + 1 \in 0 .. Retries /\ call[c].run.waited + wait \in Nat
        /\ "send" \in Steps
    BY <1>1, <1>2, ClientAssumption DEF Runs, Steps
  <2> QED BY <1>1, <2>1, RunTriedAgain
<1>4. call' = [call EXCEPT ![c] = [call[c] EXCEPT !.run = run]]
  BY <1>1 DEF Retry, ClientType, Runs
<1>5. call' \in [Client -> [run : Runs, calls : Nat]]
  BY <1>1, <1>3, <1>4 DEF ClientType
<1>6. call'[c].run = run /\ \A d \in Client \ {c} : call'[d] = call[d]
  BY <1>1, <1>4 DEF ClientType
<1>7. ClientType'
  BY <1>5 DEF ClientType, Retry, Runs
<1> QED BY <1>6, <1>7

\* The other callers are left alone.
Others(c) == \A d \in Client \ {c} : call'[d] = call[d]

LEMMA CallType ==
    ASSUME ClientType, NEW c \in Client
    PROVE  /\ call[c] \in [run : Runs, calls : Nat] /\ call[c].run \in Runs /\ call[c].calls \in Nat
           /\ call[c].run.pc \in Steps /\ call[c].run.attempt \in 0 .. Retries
           /\ call[c].run.waited \in Nat /\ call[c].run.executed \in Nat
           /\ call[c].run.resp \in 0 .. changes /\ call[c].run.mixed \in BOOLEAN
           /\ call[c].run.open \in BOOLEAN
           /\ call[c].run.op \in Operation \cup {Resting.op}
<1>1. call[c] \in [run : Runs, calls : Nat]
  BY DEF ClientType
<1>2. call[c].run \in Runs /\ call[c].calls \in Nat
  BY <1>1
<1> QED BY <1>1, <1>2 DEF Runs

LEMMA RestMakes ==
    ASSUME ClientType, NEW c \in Client, Rest(c)
    PROVE  /\ call'[c].run = Resting /\ Others(c)
           /\ call' \in [Client -> [run : Runs, calls : Nat]]
<1>1. call[c] \in [run : Runs, calls : Nat] /\ Resting \in Runs
  BY CallType, RestingType
<1>2. call' = [call EXCEPT ![c] = [call[c] EXCEPT !.run = Resting]]
  BY DEF Rest
<1> QED BY <1>1, <1>2 DEF ClientType, Others

LEMMA CallsMakes ==
    ASSUME ClientType, NEW c \in Client, call' = [call EXCEPT ![c].calls = @ + 1]
    PROVE  /\ call'[c].run = call[c].run /\ Others(c)
           /\ call' \in [Client -> [run : Runs, calls : Nat]]
<1>1. call[c] \in [run : Runs, calls : Nat] /\ call[c].calls + 1 \in Nat
  BY CallType
<1>2. call' = [call EXCEPT ![c] = [call[c] EXCEPT !.calls = call[c].calls + 1]]
  OBVIOUS
<1> QED BY <1>1, <1>2 DEF ClientType, Others

LEMMA BeginMakes ==
    ASSUME ClientType, NEW c \in Client, NEW op \in Operation, BeginRequest(c, op)
    PROVE  /\ call'[c].run = [call[c].run EXCEPT !.op = op, !.pc = "send"] /\ Others(c)
           /\ call' \in [Client -> [run : Runs, calls : Nat]]
<1> DEFINE run == [call[c].run EXCEPT !.op = op, !.pc = "send"]
           new == [call[c] EXCEPT !.calls = @ + 1, !.run = run]
<1>1. call[c] \in [run : Runs, calls : Nat] /\ call[c].run \in Runs /\ call[c].calls + 1 \in Nat
  BY CallType
<1>2. run \in Runs
  BY <1>1 DEF Runs, Steps
<1>3. call' = [call EXCEPT ![c] = new]
  BY <1>1 DEF BeginRequest, ClientType, Runs
<1>4. new.run = run /\ new \in [run : Runs, calls : Nat]
  BY <1>1, <1>2
<1> QED BY <1>3, <1>4 DEF ClientType, Others

LEMMA ServeMakes ==
    ASSUME ClientType, NEW c \in Client, Serve(c)
    PROVE  /\ call'[c].run =
                [call[c].run EXCEPT !.pc = "flight", !.resp = changes', !.executed = @ + 1]
           /\ Others(c) /\ changes' \in Nat /\ changes <= changes'
           /\ ClientType'
<1> DEFINE run == [call[c].run EXCEPT !.pc = "flight", !.resp = changes', !.executed = @ + 1]
<1>0. changes \in Nat /\ changes' \in Nat /\ changes <= changes' /\ 0 .. changes \subseteq 0 .. changes'
  BY DEF ClientType, Serve
<1>1. /\ call[c] \in [run : Runs, calls : Nat] /\ call[c].run \in Runs
      /\ call[c].run.executed + 1 \in Nat
  BY CallType
<1>2. Runs \subseteq Runs'
  BY <1>0 DEF Runs, Serve
<1>3. run \in Runs'
  <2>1. call[c].run \in Runs' /\ changes' \in 0 .. changes' /\ "flight" \in Steps
    BY <1>0, <1>1, <1>2 DEF Steps
  <2> QED BY <1>1, <2>1 DEF Runs
<1>4. call' = [call EXCEPT ![c] = [call[c] EXCEPT !.run = run]]
  BY <1>1 DEF Serve, ClientType, Runs
<1>5. call' \in [Client -> [run : Runs', calls : Nat]]
  BY <1>1, <1>2, <1>3, <1>4 DEF ClientType
<1>6. call'[c].run = run /\ Others(c)
  BY <1>1, <1>4 DEF ClientType, Others
<1>7. ClientType'
  BY <1>0, <1>5 DEF ClientType, Serve, Entry
<1> QED BY <1>0, <1>6, <1>7

\* A caller whose file may have been removed, or is written by another as well.
Same(d) ==
    LET run == call[d].run
        new == call'[d].run
    IN  /\ new.pc = run.pc /\ new.op = run.op /\ new.attempt = run.attempt
        /\ new.waited = run.waited /\ new.executed = run.executed /\ new.resp = run.resp

LEMMA AcceptMakes ==
    ASSUME ClientType, NEW c \in Client, Accept(c)
    PROVE  /\ \/ call'[c].run = Resting
              \/ /\ Op(c).store /\ CacheEnabled
                 /\ call'[c].run = [call[c].run EXCEPT !.pc = "write"]
           /\ \A d \in Client \ {c} :
                 /\ Same(d) /\ call'[d].run.mixed = call[d].run.mixed
                 /\ call'[d].run.open = IF Invalidates(Op(c)) THEN FALSE ELSE call[d].run.open
           /\ ClientType'
<1>1. \A d \in Client : call[d] \in [run : Runs, calls : Nat] /\ call[d].run \in Runs
  BY CallType
<1>2. Resting \in Runs /\ changes' = changes /\ Runs' = Runs
  BY RestingType DEF Accept, Runs
<1>3. ASSUME NEW d \in Client
      PROVE  /\ [call[d].run EXCEPT !.pc = "write"] \in Runs
             /\ [call[d].run EXCEPT !.open = FALSE] \in Runs
  BY <1>1 DEF Runs, Steps
<1>4. ASSUME NEW d \in Client
      PROVE  /\ [call[d] EXCEPT !.run.pc = "write"].run = [call[d].run EXCEPT !.pc = "write"]
             /\ [call[d] EXCEPT !.run.open = FALSE].run = [call[d].run EXCEPT !.open = FALSE]
             /\ [call[d] EXCEPT !.run = Resting].run = Resting
             /\ [call[d] EXCEPT !.run.pc = "write"] \in [run : Runs, calls : Nat]
             /\ [call[d] EXCEPT !.run.open = FALSE] \in [run : Runs, calls : Nat]
             /\ [call[d] EXCEPT !.run = Resting] \in [run : Runs, calls : Nat]
  BY <1>1, <1>2, <1>3
<1>5. call' \in [Client -> [run : Runs, calls : Nat]]
  BY <1>1, <1>4 DEF Accept
<1>6. ASSUME NEW d \in Client \ {c}
      PROVE  /\ Same(d) /\ call'[d].run.mixed = call[d].run.mixed
             /\ call'[d].run.open = IF Invalidates(Op(c)) THEN FALSE ELSE call[d].run.open
  <2>1. CASE Invalidates(Op(c))
    <3>1. call'[d].run = [call[d].run EXCEPT !.open = FALSE]
      BY <1>4, <2>1 DEF Accept
    <3>2. call[d].run \in Runs
      BY <1>1
    <3> QED BY <2>1, <3>1, <3>2 DEF Runs, Same
  <2>2. CASE ~ Invalidates(Op(c))
    BY <2>2 DEF Accept, Same
  <2> QED BY <2>1, <2>2
<1>7. \/ call'[c].run = Resting
      \/ /\ Op(c).store /\ CacheEnabled
         /\ call'[c].run = [call[c].run EXCEPT !.pc = "write"]
  BY <1>4 DEF Accept
<1>8. call[c].run.resp \in 0 .. changes
  BY CallType
<1>9. cached' \in Entry({Torn} \cup 0 .. changes)
  BY TTLAssumption DEF ClientType, Accept, Absent, Entry
<1>10. acked' \in [Client -> 0 .. changes] /\ answer' \in [Client -> {NoAnswer, Torn} \cup 0 .. changes]
  BY <1>8 DEF ClientType, Accept
<1>11. crossed' \in BOOLEAN
  BY DEF Accept
<1>12. ClientType'
  BY <1>2, <1>5, <1>9, <1>10, <1>11 DEF ClientType, Accept
<1> QED BY <1>6, <1>7, <1>12

LEMMA TruncateMakes ==
    ASSUME ClientType, NEW c \in Client, TruncateCache(c)
    PROVE  /\ call'[c].run.pc = "fill" /\ call'[c].run.open = TRUE
           /\ call'[c].run.mixed = \E e \in Client \ {c} : At(e, "fill")
           /\ LET run == call[c].run
                  new == call'[c].run
              IN  /\ new.op = run.op /\ new.attempt = run.attempt /\ new.waited = run.waited
                  /\ new.executed = run.executed /\ new.resp = run.resp
           /\ \A d \in Client \ {c} :
                 /\ Same(d) /\ call'[d].run.open = call[d].run.open
                 /\ call'[d].run.mixed = call[d].run.mixed \/ At(d, "fill")
           /\ ClientType'
<1>1. \A d \in Client : call[d] \in [run : Runs, calls : Nat] /\ call[d].run \in Runs
  BY CallType
<1>2. changes' = changes /\ Runs' = Runs
  BY DEF TruncateCache, Runs
<1>3. PICK both \in BOOLEAN : both = \E e \in Client \ {c} : At(e, "fill")
  BY Zenon
<1> DEFINE run == [call[c].run EXCEPT !.pc = "fill", !.open = TRUE, !.mixed = both]
<1>4. run \in Runs
  BY <1>1 DEF Runs, Steps
<1>5. /\ [call[c] EXCEPT !.run.pc = "fill", !.run.open = TRUE, !.run.mixed = both]
            = [call[c] EXCEPT !.run = run]
  BY <1>1 DEF Runs
<1>6. ASSUME NEW d \in Client
      PROVE  /\ [call[d] EXCEPT !.run.mixed = TRUE].run = [call[d].run EXCEPT !.mixed = TRUE]
             /\ [call[d].run EXCEPT !.mixed = TRUE] \in Runs
             /\ [call[d] EXCEPT !.run.mixed = TRUE] \in [run : Runs, calls : Nat]
  <2>1. call[d] \in [run : Runs, calls : Nat] /\ [call[d].run EXCEPT !.mixed = TRUE] \in Runs
    BY <1>1 DEF Runs
  <2> QED BY <2>1
<1>7. call' = [d \in Client |->
                 IF d = c THEN [call[c] EXCEPT !.run = run]
                 ELSE IF At(d, "fill") THEN [call[d] EXCEPT !.run.mixed = TRUE] ELSE call[d]]
  BY <1>3, <1>5 DEF TruncateCache
<1>8. call' \in [Client -> [run : Runs, calls : Nat]]
  BY <1>1, <1>4, <1>6, <1>7
<1>9. call'[c].run = run
  BY <1>1, <1>7
<1>10. ASSUME NEW d \in Client \ {c}
       PROVE  /\ Same(d) /\ call'[d].run.open = call[d].run.open
              /\ call'[d].run.mixed = call[d].run.mixed \/ At(d, "fill")
  <2>1. CASE At(d, "fill")
    <3>1. call'[d].run = [call[d].run EXCEPT !.mixed = TRUE]
      BY <1>6, <1>7, <2>1
    <3>2. call[d].run \in Runs
      BY <1>1
    <3> QED BY <2>1, <3>1, <3>2 DEF Runs, Same
  <2>2. CASE ~ At(d, "fill")
    BY <1>7, <2>2 DEF Same
  <2> QED BY <2>1, <2>2
<1>11. cached' \in Entry({Torn} \cup 0 .. changes)
  <2>1. 0 \in 0 .. TTL + 1
    BY TTLAssumption
  <2>2. Written(Torn) \in Entry({Torn} \cup 0 .. changes)
    BY <2>1 DEF Written, Entry
  <2> QED BY <2>2 DEF TruncateCache
<1>12. crossed' \in BOOLEAN
  BY DEF TruncateCache
<1>13. ClientType'
  BY <1>2, <1>8, <1>11, <1>12 DEF ClientType, TruncateCache
<1> QED BY <1>1, <1>3, <1>9, <1>10, <1>13 DEF Runs

LEMMA FillMakes ==
    ASSUME ClientType, NEW c \in Client, FillCache(c)
    PROVE  ClientType' /\ call'[c].run = Resting /\ Others(c)
<1>1. /\ call'[c].run = Resting /\ Others(c)
      /\ call' \in [Client -> [run : Runs, calls : Nat]]
  BY RestMakes DEF FillCache
<1>2. cached' \in Entry({Torn} \cup 0 .. changes)
  <2>1. ASSUME NEW body \in {Torn} \cup 0 .. changes
        PROVE  Written(body) \in Entry({Torn} \cup 0 .. changes)
    <3>1. 0 \in 0 .. TTL + 1
      BY TTLAssumption
    <3> QED BY <3>1 DEF Written, Entry
  <2>2. call[c].run.resp \in 0 .. changes
    BY CallType
  <2>3. cached' = cached \/ \E body \in {Torn} \cup 0 .. changes : cached' = Written(body)
    BY <2>2 DEF FillCache
  <2> QED BY <2>1, <2>3 DEF ClientType
<1> QED BY <1>1, <1>2 DEF ClientType, FillCache, Runs

LEMMA CrashMakes ==
    ASSUME ClientType, NEW c \in Client, Crash(c)
    PROVE  ClientType' /\ call'[c].run = Resting /\ Others(c)
<1>1. /\ call'[c].run = Resting /\ Others(c)
      /\ call' \in [Client -> [run : Runs, calls : Nat]]
  BY RestMakes DEF Crash
<1> QED BY <1>1 DEF ClientType, Crash, Runs

LEMMA FailMakes ==
    ASSUME ClientType, NEW c \in Client, Fail(c)
    PROVE  ClientType' /\ call'[c].run = Resting /\ Others(c)
<1>1. /\ call'[c].run = Resting /\ Others(c)
      /\ call' \in [Client -> [run : Runs, calls : Nat]]
  BY RestMakes DEF Fail
<1> QED BY <1>1 DEF ClientType, Fail, Runs

LEMMA HitMakes ==
    ASSUME ClientType, NEW c \in Client, NEW op, HitCache(c, op)
    PROVE  ClientType' /\ call'[c].run = call[c].run /\ Others(c)
<1>1. /\ call'[c].run = call[c].run /\ Others(c)
      /\ call' \in [Client -> [run : Runs, calls : Nat]]
  BY CallsMakes DEF HitCache
<1>2. cached.body \in {NoAnswer, Torn} \cup 0 .. changes
  BY DEF ClientType, Entry
<1> QED BY <1>1, <1>2 DEF ClientType, HitCache, Runs

LEMMA NothingMakes ==
    ASSUME ClientType, NEW c \in Client, NEW op, BeginNothing(c, op)
    PROVE  ClientType' /\ call'[c].run = call[c].run /\ Others(c)
<1>1. /\ call'[c].run = call[c].run /\ Others(c)
      /\ call' \in [Client -> [run : Runs, calls : Nat]]
  BY CallsMakes DEF BeginNothing
<1> QED BY <1>1 DEF ClientType, BeginNothing, Runs

LEMMA ExpireMakes ==
    ASSUME ClientType, Expire
    PROVE  ClientType'
<1>1. cached' \in Entry({Torn} \cup 0 .. changes)
  <2>1. cached.age \in 0 .. TTL + 1 /\ cached.age <= TTL
    BY DEF ClientType, Entry, Expire, Fresh
  <2>2. cached.age + 1 \in 0 .. TTL + 1
    BY <2>1, TTLAssumption
  <2> QED BY <2>1, <2>2 DEF ClientType, Entry, Expire, Aged
<1> QED BY <1>1 DEF ClientType, Expire, Runs

-----------------------------------------------------------------------------
(* The invariant                                                           *)

\* A request that is sent again may be; so many attempts, so many executions.
RequestOK(c) ==
    LET run == call[c].run
    IN  /\ run.pc = "idle" => run.attempt = 0 /\ run.waited = 0 /\ run.executed = 0
        /\ run.pc # "idle" => run.op \in Operation /\ ~SendsNothing(run.op)
        /\ run.attempt > 0 => Replayable(run.op)
        /\ run.executed <= run.attempt + (IF run.pc = "send" THEN 0 ELSE 1)
        /\ setup.policy.attempts > 0 => run.attempt < setup.policy.attempts
        /\ run.waited <= setup.policy.budget

\* While no caller met another at the cache file: what a caller brings from the
\* server is younger than every change that was acknowledged, and so is what a
\* fresh file holds, but for one that is being written.
Younger(body) == \A c \in Client : acked[c] <= body
FileOK == Fresh(cached) => Younger(cached.body) \/ \E c \in Client : At(c, "fill")
CallerOK(c) ==
    LET run == call[c].run
    IN  /\ run.pc \in {"flight", "write", "fill"} => acked[c] <= run.resp
        /\ run.pc \in {"flight", "write", "fill"} /\ run.op.store => Younger(run.resp)
        /\ run.pc \in {"write", "fill"} => run.op.store /\ CacheEnabled
        /\ run.pc = "fill" => run.open = TRUE /\ run.mixed = FALSE
        /\ answer[c] # NoAnswer => answer[c] >= acked[c]

CacheOK == FileOK /\ \A c \in Client : CallerOK(c)

ClientInv ==
    /\ \A c \in Client : RequestOK(c)
    /\ ~crossed => CacheOK

LEMMA ClientInitSound == ClientInit => ClientType /\ ClientInv
<1> SUFFICES ASSUME ClientInit PROVE ClientType /\ ClientInv
  OBVIOUS
<1>1. /\ setup \in [mode : Mode, policy : Policy] /\ changes = 0 /\ cached = Absent(0)
      /\ call = [c \in Client |-> [run |-> Resting, calls |-> 0]]
      /\ acked = [c \in Client |-> 0] /\ answer = [c \in Client |-> NoAnswer] /\ crossed = FALSE
  BY DEF ClientInit
<1>2. Resting \in Runs
  BY <1>1, ClientAssumption DEF Resting, Runs, Steps
<1>3. cached \in Entry({Torn} \cup 0 .. 0) /\ ~Fresh(cached)
  BY <1>1, TTLAssumption DEF Entry, Absent, Fresh
<1>4. ClientType
  <2>1. 0 \in 0 .. changes /\ cached \in Entry({Torn} \cup 0 .. changes)
    BY <1>1, <1>3
  <2>2. call \in [Client -> [run : Runs, calls : Nat]]
    BY <1>1, <1>2
  <2>3. acked \in [Client -> 0 .. changes]
    BY <1>1, <2>1
  <2>4. answer \in [Client -> {NoAnswer, Torn} \cup 0 .. changes]
    BY <1>1
  <2> QED BY <1>1, <2>1, <2>2, <2>3, <2>4 DEF ClientType
<1>5. setup.policy \in [attempts : Nat, budget : Nat]
  BY <1>1, ClientAssumption
<1>6. /\ Resting.pc = "idle" /\ Resting.attempt = 0 /\ Resting.waited = 0 /\ Resting.executed = 0
  BY DEF Resting
<1>7. ASSUME NEW c \in Client PROVE RequestOK(c)
  BY <1>1, <1>5, <1>6 DEF RequestOK
<1>8. CacheOK
  BY <1>1, <1>3, <1>6 DEF CacheOK, FileOK, CallerOK
<1> QED BY <1>4, <1>7, <1>8 DEF ClientInv

\* What a step does not send again.
LEMMA RequestKept ==
    ASSUME NEW d \in Client, RequestOK(d), Same(d), setup' = setup
    PROVE  RequestOK(d)'
  BY DEF RequestOK, Same, SendsNothing, Replayable, NoBudget

LEMMA RequestRests ==
    ASSUME ClientType, NEW c \in Client, call'[c].run = Resting, setup' = setup
    PROVE  RequestOK(c)'
<1>1. setup.policy.attempts \in Nat /\ setup.policy.budget \in Nat
  BY ClientAssumption DEF ClientType
<1> QED BY <1>1 DEF RequestOK, Resting

LEMMA RequestRetried ==
    ASSUME ClientType, NEW c \in Client, RequestOK(c), NEW wait \in Nat,
           call[c].run.pc \in {"send", "flight"}, MayRetry(c, wait), Retry(c, wait)
    PROVE  RequestOK(c)'
<1> DEFINE run == call[c].run
           new == [run EXCEPT !.pc = "send", !.attempt = @ + 1, !.waited = @ + wait]
<1>1. call'[c].run = new /\ setup' = setup
  BY RetryMakes DEF Retry
<1>2. run \in Runs /\ run.attempt \in Nat /\ run.executed \in Nat /\ run.waited \in Nat
  BY CallType
<1>3. /\ new.pc = "send" /\ new.op = run.op /\ new.attempt = run.attempt + 1
      /\ new.waited = run.waited + wait /\ new.executed = run.executed
  BY <1>2 DEF Runs
<1>4. setup.policy.attempts \in Nat /\ Retries \in Nat
  BY ClientAssumption DEF ClientType
<1>5. /\ run.attempt < MaxRetries /\ Replayable(run.op)
      /\ run.waited + wait <= setup.policy.budget
  BY DEF MayRetry, Op
<1>6. setup.policy.attempts > 0 => MaxRetries <= setup.policy.attempts - 1
  BY <1>4 DEF MaxRetries
<1>7. MaxRetries \in Int
  BY <1>4 DEF MaxRetries
<1>8. run.executed <= run.attempt + 1 /\ run.op \in Operation /\ ~SendsNothing(run.op)
  BY <1>2 DEF RequestOK
<1>9. ~SendsNothing(run.op)'
  BY <1>1, <1>8 DEF SendsNothing
<1> HIDE DEF new
<1>10. setup.policy.attempts > 0 => new.attempt < setup.policy.attempts
  BY <1>2, <1>3, <1>4, <1>5, <1>6, <1>7
<1>11. new.executed <= new.attempt + 0
  BY <1>2, <1>3, <1>8
<1> QED BY <1>1, <1>2, <1>3, <1>5, <1>8, <1>9, <1>10, <1>11 DEF RequestOK, Replayable

LEMMA RequestStep ==
    ASSUME ClientType, ClientInv, [ClientNext]_clientVars
    PROVE  ClientType' /\ \A c \in Client : RequestOK(c)'
<1>0. \A c \in Client : RequestOK(c)
  BY DEF ClientInv
<1>1. CASE UNCHANGED clientVars
  BY <1>0, <1>1, RequestKept DEF clientVars, ClientType, Runs, Same
<1>2. CASE Expire
  <2>1. UNCHANGED <<setup, call>>
    BY <1>2 DEF Expire
  <2> QED BY <1>0, <1>2, <2>1, ExpireMakes, RequestKept DEF Same
<1>3. ASSUME NEW c \in Client, Begin(c) \/ Advance(c) \/ Crash(c)
      PROVE  ClientType' /\ RequestOK(c)' /\ setup' = setup /\ \A d \in Client \ {c} : Same(d)
  <2>1. ASSUME Others(c) PROVE \A d \in Client \ {c} : Same(d)
    BY <2>1 DEF Others, Same
  <2>2. ASSUME NEW op \in Operation, HitCache(c, op) \/ BeginNothing(c, op)
        PROVE  ClientType' /\ RequestOK(c)' /\ setup' = setup /\ \A d \in Client \ {c} : Same(d)
    <3>1. ClientType' /\ call'[c].run = call[c].run /\ Others(c) /\ setup' = setup
      BY <2>2, HitMakes, NothingMakes DEF HitCache, BeginNothing
    <3> QED BY <1>0, <2>1, <3>1, RequestKept DEF Same
  <2>3. ASSUME At(c, "idle"), NEW op \in Operation, BeginRequest(c, op)
        PROVE  ClientType' /\ RequestOK(c)' /\ setup' = setup /\ \A d \in Client \ {c} : Same(d)
    <3> DEFINE run == call[c].run
    <3>1. /\ call'[c].run = [run EXCEPT !.op = op, !.pc = "send"] /\ Others(c)
          /\ call' \in [Client -> [run : Runs, calls : Nat]]
      BY <2>3, BeginMakes
    <3>2. UNCHANGED <<setup, changes, cached, acked, answer, crossed>>
      BY <2>3 DEF BeginRequest
    <3>3. ClientType'
      BY <3>1, <3>2 DEF ClientType, Runs
    <3>4. /\ run.attempt = 0 /\ run.waited = 0 /\ run.executed = 0 /\ RequestOK(c)
      BY <1>0, <2>3 DEF RequestOK, At
    <3>5. run \in Runs
      BY CallType
    <3>6. /\ call'[c].run.pc = "send" /\ call'[c].run.op = op /\ call'[c].run.attempt = 0
          /\ call'[c].run.waited = 0 /\ call'[c].run.executed = 0
      BY <3>1, <3>4, <3>5 DEF Runs
    <3>7. setup.policy.attempts \in Nat /\ setup.policy.budget \in Nat
      BY ClientAssumption DEF ClientType
    <3>8. ~SendsNothing(op)'
      BY <2>3, <3>2 DEF BeginRequest, SendsNothing, NoBudget
    <3>9. RequestOK(c)'
      BY <3>2, <3>6, <3>7, <3>8 DEF RequestOK
    <3> QED BY <2>1, <3>1, <3>2, <3>3, <3>9
  <2>4. CASE Serve(c)
    <3> DEFINE run == call[c].run
    <3>1. /\ call'[c].run = [run EXCEPT !.pc = "flight", !.resp = changes', !.executed = @ + 1]
          /\ Others(c) /\ ClientType'
      BY <2>4, ServeMakes
    <3>2. setup' = setup /\ run.pc = "send" /\ RequestOK(c)
      BY <1>0, <2>4 DEF Serve, At
    <3>3. run \in Runs /\ run.executed \in Nat /\ run.attempt \in Nat
      BY CallType
    <3>4. /\ call'[c].run.pc = "flight" /\ call'[c].run.op = run.op
          /\ call'[c].run.attempt = run.attempt
          /\ call'[c].run.waited = run.waited /\ call'[c].run.executed = run.executed + 1
      BY <3>1, <3>3 DEF Runs
    <3>5. RequestOK(c)'
      BY <3>2, <3>3, <3>4 DEF RequestOK, SendsNothing, Replayable, NoBudget
    <3> QED BY <2>1, <3>1, <3>2, <3>5
  <2>5. CASE Accept(c)
    <3>1. /\ \/ call'[c].run = Resting
             \/ call'[c].run = [call[c].run EXCEPT !.pc = "write"]
          /\ \A d \in Client \ {c} : Same(d)
          /\ ClientType' /\ setup' = setup /\ call[c].run.pc = "flight"
      BY <2>5, AcceptMakes DEF Accept, At
    <3>2. CASE call'[c].run = Resting
      BY <3>1, <3>2, RequestRests
    <3>3. CASE call'[c].run = [call[c].run EXCEPT !.pc = "write"]
      <4>1. call[c].run \in Runs
        BY CallType
      <4>2. RequestOK(c)
        BY <1>0
      <4>3. /\ call'[c].run.pc = "write" /\ call'[c].run.op = call[c].run.op
            /\ call'[c].run.attempt = call[c].run.attempt
            /\ call'[c].run.waited = call[c].run.waited
            /\ call'[c].run.executed = call[c].run.executed
        BY <3>3, <4>1 DEF Runs
      <4>4. RequestOK(c)'
        BY <3>1, <4>2, <4>3 DEF RequestOK, SendsNothing, Replayable, NoBudget
      <4> QED BY <3>1, <4>4
    <3> QED BY <3>1, <3>2, <3>3
  <2>6. CASE TruncateCache(c)
    <3>1. /\ call'[c].run.pc = "fill" /\ call[c].run.pc = "write" /\ setup' = setup
          /\ call'[c].run.op = call[c].run.op /\ call'[c].run.attempt = call[c].run.attempt
          /\ call'[c].run.waited = call[c].run.waited
          /\ call'[c].run.executed = call[c].run.executed
          /\ \A d \in Client \ {c} : Same(d)
          /\ ClientType'
      BY <2>6, TruncateMakes DEF TruncateCache, At
    <3>2. RequestOK(c)
      BY <1>0
    <3>3. RequestOK(c)'
      BY <3>1, <3>2 DEF RequestOK, SendsNothing, Replayable, NoBudget
    <3> QED BY <3>1, <3>3
  <2>7. ASSUME FillCache(c) \/ Crash(c) \/ Fail(c)
        PROVE  ClientType' /\ RequestOK(c)' /\ setup' = setup /\ \A d \in Client \ {c} : Same(d)
    <3>1. ClientType' /\ call'[c].run = Resting /\ Others(c) /\ setup' = setup
      BY <2>7, FillMakes, CrashMakes, FailMakes DEF FillCache, Crash, Fail
    <3> QED BY <2>1, <3>1, RequestRests
  <2>8. ASSUME call[c].run.pc \in {"send", "flight"}, NEW wait \in Nat, MayRetry(c, wait), Retry(c, wait)
        PROVE  ClientType' /\ RequestOK(c)' /\ setup' = setup /\ \A d \in Client \ {c} : Same(d)
    <3>1. ClientType' /\ Others(c) /\ setup' = setup
      BY <2>8, RetryMakes DEF Others, Retry
    <3>2. RequestOK(c)'
      BY <1>0, <2>8, RequestRetried
    <3> QED BY <2>1, <3>1, <3>2
  <2>9. CASE Failed(c)
    <3>1. Backoff(c) \in Nat
      BY CallType, Powers DEF Backoff
    <3> QED BY <2>7, <2>8, <2>9, <3>1 DEF Failed
  <2>10. CASE Refused(c)
    <3>1. PICK wait \in Asked : \/ MayRetry(c, wait) /\ Retry(c, wait)
                                \/ ~MayRetry(c, wait) /\ Fail(c)
      BY <2>10 DEF Refused
    <3>2. wait \in Nat /\ call[c].run.pc = "send"
      BY <2>10, ClientAssumption DEF Refused, At
    <3> QED BY <2>7, <2>8, <3>1, <3>2
  <2> QED
    BY <1>3, <2>2, <2>3, <2>4, <2>5, <2>6, <2>7, <2>9, <2>10 DEF Begin, Advance, GiveUp
<1>4. ASSUME NEW c \in Client, Begin(c) \/ Advance(c) \/ Crash(c)
      PROVE  ClientType' /\ \A d \in Client : RequestOK(d)'
  BY <1>0, <1>3, <1>4, RequestKept
<1> QED BY <1>1, <1>2, <1>4 DEF ClientNext

\* A caller that keeps its place, its answer and its file, and knows what others
\* changed already.
LEMMA CallerKept ==
    ASSUME NEW d \in Client, CallerOK(d), Same(d), setup' = setup,
           acked' = acked \/ (call[d].run.pc \in {"flight", "write", "fill"} => ~call[d].run.op.store),
           acked'[d] = acked[d], answer'[d] = answer[d],
           call[d].run.pc = "fill" => call'[d].run.open = call[d].run.open
                                      /\ call'[d].run.mixed = call[d].run.mixed
    PROVE  CallerOK(d)'
  BY DEF CallerOK, Same, Younger, CacheEnabled

\* A caller that is back where it holds nothing from the server.
LEMMA CallerRests ==
    ASSUME NEW c \in Client, CallerOK(c), call'[c].run.pc \in {"idle", "send"},
           acked'[c] = acked[c], answer'[c] = answer[c]
    PROVE  CallerOK(c)'
  BY DEF CallerOK

LEMMA CacheStep ==
    ASSUME ClientType, ClientType', ClientInv, NEW c \in Client,
           Begin(c) \/ Advance(c) \/ Crash(c), ~crossed'
    PROVE  CacheOK'
<1>0. ~crossed /\ setup' = setup
  <2>1. Failed(c) \/ Refused(c) \/ GiveUp(c) => crossed' = crossed /\ setup' = setup
    BY DEF Failed, Refused, GiveUp, Fail, Retry
  <2>2. setup' = setup
    BY <2>1 DEF Begin, HitCache, BeginNothing, BeginRequest, Advance, Serve, Accept, TruncateCache,
                FillCache, Crash
  <2>3. \/ crossed' = crossed
        \/ \E op : HitCache(c, op)
        \/ Accept(c) \/ TruncateCache(c) \/ Crash(c)
    BY <2>1 DEF Begin, BeginNothing, BeginRequest, Advance, Serve, FillCache
  <2>4. ASSUME crossed' = crossed PROVE ~crossed
    BY <2>4, Zenon
  <2>5. ASSUME NEW op, HitCache(c, op) PROVE ~crossed
    BY <2>5, Zenon DEF HitCache
  <2>6. ASSUME Accept(c) \/ TruncateCache(c) \/ Crash(c) PROVE ~crossed
    BY <2>6, Zenon DEF Accept, TruncateCache, Crash
  <2> QED BY <2>2, <2>3, <2>4, <2>5, <2>6
<1>1. FileOK /\ \A d \in Client : CallerOK(d) /\ RequestOK(d)
  BY <1>0 DEF ClientInv, CacheOK
<1>2. \A d \in Client : /\ acked[d] \in Nat /\ acked[d] <= changes
                        /\ call[d].run.resp \in Nat /\ call[d].run.resp <= changes
  BY CallType DEF ClientType
<1>3. ASSUME Others(c), acked' = acked, \A d \in Client \ {c} : answer'[d] = answer[d]
      PROVE  \A d \in Client \ {c} : CallerOK(d)'
  <2>1. \A d \in Client \ {c} : Same(d) /\ call'[d] = call[d]
    BY <1>3 DEF Others, Same
  <2> QED BY <1>0, <1>1, <1>3, <2>1, CallerKept
<1>4. ASSUME Others(c), UNCHANGED <<acked, cached>>, call[c].run.pc # "fill"
      PROVE  FileOK'
  <2>1. \A d \in Client : At(d, "fill") => At(d, "fill")'
    BY <1>4 DEF Others, At
  <2> QED BY <1>1, <1>4, <2>1 DEF FileOK, Younger, Fresh
<1>5. ASSUME NEW op \in Operation, HitCache(c, op) PROVE CacheOK'
  <2>1. call'[c].run = call[c].run /\ Others(c) /\ acked' = acked /\ cached' = cached
    BY <1>5, HitMakes DEF HitCache
  <2>2. ~ \E d \in Client : At(d, "fill")
    BY <1>5 DEF HitCache
  <2>3. Younger(cached.body)
    BY <1>1, <1>5, <2>2 DEF FileOK, HitCache
  <2>4. \A d \in Client : At(d, "fill") => At(d, "fill")'
    BY <2>2
  <2>5. FileOK'
    BY <2>1, <2>3 DEF FileOK, Younger
  <2>6. CallerOK(c)'
    <3>1. answer'[c] = cached.body /\ cached.body >= acked[c]
      <4>1. acked[c] <= cached.body /\ cached.body \in Int
        BY <2>3 DEF Younger, ClientType, Entry, Torn
      <4> QED BY <1>2, <1>5, <4>1 DEF HitCache, ClientType
    <3> QED BY <1>0, <1>1, <2>1, <3>1 DEF CallerOK, Younger, CacheEnabled
  <2>7. \A d \in Client \ {c} : answer'[d] = answer[d]
    BY <1>5 DEF HitCache, ClientType
  <2> QED BY <1>3, <2>1, <2>5, <2>6, <2>7 DEF CacheOK
<1>6. ASSUME NEW op \in Operation, BeginNothing(c, op) PROVE CacheOK'
  <2>1. /\ call'[c].run = call[c].run /\ Others(c) /\ UNCHANGED <<acked, answer, cached>>
    BY <1>6, NothingMakes DEF BeginNothing
  <2>2. CallerOK(c)'
    BY <1>0, <1>1, <2>1, CallerKept DEF Same
  <2>3. FileOK'
    BY <1>1, <2>1 DEF FileOK, Younger, Fresh, Others, At
  <2> QED BY <1>3, <2>1, <2>2, <2>3 DEF CacheOK
<1>7. ASSUME NEW op \in Operation, At(c, "idle"), BeginRequest(c, op) PROVE CacheOK'
  <2>1. /\ call'[c].run = [call[c].run EXCEPT !.op = op, !.pc = "send"] /\ Others(c)
        /\ UNCHANGED <<acked, answer, cached>> /\ call[c].run.pc # "fill"
    BY <1>7, BeginMakes DEF BeginRequest, At
  <2>2. call'[c].run.pc = "send"
    BY <2>1, CallType DEF Runs
  <2>3. CallerOK(c)'
    BY <1>1, <2>1, <2>2, CallerRests
  <2> QED BY <1>3, <1>4, <2>1, <2>3 DEF CacheOK
<1>8. CASE Serve(c)
  <2>1. /\ call'[c].run = [call[c].run EXCEPT !.pc = "flight", !.resp = changes', !.executed = @ + 1]
        /\ Others(c) /\ changes <= changes' /\ changes' \in Nat
        /\ UNCHANGED <<acked, answer, cached>> /\ call[c].run.pc # "fill"
    BY <1>8, ServeMakes DEF Serve, At
  <2>2. call'[c].run.pc = "flight" /\ call'[c].run.resp = changes'
    BY <2>1, CallType DEF Runs
  <2>3. Younger(changes')
    BY <1>2, <2>1 DEF Younger, ClientType
  <2>4. CallerOK(c)'
    BY <1>1, <2>1, <2>2, <2>3 DEF CallerOK, Younger
  <2> QED BY <1>3, <1>4, <2>1, <2>4 DEF CacheOK
<1>9. CASE Accept(c)
  <2>1. /\ \/ call'[c].run = Resting
           \/ /\ Op(c).store /\ CacheEnabled
              /\ call'[c].run = [call[c].run EXCEPT !.pc = "write"]
        /\ \A d \in Client \ {c} :
              /\ Same(d) /\ call'[d].run.mixed = call[d].run.mixed
              /\ call'[d].run.open = IF Invalidates(Op(c)) THEN FALSE ELSE call[d].run.open
        /\ call[c].run.pc = "flight"
    BY <1>9, AcceptMakes DEF Accept, At
  <2>2. CASE Invalidates(Op(c))
    <3>1. ~Reading(c) /\ Changes(Op(c)) /\ cached' = Absent(cached.body)
      BY <1>9, <2>2 DEF Accept, Invalidates, Changes
    <3>2. ~Fresh(cached')
      BY <3>1, TTLAssumption DEF Fresh, Absent
    <3>3. acked'[c] = call[c].run.resp /\ answer'[c] = NoAnswer
      BY <1>9, <3>1 DEF Accept, ClientType
    <3>4. ASSUME NEW d \in Client \ {c} PROVE CallerOK(d)'
      <4>1. call[d].run.pc \in {"flight", "write", "fill"} => ~call[d].run.op.store
        BY <3>1 DEF Reading, Op
      <4>2. acked'[d] = acked[d] /\ answer'[d] = answer[d]
        BY <1>9 DEF Accept, ClientType
      <4>3. call[d].run.pc # "fill"
        BY <1>1, <4>1 DEF CallerOK
      <4> QED BY <1>0, <1>1, <2>1, <4>1, <4>2, <4>3, CallerKept
    <3>5. CallerOK(c)'
      <4>1. CASE call'[c].run = Resting
        BY <3>3, <4>1 DEF CallerOK, Resting
      <4>2. CASE Op(c).store /\ CacheEnabled /\ call'[c].run = [call[c].run EXCEPT !.pc = "write"]
        <5>1. /\ call'[c].run.pc = "write" /\ call'[c].run.resp = call[c].run.resp
              /\ call'[c].run.op = call[c].run.op
          BY <4>2, CallType DEF Runs
        <5>2. Younger(call[c].run.resp)
          BY <1>1, <2>1, <4>2 DEF CallerOK, Op
        <5>3. \A d \in Client : acked'[d] <= call[c].run.resp
          BY <1>2, <1>9, <3>3, <5>2 DEF Younger, Accept, ClientType
        <5> QED BY <1>0, <3>3, <4>2, <5>1, <5>3 DEF CallerOK, Younger, Op, CacheEnabled
      <4> QED BY <2>1, <4>1, <4>2
    <3> QED BY <3>2, <3>4, <3>5 DEF CacheOK, FileOK
  <2>3. CASE ~Invalidates(Op(c))
    <3>1. UNCHANGED <<acked, cached>> /\ answer' = [answer EXCEPT ![c] = call[c].run.resp]
      BY <1>9, <2>3 DEF Accept, Invalidates, Changes
    <3>2. \A d \in Client \ {c} : CallerOK(d)'
      <4>1. \A d \in Client \ {c} : answer'[d] = answer[d]
        BY <3>1 DEF ClientType
      <4> QED BY <1>0, <1>1, <2>1, <2>3, <3>1, <4>1, CallerKept
    <3>3. CallerOK(c)'
      <4>0. answer'[c] = call[c].run.resp /\ call[c].run.resp >= acked[c]
        BY <1>1, <1>2, <2>1, <3>1 DEF ClientType, CallerOK
      <4>1. CASE call'[c].run = Resting
        BY <3>1, <4>0, <4>1 DEF CallerOK, Resting
      <4>2. CASE Op(c).store /\ CacheEnabled /\ call'[c].run = [call[c].run EXCEPT !.pc = "write"]
        <5>1. /\ call'[c].run.pc = "write" /\ call'[c].run.resp = call[c].run.resp
              /\ call'[c].run.op = call[c].run.op
          BY <4>2, CallType DEF Runs
        <5> QED BY <1>0, <1>1, <2>1, <3>1, <4>0, <4>2, <5>1 DEF CallerOK, Younger, Op, CacheEnabled
      <4> QED BY <2>1, <4>1, <4>2
    <3>4. FileOK'
      <4>1. \A d \in Client : At(d, "fill") => At(d, "fill")'
        BY <2>1 DEF Same, At
      <4> QED BY <1>1, <3>1, <4>1 DEF FileOK, Younger, Fresh
    <3> QED BY <3>2, <3>3, <3>4 DEF CacheOK
  <2> QED BY <2>2, <2>3
<1>10. CASE TruncateCache(c)
  <2>1. /\ call'[c].run.pc = "fill" /\ call'[c].run.open = TRUE
        /\ call'[c].run.mixed = \E e \in Client \ {c} : At(e, "fill")
        /\ call'[c].run.op = call[c].run.op /\ call'[c].run.resp = call[c].run.resp
        /\ \A d \in Client \ {c} :
              /\ Same(d) /\ call'[d].run.open = call[d].run.open
              /\ call'[d].run.mixed = call[d].run.mixed \/ At(d, "fill")
        /\ UNCHANGED <<acked, answer>> /\ call[c].run.pc = "write" /\ ~Reading(c)
    BY <1>10, TruncateMakes DEF TruncateCache, At
  <2>2. \A e \in Client \ {c} : ~At(e, "fill")
    BY <1>1, <2>1 DEF Reading, CallerOK, At, Op
  <2>3. call'[c].run.mixed = FALSE
    BY <2>1, <2>2
  <2>4. CallerOK(c)'
    BY <1>0, <1>1, <2>1, <2>3 DEF CallerOK, Younger, CacheEnabled
  <2>5. \A d \in Client \ {c} : CallerOK(d)'
    BY <1>0, <1>1, <2>1, <2>2, CallerKept DEF At
  <2>6. FileOK'
    BY <2>1 DEF FileOK, At
  <2> QED BY <2>4, <2>5, <2>6 DEF CacheOK
<1>11. CASE FillCache(c)
  <2>1. /\ call'[c].run = Resting /\ Others(c) /\ UNCHANGED <<acked, answer>>
        /\ call[c].run.pc = "fill"
    BY <1>11, FillMakes DEF FillCache, At
  <2>2. /\ call[c].run.open = TRUE /\ call[c].run.mixed = FALSE /\ Younger(call[c].run.resp)
    BY <1>1, <2>1 DEF CallerOK
  <2>3. cached' = Written(call[c].run.resp)
    BY <1>11, <2>2 DEF FillCache
  <2>4. FileOK'
    BY <2>1, <2>2, <2>3 DEF FileOK, Younger, Written
  <2>5. CallerOK(c)'
    BY <1>1, <2>1, CallerRests DEF Resting
  <2> QED BY <1>3, <2>1, <2>4, <2>5 DEF CacheOK
<1>12. ASSUME call[c].run.pc \in {"send", "flight"}, Fail(c) PROVE CacheOK'
  <2>1. /\ call'[c].run = Resting /\ Others(c) /\ UNCHANGED <<acked, answer, cached>>
    BY <1>12, FailMakes DEF Fail
  <2>2. CallerOK(c)'
    BY <1>1, <2>1, CallerRests DEF Resting
  <2> QED BY <1>3, <1>4, <1>12, <2>1, <2>2 DEF CacheOK
<1>13. ASSUME call[c].run.pc \in {"send", "flight"}, NEW wait \in Nat, MayRetry(c, wait), Retry(c, wait)
       PROVE  CacheOK'
  <2>1. /\ call'[c].run = [call[c].run EXCEPT !.pc = "send", !.attempt = @ + 1, !.waited = @ + wait]
        /\ Others(c) /\ UNCHANGED <<acked, answer, cached>>
    BY <1>13, RetryMakes DEF Retry, Others
  <2>2. call'[c].run.pc = "send"
    BY <2>1, CallType DEF Runs
  <2>3. CallerOK(c)'
    BY <1>1, <2>1, <2>2, CallerRests
  <2> QED BY <1>3, <1>4, <1>13, <2>1, <2>3 DEF CacheOK
<1>14. CASE Failed(c)
  <2>1. Backoff(c) \in Nat
    BY CallType, Powers DEF Backoff
  <2> QED BY <1>12, <1>13, <1>14, <2>1 DEF Failed
<1>15. CASE Refused(c)
  <2>1. PICK wait \in Asked : \/ MayRetry(c, wait) /\ Retry(c, wait)
                              \/ ~MayRetry(c, wait) /\ Fail(c)
    BY <1>15 DEF Refused
  <2>2. wait \in Nat /\ call[c].run.pc = "send"
    BY <1>15, ClientAssumption DEF Refused, At
  <2> QED BY <1>12, <1>13, <2>1, <2>2
<1>16. ~Crash(c)
  BY DEF Crash
<1> QED
  BY <1>5, <1>6, <1>7, <1>8, <1>9, <1>10, <1>11, <1>12, <1>14, <1>15, <1>16
     DEF Begin, Advance, GiveUp

LEMMA ClientStep ==
    ClientType /\ ClientInv /\ [ClientNext]_clientVars => ClientType' /\ ClientInv'
<1> SUFFICES ASSUME ClientType, ClientInv, [ClientNext]_clientVars PROVE ClientType' /\ ClientInv'
  OBVIOUS
<1>1. ClientType' /\ \A c \in Client : RequestOK(c)'
  BY RequestStep
<1>2. ASSUME ~crossed', UNCHANGED <<setup, call, acked, answer, crossed>>, cached' = cached \/ Expire
      PROVE  CacheOK'
  <2>1. FileOK /\ \A c \in Client : CallerOK(c)
    BY <1>2 DEF ClientInv, CacheOK
  <2>2. \A c \in Client : CallerOK(c)'
    BY <1>2, <2>1 DEF CallerOK, Younger, CacheEnabled
  <2>3. FileOK'
    BY <1>2, <2>1 DEF FileOK, Younger, Fresh, At, Expire, Aged, ClientType, Entry
  <2> QED BY <2>2, <2>3 DEF CacheOK
<1>3. ~crossed' => CacheOK'
  BY <1>1, <1>2, CacheStep DEF ClientNext, Expire, clientVars
<1> QED BY <1>1, <1>3 DEF ClientInv

LEMMA ClientInvariant == ClientSpec => [](ClientType /\ ClientInv)
  BY ClientInitSound, ClientStep, PTL DEF ClientSpec

\* Every variable of ClientRequest keeps to its range, for any callers,
\* operations, modes and policies.
THEOREM ClientTypeCorrect == ClientSpec => []ClientTypeOK
<1>1. ClientType => ClientTypeOK
  <2> SUFFICES ASSUME ClientType PROVE ClientTypeOK
    OBVIOUS
  <2>1. \A c \in Client : acked[c] \in 0 .. changes /\ call[c].run.attempt \in 0 .. Retries
    BY CallType DEF ClientType
  <2> QED BY <2>1 DEF ClientTypeOK, ClientType
<1> QED BY <1>1, ClientInvariant, PTL

\* However its attempts fail: a change that must not be repeated reaches the
\* server at most once, one that is verified or dry-run never does, and no call
\* exceeds the attempts and the time of its policy.
THEOREM NoReplayCorrect == ClientSpec => []NoReplay
<1>1. ClientType /\ ClientInv => NoReplay
  <2> SUFFICES ASSUME ClientType, ClientInv, NEW c \in Client
               PROVE  LET run == call[c].run
                      IN  /\ Changes(Op(c)) /\ run.executed > 0 => setup.mode = "live"
                          /\ Changes(Op(c)) /\ run.executed > 1 => Op(c).verb = "PUT" \/ Op(c).keyed
                          /\ setup.policy.attempts > 0 => run.attempt < setup.policy.attempts
                          /\ run.waited <= setup.policy.budget
    BY DEF NoReplay
  <2> DEFINE run == call[c].run
  <2>1. RequestOK(c) /\ run.attempt \in Nat /\ run.executed \in Nat
    BY CallType DEF ClientInv
  <2>2. setup.mode \in Modes
    BY ClientAssumption DEF ClientType
  <2>3. ASSUME Changes(Op(c)), run.executed > 0 PROVE setup.mode = "live"
    <3>1. run.pc # "idle" /\ ~SendsNothing(run.op)
      BY <2>1, <2>3 DEF RequestOK
    <3> QED BY <2>2, <2>3, <3>1 DEF SendsNothing, Modes, Op
  <2>4. ASSUME Changes(Op(c)), run.executed > 1 PROVE Op(c).verb = "PUT" \/ Op(c).keyed
    <3>1. run.attempt > 0
      BY <2>1, <2>4 DEF RequestOK
    <3>2. Replayable(run.op)
      BY <2>1, <3>1 DEF RequestOK
    <3> QED BY <2>4, <3>2 DEF Replayable, Changes, Op
  <2> QED BY <2>1, <2>3, <2>4 DEF RequestOK
<1> QED BY <1>1, ClientInvariant, PTL

\* However callers interleave: unless one's GET was under way when another
\* changed the collection or wrote the cache file, a read after one's own
\* acknowledged change never returns what was there before it.
THEOREM ReadsOwnWritesCorrect == ClientSpec => []ReadsOwnWrites
<1>1. ClientType /\ ClientInv => ReadsOwnWrites
  BY DEF ClientInv, CacheOK, CallerOK, ReadsOwnWrites
<1> QED BY <1>1, ClientInvariant, PTL

-----------------------------------------------------------------------------
(* BoundedResults: the order of the pages                                  *)

\* A set of natural numbers has a least one.
LEMMA LeastOf ==
    ASSUME NEW S \in SUBSET Nat, S # {}
    PROVE  \E n \in S : \A k \in S : n <= k
<1>1. \E n \in S : \A k \in S : ~ (<<k, n>> \in OpToRel(<, Nat))
  BY NatLessThanWellFounded, WFMin
<1>2. \A k, n \in Nat : k < n => <<k, n>> \in OpToRel(<, Nat)
  BY Zenon DEF OpToRel
<1>3. \E n \in S : \A k \in S : ~ (k < n)
  BY <1>1, <1>2, Zenon
<1> QED BY <1>3

\* A bounded one has a largest.
LEMMA LargestOf ==
    ASSUME NEW n \in Nat, NEW S \in SUBSET (0 .. n), S # {}
    PROVE  Largest(S) \in S /\ \A k \in S : k <= Largest(S)
<1> DEFINE T == {k \in Nat : n - k \in S}
<1>1. PICK s \in S : TRUE
  OBVIOUS
<1>2. n - s \in T /\ T \in SUBSET Nat
  OBVIOUS
<1>3. PICK k \in T : \A j \in T : k <= j
  BY <1>2, LeastOf
<1>4. n - k \in S /\ \A j \in S : j <= n - k
  <2>1. \A j \in S : n - j \in T
    OBVIOUS
  <2> QED BY <1>3, <2>1
<1> QED BY <1>4 DEF Largest

\* Pages that lead only to later ones.
Listed(pages, next) ==
    /\ Len(pages) \in Nat \ {0} /\ pages \in [1 .. Len(pages) -> Seq(Nat)]
    /\ \A ans \in 1 .. Len(pages) : next[ans] \in {0} \cup (ans + 1) .. Len(pages)

\* What follows an answer is defined, for no answer leads back.
LEMMA FollowingUnfolds ==
    ASSUME NEW pages, NEW next, Listed(pages, next)
    PROVE  /\ Following(pages, next)[0] = <<>>
           /\ \A ans \in 1 .. Len(pages) :
                Following(pages, next)[ans] =
                  Items(ans, 1, Len(pages[ans]))
                    \o Following(pages, next)[next[ans]]
<1> DEFINE N == Len(pages)
           D(m) == {0} \cup m .. N
           Body(f, ans) == IF ans = 0 THEN <<>>
                            ELSE Items(ans, 1, Len(pages[ans]))
                                   \o f[next[ans]]
           Good(m) == \E f : f = [ans \in D(m) |-> Body(f, ans)]
<1>1. N \in Nat \ {0}
  BY DEF Listed
<1>2. Good(N + 1)
  <2> DEFINE f == [ans \in D(N + 1) |-> <<>>]
  <2>1. D(N + 1) = {0}
    BY <1>1
  <2>2. f = [ans \in D(N + 1) |-> Body(f, ans)]
    BY <2>1
  <2> HIDE DEF D, Body, f
  <2> QED BY <2>2
<1>3. ASSUME NEW m \in 2 .. N + 1, Good(m) PROVE Good(m - 1)
  <2>1. PICK f : f = [ans \in D(m) |-> Body(f, ans)]
    BY <1>3
  <2>2. m - 1 \in 1 .. N
    BY <1>1
  <2> DEFINE last == Items(m - 1, 1, Len(pages[m - 1]))
                       \o f[next[m - 1]]
             g == [ans \in D(m - 1) |-> IF ans = m - 1 THEN last ELSE f[ans]]
  <2>3. ASSUME NEW ans \in D(m - 1) PROVE g[ans] = Body(g, ans)
    <3>1. CASE ans = 0
      BY <3>1, <2>1, <2>2
    <3>2. CASE ans # 0
      <4>1. ans \in 1 .. N /\ ans >= m - 1
        BY <1>1, <2>2, <3>2
      <4>2. next[ans] \in {0} \cup (ans + 1) .. N
        BY <4>1 DEF Listed
      <4>3. /\ next[ans] \in D(m - 1)
            /\ next[ans] # m - 1
        BY <1>1, <2>2, <4>1, <4>2
      <4>4. g[next[ans]] = f[next[ans]]
        BY <4>3
      <4>5. CASE ans = m - 1
        BY <3>2, <4>4, <4>5
      <4>6. CASE ans # m - 1
        <5>1. ans \in D(m)
          BY <1>1, <2>2, <4>1, <4>6
        <5>2. f[ans] = Body(f, ans)
          BY <2>1, <5>1
        <5> QED BY <3>2, <4>4, <4>6, <5>2
      <4> QED BY <4>5, <4>6
    <3> QED BY <3>1, <3>2
  <2>4. g = [ans \in D(m - 1) |-> Body(g, ans)]
    BY <2>3
  <2> HIDE DEF D, Body, g
  <2> QED BY <2>4
<1> HIDE DEF N, Good
<1>4. Good(1)
  <2> DEFINE S == {m \in 1 .. N + 1 : Good(m)}
  <2>1. S \in SUBSET Nat /\ N + 1 \in S
    BY <1>1, <1>2
  <2>2. PICK m \in S : \A k \in S : m <= k
    <3> HIDE DEF S
    <3> QED BY <2>1, LeastOf
  <2>3. CASE m # 1
    <3>1. m \in 2 .. N + 1 /\ Good(m)
      BY <1>1, <2>3
    <3>2. m - 1 \in 1 .. N + 1 /\ Good(m - 1)
      BY <1>1, <1>3, <3>1
    <3>3. m <= m - 1
      BY <2>2, <3>2
    <3> QED BY <3>1, <3>3
  <2> QED BY <2>3
<1>5. D(1) = 0 .. N
  BY <1>1
<1>6. PICK f : f = [ans \in 0 .. N |-> Body(f, ans)]
  BY <1>4, <1>5 DEF Good
<1>7. Following(pages, next) =
        [ans \in 0 .. N |-> Body(Following(pages, next), ans)]
  BY <1>6 DEF Following, N
<1>8. \A ans \in 0 .. N : Following(pages, next)[ans] = Body(Following(pages, next), ans)
  <2> HIDE DEF Body
  <2> QED BY <1>7
<1>9. 0 \in 0 .. N /\ \A ans \in 1 .. N : ans \in 0 .. N /\ ans # 0
  BY <1>1
<1>10. Following(pages, next)[0] = <<>>
  BY <1>8, <1>9
<1>11. ASSUME NEW ans \in 1 .. N
       PROVE  Following(pages, next)[ans] =
                Items(ans, 1, Len(pages[ans]))
                  \o Following(pages, next)[next[ans]]
  BY <1>8, <1>9
<1> QED BY <1>10, <1>11 DEF N

-----------------------------------------------------------------------------

Entries == Seq(Nat \X Nat)

LEMMA ItemsTyped ==
    ASSUME NEW ans \in Nat \ {0}, NEW from \in Nat \ {0}, NEW to \in Nat, from <= to + 1
    PROVE  /\ Items(ans, from, to) \in Entries
           /\ Len(Items(ans, from, to)) = to - from + 1
           /\ \A i \in 1 .. to - from + 1 :
                Items(ans, from, to)[i] = <<PageOf(ans), from + i - 1>>
<1> DEFINE n == to - from + 1
<1>1. n \in Nat /\ PageOf(ans) \in Nat
  BY DEF PageOf
<1>2. \A i \in 1 .. n : <<PageOf(ans), from + i - 1>> \in Nat \X Nat
  BY <1>1
<1> HIDE DEF n
<1>3. [i \in 1 .. n |-> <<PageOf(ans), from + i - 1>>] \in Seq(Nat \X Nat)
  BY <1>1, <1>2
<1>4. Len([i \in 1 .. n |-> <<PageOf(ans), from + i - 1>>]) = n
  BY <1>1
<1> QED BY <1>3, <1>4 DEF Items, Entries, n

\* The items from the first on.
LEMMA FromTheFirst ==
    ASSUME NEW ans \in Nat \ {0}, NEW to \in Nat
    PROVE  Items(ans, 1, to) \in Entries
<1>1. PICK from \in Nat \ {0} : from = 1
  OBVIOUS
<1>2. from <= to + 1
  BY <1>1
<1>3. Items(ans, from, to) \in Entries
  BY <1>2, ItemsTyped
<1> QED BY <1>1, <1>3

\* Two cuts of an answer join.
LEMMA ItemsJoin ==
    ASSUME NEW ans \in Nat \ {0}, NEW from \in Nat \ {0}, NEW mid \in Nat, NEW to \in Nat,
           from <= mid + 1, mid <= to
    PROVE  Items(ans, from, mid) \o Items(ans, mid + 1, to) = Items(ans, from, to)
<1> DEFINE a == Items(ans, from, mid)
           b == Items(ans, mid + 1, to)
           c == Items(ans, from, to)
<1>1. /\ a \in Entries /\ Len(a) = mid - from + 1
      /\ \A i \in 1 .. mid - from + 1 : a[i] = <<PageOf(ans), from + i - 1>>
  BY ItemsTyped
<1>2. /\ b \in Entries /\ Len(b) = to - mid
      /\ \A i \in 1 .. to - mid : b[i] = <<PageOf(ans), mid + i>>
  <2>1. mid + 1 \in Nat \ {0} /\ mid + 1 <= to + 1 /\ to - (mid + 1) + 1 = to - mid
    OBVIOUS
  <2>2. \A i \in 1 .. to - mid : mid + 1 + i - 1 = mid + i
    OBVIOUS
  <2> HIDE DEF b
  <2>3. /\ b \in Entries /\ Len(b) = to - (mid + 1) + 1
        /\ \A i \in 1 .. to - (mid + 1) + 1 : b[i] = <<PageOf(ans), mid + 1 + i - 1>>
    BY <2>1, ItemsTyped DEF b
  <2> QED BY <2>1, <2>2, <2>3
<1>0. from <= to + 1 /\ \A i \in 1 .. to - from + 1 : i \in Nat
  OBVIOUS
<1> HIDE DEF a, b, c
<1>3. /\ c \in Entries /\ Len(c) = to - from + 1
      /\ \A i \in 1 .. to - from + 1 : c[i] = <<PageOf(ans), from + i - 1>>
  BY <1>0, ItemsTyped DEF c
<1>4. /\ a \o b \in Entries
      /\ Len(a \o b) = Len(a) + Len(b)
      /\ \A i \in 1 .. Len(a) + Len(b) : (a \o b)[i] = IF i <= Len(a) THEN a[i] ELSE b[i - Len(a)]
  BY <1>1, <1>2, ConcatProperties DEF Entries
<1>5. Len(a \o b) = Len(c)
  BY <1>1, <1>2, <1>3, <1>4
<1>6. ASSUME NEW i \in 1 .. Len(a \o b) PROVE (a \o b)[i] = c[i]
  <2> DEFINE n == Len(a)
             k == Len(a \o b)
             x == (a \o b)[i]
  <2>1. /\ n = mid - from + 1 /\ k = to - from + 1 /\ i \in 1 .. k
        /\ Len(a) + Len(b) = k
    BY <1>1, <1>2, <1>3, <1>4, <1>5
  <2>2. x = IF i <= n THEN a[i] ELSE b[i - n]
    BY <1>4, <2>1
  <2> HIDE DEF n, k, x
  <2>3. c[i] = <<PageOf(ans), from + i - 1>>
    BY <1>3, <2>1
  <2>4. CASE i <= n
    <3>1. i \in 1 .. mid - from + 1
      BY <2>1, <2>4
    <3> QED BY <1>1, <2>2, <2>3, <2>4, <3>1 DEF x
  <2>5. CASE ~(i <= n)
    <3>1. i - n \in 1 .. to - mid /\ mid + (i - n) = from + i - 1
      BY <2>1, <2>5
    <3>2. b[i - n] = <<PageOf(ans), mid + (i - n)>>
      BY <1>2, <3>1
    <3> QED BY <2>2, <2>3, <2>5, <3>1, <3>2 DEF x
  <2> QED BY <2>4, <2>5
<1> QED BY <1>3, <1>4, <1>5, <1>6, SeqEqual DEF a, b, c, Entries

\* What follows an answer is a sequence of items.
LEMMA FollowingTyped ==
    ASSUME NEW pages, NEW next, Listed(pages, next)
    PROVE  \A ans \in 0 .. Len(pages) : Following(pages, next)[ans] \in Entries
<1> DEFINE N == Len(pages)
           F == Following(pages, next)
           B == {ans \in 0 .. N : F[ans] \notin Entries}
<1>1. N \in Nat \ {0}
  BY DEF Listed
<1>2. F[0] \in Entries
  <2>1. F[0] = <<>>
    BY FollowingUnfolds
  <2>2. <<>> \in Entries
    BY EmptySeq DEF Entries
  <2> QED BY <2>1, <2>2
<1>3. CASE B # {}
  <2>1. PICK m \in B : \A k \in B : k <= m
    BY <1>1, <1>3, LargestOf
  <2>2. m # 0
    BY <1>2, <2>1
  <2>3. m \in 1 .. N
    BY <2>2
  <2>4. next[m] \in {0} \cup (m + 1) .. N
    BY <2>3 DEF Listed
  <2>5. F[next[m]] \in Entries
    BY <1>1, <1>2, <2>1, <2>3, <2>4
  <2>6. Len(pages[m]) \in Nat
    BY <2>3, LenProperties DEF Listed
  <2>7. Items(m, 1, Len(pages[m])) \in Entries
    <3>1. m \in Nat \ {0} /\ 1 \in Nat \ {0} /\ 1 <= Len(pages[m]) + 1
      BY <1>1, <2>3, <2>6
    <3> HIDE DEF B
    <3> QED BY <2>6, <3>1, ItemsTyped
  <2>8. F[m] = Items(m, 1, Len(pages[m])) \o F[next[m]]
    BY <2>3, FollowingUnfolds
  <2>9. F[m] \in Entries
    BY <2>5, <2>7, <2>8, ConcatProperties DEF Entries
  <2> QED BY <2>1, <2>9
<1> QED BY <1>3

-----------------------------------------------------------------------------
(* BoundedResults: what one result holds                                   *)

LEMMA Sums == Sum(<<>>) = 0 /\ \A n \in Nat : Sum(<<n>>) = n
<1>1. Sum(<<>>) = 0
  <2> DEFINE f == [i \in 0 .. Len(<<>>) |-> 0]
             Total(t) == t = [i \in 0 .. Len(<<>>) |-> IF i = 0 THEN 0 ELSE t[i - 1] + <<>>[i]]
  <2>1. 0 .. Len(<<>>) = {0}
    OBVIOUS
  <2>2. Total(f)
    BY <2>1
  <2>3. Total(CHOOSE t : Total(t))
    BY <2>2
  <2>4. Sum(<<>>) = (CHOOSE t : Total(t))[Len(<<>>)]
    BY DEF Sum
  <2> QED BY <2>1, <2>3, <2>4
<1>2. ASSUME NEW n \in Nat PROVE Sum(<<n>>) = n
  <2> DEFINE s == <<n>>
             f == [i \in 0 .. Len(s) |-> IF i = 0 THEN 0 ELSE n]
             Total(t) == t = [i \in 0 .. Len(s) |-> IF i = 0 THEN 0 ELSE t[i - 1] + s[i]]
  <2>1. Len(s) = 1 /\ s[1] = n /\ 0 .. Len(s) = {0, 1}
    OBVIOUS
  <2>2. Total(f)
    BY <2>1
  <2>3. Total(CHOOSE t : Total(t))
    BY <2>2
  <2>4. Sum(s) = (CHOOSE t : Total(t))[Len(s)]
    BY DEF Sum
  <2>5. PICK t : Total(t) /\ Sum(s) = t[1]
    BY <2>1, <2>3, <2>4
  <2>6. t[0] = 0
    BY <2>1, <2>5
  <2>7. t[1] = t[0] + n
    BY <2>1, <2>5
  <2> QED BY <2>5, <2>6, <2>7
<1> QED BY <1>1, <1>2

ListOK ==
    /\ DOMAIN list = {"form", "fields", "pages", "after"}
    /\ Len(list.pages) \in Nat \ {0} /\ list.pages \in [1 .. Len(list.pages) -> Seq(Nat)]
    /\ \A page \in 1 .. Len(list.pages) : list.after[page] \in {0} \cup page .. Len(list.pages)
    /\ list.fields \in Nat /\ (list.form = "array" => list.fields = 0)
    /\ meta \in Nat

\* The answers are one more than the pages.
LEMMA GivenTyped ==
    ASSUME ListOK
    PROVE  /\ Len(Given) = Len(list.pages) + 1 /\ Len(Given) \in Nat \ {0}
           /\ Answers = 1 .. Len(Given) /\ Given \in [1 .. Len(Given) -> Seq(Nat)]
           /\ \A ans \in Answers : /\ PageOf(ans) \in 1 .. Len(list.pages)
                                     /\ Given[ans] = list.pages[PageOf(ans)]
<1>1. \A ans \in Answers : PageOf(ans) \in 1 .. Len(list.pages)
  BY DEF ListOK, Answers, PageOf
<1>2. Given \in [1 .. Len(list.pages) + 1 -> Seq(Nat)]
  BY <1>1 DEF ListOK, Answers, Given
<1>3. Len(Given) = Len(list.pages) + 1
  BY <1>2 DEF ListOK
<1> QED BY <1>1, <1>2, <1>3 DEF ListOK, Answers, Given

\* The answer that follows one is a later one.
LEMMA NextLater ==
    ASSUME ListOK, NEW ans \in Answers
    PROVE  NextUpstream(ans) \in {0} \cup (ans + 1) .. Len(Given)
<1> DEFINE next == list.after[PageOf(ans)]
<1>1. next \in {0} \cup PageOf(ans) .. Len(list.pages) /\ Len(Given) = Len(list.pages) + 1
  BY GivenTyped DEF ListOK
<1>2. ans \in 1 .. Len(list.pages) + 1 /\ Len(list.pages) \in Nat
  BY DEF Answers, ListOK
<1>3. NextUpstream(ans) = IF next = 0 \/ next + 1 = ans THEN 0 ELSE next + 1
  BY DEF NextUpstream
<1> HIDE DEF next
<1> QED BY <1>1, <1>2, <1>3 DEF PageOf

LEMMA ListListed == ListOK => Listed(Given, Onward) /\ Answers = 1 .. Len(Given)
<1> SUFFICES ASSUME ListOK PROVE Listed(Given, Onward)
  BY GivenTyped
<1>1. ASSUME NEW ans \in 1 .. Len(Given)
      PROVE  Onward[ans] \in {0} \cup (ans + 1) .. Len(Given)
  <2>1. ans \in Answers
    BY GivenTyped
  <2> QED BY <2>1, NextLater DEF Onward
<1> QED BY <1>1, GivenTyped DEF Listed

IsResult(r) == r = Result(r.items, r.next, r.truncated, r.bytes)

\* A result that was given up: nothing of the list, and said to be cut.
GivenUp(r) == r.items = <<>> /\ r.next = NoCursor /\ r.truncated = TRUE

LEMMA PreviewGivenUp == IsResult(Preview) /\ GivenUp(Preview) /\ Preview.bytes = MaxBytes
BY DEF IsResult, GivenUp, Preview, Result

\* Metadata keeps a result within the budget, or gives it up.
LEMMA MetadataHonest ==
    ASSUME NEW r, IsResult(r), r.bytes <= MaxBytes
    PROVE  /\ WithMetadata(r).bytes <= MaxBytes
           /\ \/ GivenUp(WithMetadata(r))
              \/ /\ WithMetadata(r).items = r.items /\ WithMetadata(r).next = r.next
                 /\ WithMetadata(r).truncated = r.truncated
<1> DEFINE x == [r EXCEPT !.bytes = @ + meta]
<1>1. /\ x.items = r.items /\ x.next = r.next /\ x.truncated = r.truncated
      /\ x.bytes = r.bytes + meta
  BY DEF IsResult, Result
<1> HIDE DEF x
<1>2. WithMetadata(r) = IF meta = 0 \/ r = Failure THEN r
                        ELSE IF r.bytes + meta <= MaxBytes THEN x ELSE Preview
  BY DEF WithMetadata, x
<1>3. MaxBytes <= MaxBytes
  BY ResultsAssumption
<1> QED BY <1>1, <1>2, <1>3, PreviewGivenUp

LEMMA PageSizes ==
    ASSUME ListOK, NEW ans \in Answers
    PROVE  /\ ans \in Nat \ {0} /\ Sizes(ans) \in Seq(Nat) /\ Len(Sizes(ans)) \in Nat
           /\ \A i \in 1 .. Len(Sizes(ans)) : Sizes(ans)[i] \in Nat
<1>1. Sizes(ans) \in Seq(Nat)
  BY GivenTyped DEF Sizes
<1>2. ans \in Nat \ {0}
  BY DEF ListOK, Answers
<1> QED BY <1>1, <1>2, LenProperties, ElementOfSeq

LEMMA NoItemsLeft ==
    ASSUME NEW ans \in Nat \ {0}, NEW n \in Nat
    PROVE  Items(ans, n + 1, n) = <<>>
<1>1. n + 1 \in Nat \ {0} /\ n + 1 <= n + 1 /\ n - (n + 1) + 1 = 0
  OBVIOUS
<1>2. Items(ans, n + 1, n) \in Entries /\ Len(Items(ans, n + 1, n)) = 0
  BY <1>1, ItemsTyped
<1> QED BY <1>2, EmptySeq DEF Entries

\* An answer's result goes on from an offset to where its cursor begins.
Reaches(r, ans, offset, k) ==
    /\ r.items = Items(ans, offset + 1, k)
    /\ r.next = NextPageCursor(ans, k)
    /\ r.truncated = (NextPageCursor(ans, k) # NoCursor)

LEMMA PageResultHonest ==
    ASSUME NEW ans, NEW offset
    PROVE  IsResult(PageResult(ans, offset)) /\ PageResult(ans, offset).bytes <= MaxBytes
<1> DEFINE fit == FitPage(ans, Least(offset, Len(Sizes(ans))))
<1>1. IsResult(fit)
  BY DEF FitPage, Envelope, PreviewOfItem, NoItems, IsResult, Result
<1> HIDE DEF fit
<1>2. PageResult(ans, offset) = IF fit.bytes <= MaxBytes THEN fit ELSE Preview
  BY DEF PageResult, fit
<1>3. MaxBytes <= MaxBytes
  BY ResultsAssumption
<1> QED BY <1>1, <1>2, <1>3, PreviewGivenUp

LEMMA PageResultReaches ==
    ASSUME ListOK, ~Cramped, NEW ans \in Answers,
           NEW offset \in Nat, offset <= Len(Sizes(ans))
    PROVE  \/ GivenUp(PageResult(ans, offset))
           \/ \E k \in offset .. Len(Sizes(ans)) :
                Reaches(PageResult(ans, offset), ans, offset, k)
<1> DEFINE N == Len(Sizes(ans))
           rest == N - offset
           fitting == {n \in 1 .. Least(rest, MaxItems) : Envelope(ans, offset, n).bytes <= MaxBytes}
           previews == {b \in Previews : rest > 0 /\ PreviewOfItem(ans, offset, b).bytes <= MaxBytes}
           fit == FitPage(ans, offset)
<1>1. ans \in Nat \ {0} /\ N \in Nat /\ \A i \in 1 .. N : Sizes(ans)[i] \in Nat
  BY PageSizes
<1>2. Least(offset, N) = offset
  BY <1>1 DEF Least
<1>3. \E k \in offset .. N : Reaches(fit, ans, offset, k)
  <2>1. CASE fitting # {}
    <3> DEFINE n == Largest(fitting)
    <3>1. Least(rest, MaxItems) \in Nat /\ Least(rest, MaxItems) <= rest
      BY <1>1, ResultsAssumption DEF Least
    <3>2. fitting \in SUBSET (0 .. Least(rest, MaxItems)) /\ fitting \subseteq 1 .. rest
      BY <1>1, <3>1
    <3>3. n \in fitting
      <4> HIDE DEF fitting
      <4> QED BY <2>1, <3>1, <3>2, LargestOf
    <3>4. offset + n \in offset .. N
      BY <1>1, <3>2, <3>3
    <3>5. fit = Envelope(ans, offset, n)
      BY <2>1 DEF FitPage
    <3> HIDE DEF n, fit
    <3>6. Reaches(fit, ans, offset, offset + n)
      BY <3>5 DEF Envelope, Result, Reaches
    <3> QED BY <3>4, <3>6
  <2>2. CASE fitting = {} /\ previews # {}
    <3> DEFINE b == Largest(previews)
    <3>1. offset + 1 \in offset .. N
      BY <1>1, <2>2
    <3>2. fit = PreviewOfItem(ans, offset, b)
      BY <2>2 DEF FitPage
    <3> HIDE DEF b, fit
    <3>3. Reaches(fit, ans, offset, offset + 1)
      BY <3>2 DEF PreviewOfItem, Result, Reaches
    <3> QED BY <3>1, <3>3
  <2>3. CASE fitting = {} /\ previews = {}
    <3>1. ~ (rest > 0)
      <4>1. SUFFICES ASSUME rest > 0 PROVE FALSE
        OBVIOUS
      <4> DEFINE next == NextPageCursor(ans, offset + 1)
      <4>2. Sizes(ans)[offset + 1] \in Nat
        BY <1>1, <4>1
      <4>3. Least(0, Sizes(ans)[offset + 1]) = 0
        BY <4>2 DEF Least
      <4>4. Sum(<<Least(0, Sizes(ans)[offset + 1])>>) = 0
        BY <4>3, Sums
      <4> HIDE DEF next
      <4>5. Bytes(<<Least(0, Sizes(ans)[offset + 1])>>, next) <= MaxBytes
        BY <4>4, ResultsAssumption DEF Bytes, Cramped, ListOK
      <4>6. PreviewOfItem(ans, offset, 0).bytes <= MaxBytes
        BY <4>5 DEF PreviewOfItem, Result, next
      <4>7. 0 \in previews
        BY <4>1, <4>6, ResultsAssumption
      <4> QED BY <2>3, <4>7
    <3>2. offset = N
      BY <1>1, <3>1
    <3>3. fit = NoItems(ans)
      BY <2>3 DEF FitPage
    <3>4. Items(ans, N + 1, N) = <<>>
      BY <1>1, NoItemsLeft
    <3> HIDE DEF fit
    <3>5. Reaches(fit, ans, offset, N)
      BY <3>2, <3>3, <3>4 DEF NoItems, Result, Reaches
    <3>6. N \in offset .. N
      BY <1>1
    <3> QED BY <3>5, <3>6
  <2> HIDE DEF fitting, previews
  <2> QED BY <2>1, <2>2, <2>3
<1> HIDE DEF fit
<1>4. PageResult(ans, offset) = IF fit.bytes <= MaxBytes THEN fit ELSE Preview
  BY <1>2 DEF PageResult, fit
<1> QED BY <1>3, <1>4, PreviewGivenUp

\* A result without paging: the beginning of its answer, all of it unless it says so.
Cut(r, ans) ==
    /\ r.next = NoCursor
    /\ \E k \in 0 .. Len(Sizes(ans)) :
         /\ r.items = Items(ans, 1, k)
         /\ r.truncated = TRUE \/ (r.truncated = FALSE /\ k = Len(Sizes(ans)))

LEMMA FitItemsCut ==
    ASSUME ListOK, NEW ans \in Answers
    PROVE  /\ IsResult(FitItems(ans)) /\ Cut(FitItems(ans), ans)
           /\ list.form = "array" => FitItems(ans).bytes <= MaxBytes
<1> DEFINE N == Len(Sizes(ans))
           fitting == {n \in 1 .. Least(N, MaxItems) : Shortened(ans, n).bytes <= MaxBytes}
           n == IF fitting = {} THEN 0 ELSE Largest(fitting)
<1>1. ans \in Nat \ {0} /\ N \in Nat
  BY PageSizes
<1>2. Least(N, MaxItems) \in Nat /\ Least(N, MaxItems) <= N
  BY <1>1, ResultsAssumption DEF Least
<1>3. fitting # {} => Largest(fitting) \in fitting
  <2>1. fitting \in SUBSET (0 .. Least(N, MaxItems))
    BY <1>1, <1>2
  <2> HIDE DEF fitting
  <2> QED BY <1>2, <2>1, LargestOf
<1>4. n \in 0 .. N
  BY <1>1, <1>2, <1>3
<1>5. FitItems(ans) = Shortened(ans, n)
  BY DEF FitItems
<1>6. fitting # {} => Shortened(ans, n).bytes <= MaxBytes
  BY <1>3
<1>7. list.form = "array" => Shortened(ans, 0).bytes <= MaxBytes
  <2>1. SubSeq(Sizes(ans), 1, 0) = <<>>
    BY SubSeqEmpty
  <2>2. Sum(SubSeq(Sizes(ans), 1, 0)) = 0
    BY <2>1, Sums
  <2> DEFINE next == IF 0 < N THEN FirstPage ELSE NoCursor
  <2>3. Shortened(ans, 0).bytes = Bytes(SubSeq(Sizes(ans), 1, 0), next)
    BY DEF Shortened, Result
  <2> HIDE DEF next
  <2> QED BY <2>2, <2>3, ResultsAssumption DEF Bytes, ListOK
<1>8. n = 0 \/ fitting # {}
  OBVIOUS
<1> HIDE DEF n, fitting
<1>9. list.form = "array" => Shortened(ans, n).bytes <= MaxBytes
  BY <1>6, <1>7, <1>8
<1>10. /\ IsResult(Shortened(ans, n))
       /\ Shortened(ans, n).next = NoCursor /\ Shortened(ans, n).items = Items(ans, 1, n)
       /\ Shortened(ans, n).truncated = (n < N)
  BY DEF Shortened, Result, IsResult
<1>11. Cut(Shortened(ans, n), ans)
  <2>1. CASE n < N
    BY <1>4, <1>10, <2>1 DEF Cut
  <2>2. CASE ~(n < N)
    <3>1. n = N
      BY <1>1, <1>4, <2>2
    <3> QED BY <1>4, <1>10, <2>2, <3>1 DEF Cut
  <2> QED BY <2>1, <2>2
<1> QED BY <1>5, <1>9, <1>10, <1>11

-----------------------------------------------------------------------------
(* BoundedResults: what a call takes of what remains                       *)

(* What cuts of a list are, one after the other. *)
LEMMA EntriesConcat ==
    \A s, t, u \in Entries : s \o t \in Entries /\ (s \o t) \o u = s \o (t \o u)
<1> DEFINE S == Nat \X Nat
<1>1. Entries = Seq(S)
  BY DEF Entries
<1> HIDE DEF S
<1> SUFFICES ASSUME NEW s \in Seq(S), NEW t \in Seq(S), NEW u \in Seq(S)
             PROVE  s \o t \in Seq(S) /\ (s \o t) \o u = s \o (t \o u)
  BY <1>1
<1>2. s \o t \in Seq(S)
  BY ConcatProperties
<1>3. (s \o t) \o u = s \o (t \o u)
  BY ConcatAssociative
<1> QED BY <1>2, <1>3

LEMMA UnpagedCut ==
    ASSUME ListOK, NEW ans \in Answers
    PROVE  /\ IsResult(UnpagedResult(ans)) /\ UnpagedResult(ans).bytes <= MaxBytes
           /\ GivenUp(UnpagedResult(ans)) \/ Cut(UnpagedResult(ans), ans)
<1> DEFINE N == Len(Sizes(ans))
           all == Result(Items(ans, 1, N), NoCursor, FALSE, Whole(ans))
           r == UnpagedResult(ans)
<1>1. ans \in Nat \ {0} /\ N \in Nat
  BY PageSizes
<1>2. IsResult(all) /\ all.bytes = Whole(ans) /\ Cut(all, ans)
  BY <1>1 DEF IsResult, Result, Cut
<1>3. MaxBytes <= MaxBytes
  BY ResultsAssumption
<1>4. /\ list.form = "array" => r = FitItems(ans)
      /\ list.form # "array" =>
           \/ r = all /\ Whole(ans) <= MaxBytes
           \/ r = FitItems(ans) /\ FitItems(ans).bytes <= MaxBytes
           \/ r = Preview
  BY DEF UnpagedResult
<1> HIDE DEF all, r
<1> QED BY <1>2, <1>3, <1>4, FitItemsCut, PreviewGivenUp DEF r

LEMMA BinaryCut ==
    ASSUME ListOK, NEW ans \in Answers
    PROVE  /\ IsResult(BinaryResult(ans)) /\ BinaryResult(ans).bytes <= MaxBytes
           /\ GivenUp(BinaryResult(ans)) \/ Cut(BinaryResult(ans), ans)
<1> DEFINE N == Len(Sizes(ans))
           bytes == Frame + Encoded(Sum(Sizes(ans)))
           all == Result(Items(ans, 1, N), NoCursor, FALSE, bytes)
<1>1. ans \in Nat \ {0} /\ N \in Nat
  BY PageSizes
<1>2. IsResult(all) /\ all.bytes = bytes /\ Cut(all, ans)
  BY <1>1 DEF IsResult, Result, Cut
<1>3. MaxBytes <= MaxBytes
  BY ResultsAssumption
<1>4. IsResult(Failure) /\ GivenUp(Failure) /\ Failure.bytes = MaxBytes
  BY DEF Failure, Result, IsResult, GivenUp
<1>5. BinaryResult(ans) = IF bytes <= MaxBytes THEN all ELSE Failure
  BY DEF BinaryResult
<1> HIDE DEF all, bytes
<1> QED BY <1>2, <1>3, <1>4, <1>5

LEMMA CommandCut ==
    ASSUME ListOK, NEW ans \in Answers
    PROVE  /\ IsResult(CommandResult(ans)) /\ CommandResult(ans).bytes <= MaxBytes
           /\ GivenUp(CommandResult(ans)) \/ Cut(CommandResult(ans), ans)
<1> DEFINE N == Len(Sizes(ans))
           all == Result(Items(ans, 1, N), NoCursor, FALSE, Whole(ans))
<1>1. ans \in Nat \ {0} /\ N \in Nat
  BY PageSizes
<1>2. IsResult(all) /\ all.bytes = Whole(ans) /\ Cut(all, ans)
  BY <1>1 DEF IsResult, Result, Cut
<1>3. /\ MaxBytes <= MaxBytes
      /\ Captured(Whole(ans)) <= MaxBytes => Whole(ans) <= MaxBytes
  BY ResultsAssumption DEF Captured, Least
<1>4. CommandResult(ans) = IF Captured(Whole(ans)) <= MaxBytes THEN all ELSE Preview
  BY DEF CommandResult
<1> HIDE DEF all
<1> QED BY <1>2, <1>3, <1>4, PreviewGivenUp

LEMMA RenderedHonest ==
    ASSUME ListOK, NEW c \in [answer : Answers, offset : Nat]
    PROVE  /\ Rendered(c).bytes <= MaxBytes
           /\ ~Resumable => GivenUp(Rendered(c)) \/ Cut(Rendered(c), c.answer)
           /\ Resumable /\ ~Cramped /\ c.offset <= Len(Sizes(c.answer)) =>
                \/ GivenUp(Rendered(c))
                \/ \E k \in c.offset .. Len(Sizes(c.answer)) :
                     Reaches(Rendered(c), c.answer, c.offset, k)
<1>1. c.answer \in Answers /\ c.offset \in Nat
  OBVIOUS
<1>2. CASE Resumable
  <2> DEFINE r == PageResult(c.answer, c.offset)
  <2>1. IsResult(r) /\ r.bytes <= MaxBytes
    BY PageResultHonest
  <2>2. Rendered(c) = WithMetadata(r)
    BY <1>2 DEF Rendered, Resumable
  <2>3. ~Cramped /\ c.offset <= Len(Sizes(c.answer)) =>
          \/ GivenUp(r)
          \/ \E k \in c.offset .. Len(Sizes(c.answer)) : Reaches(r, c.answer, c.offset, k)
    BY <1>1, PageResultReaches
  <2> HIDE DEF r
  <2>4. /\ WithMetadata(r).bytes <= MaxBytes
        /\ \/ GivenUp(WithMetadata(r))
           \/ /\ WithMetadata(r).items = r.items /\ WithMetadata(r).next = r.next
              /\ WithMetadata(r).truncated = r.truncated
    BY <2>1, MetadataHonest
  <2> QED BY <1>2, <2>2, <2>3, <2>4 DEF GivenUp, Reaches
<1>3. CASE ~Resumable
  <2>1. PICK r : /\ IsResult(r) /\ r.bytes <= MaxBytes /\ (GivenUp(r) \/ Cut(r, c.answer))
                 /\ Rendered(c) = r \/ Rendered(c) = WithMetadata(r)
    <3>1. \/ Rendered(c) = WithMetadata(BinaryResult(c.answer))
          \/ Rendered(c) = CommandResult(c.answer)
          \/ Rendered(c) = WithMetadata(UnpagedResult(c.answer))
      BY <1>3 DEF Rendered
    <3> QED BY <1>1, <3>1, UnpagedCut, BinaryCut, CommandCut
  <2>2. /\ WithMetadata(r).bytes <= MaxBytes
        /\ \/ GivenUp(WithMetadata(r))
           \/ /\ WithMetadata(r).items = r.items /\ WithMetadata(r).next = r.next
              /\ WithMetadata(r).truncated = r.truncated
    BY <2>1, MetadataHonest
  <2> QED BY <1>3, <2>1, <2>2 DEF GivenUp, Cut
<1> QED BY <1>2, <1>3

-----------------------------------------------------------------------------
(* BoundedResults: what a caller collects                                  *)

\* What a cursor still leads to.
Remaining(pages, next, c) ==
    Items(c.answer, c.offset + 1, Len(pages[c.answer]))
      \o Following(pages, next)[next[c.answer]]

LEMMA RemainingTyped ==
    ASSUME NEW pages, NEW next, Listed(pages, next),
           NEW c \in [answer : 1 .. Len(pages), offset : Nat],
           c.offset <= Len(pages[c.answer])
    PROVE  Remaining(pages, next, c) \in Entries
<1> DEFINE ans == c.answer
           N == Len(pages[ans])
<1>1. ans \in 1 .. Len(pages) /\ ans \in Nat \ {0}
  BY DEF Listed
<1>2. N \in Nat
  BY <1>1, LenProperties DEF Listed
<1>3. c.offset + 1 \in Nat \ {0} /\ c.offset + 1 <= N + 1
  BY <1>2
<1>4. Items(ans, c.offset + 1, N) \in Entries
  BY <1>1, <1>2, <1>3, ItemsTyped
<1>5. next[ans] \in 0 .. Len(pages)
  BY <1>1 DEF Listed
<1>6. Following(pages, next)[next[ans]] \in Entries
  BY <1>5, FollowingTyped
<1> HIDE DEF ans, N
<1>7. Items(ans, c.offset + 1, N) \o Following(pages, next)[next[ans]]
        \in Entries
  BY <1>4, <1>6, ConcatProperties DEF Entries
<1> QED BY <1>7 DEF Remaining, ans, N

\* Taking an answer's items up to k leaves what is behind k.
LEMMA RemainingSplits ==
    ASSUME NEW pages, NEW next, Listed(pages, next),
           NEW ans \in 1 .. Len(pages), NEW offset \in Nat,
           NEW k \in offset .. Len(pages[ans])
    PROVE  LET after == [answer |-> ans, offset |-> k] IN
           /\ Items(ans, offset + 1, k) \in Entries
           /\ Remaining(pages, next, after) \in Entries
           /\ Items(ans, offset + 1, k) \o Remaining(pages, next, after)
                = Remaining(pages, next, [answer |-> ans, offset |-> offset])
           /\ k = Len(pages[ans]) =>
                Remaining(pages, next, after)
                  = Following(pages, next)[next[ans]]
<1> DEFINE N == Len(pages[ans])
           after == [answer |-> ans, offset |-> k]
           F == Following(pages, next)[next[ans]]
           a == Items(ans, offset + 1, k)
           b == Items(ans, k + 1, N)
<1>1. ans \in Nat \ {0} /\ N \in Nat /\ k \in Nat
  <2>1. ans \in Nat \ {0}
    BY DEF Listed
  <2>2. N \in Nat
    BY LenProperties DEF Listed
  <2> QED BY <2>1, <2>2
<1>2. /\ offset + 1 \in Nat \ {0} /\ offset + 1 <= k + 1 /\ k <= N
      /\ k + 1 \in Nat \ {0} /\ k + 1 <= N + 1
  BY <1>1
<1>3. a \in Entries /\ b \in Entries
  BY <1>1, <1>2, ItemsTyped
<1>4. next[ans] \in 0 .. Len(pages)
  <2>1. next[ans] \in {0} \cup (ans + 1) .. Len(pages)
    BY DEF Listed
  <2> QED BY <1>1, <2>1 DEF Listed
<1>5. F \in Entries
  BY <1>4, FollowingTyped
<1>6. a \o b = Items(ans, offset + 1, N)
  BY <1>1, <1>2, ItemsJoin
<1>7. Remaining(pages, next, after) = b \o F
  BY DEF Remaining
<1>8. Remaining(pages, next, [answer |-> ans, offset |-> offset])
        = Items(ans, offset + 1, N) \o F
  BY DEF Remaining
<1>9. k = N => b = <<>>
  BY <1>1, NoItemsLeft
<1> HIDE DEF N, F, a, b
<1>10. b \o F \in Entries /\ (a \o b) \o F = a \o (b \o F)
  BY <1>3, <1>5, EntriesConcat
<1>11. <<>> \o F = F
  BY <1>5, ConcatEmptySeq DEF Entries
<1> HIDE DEF after
<1>12. /\ a \in Entries /\ Remaining(pages, next, after) \in Entries
       /\ a \o Remaining(pages, next, after)
            = Remaining(pages, next, [answer |-> ans, offset |-> offset])
       /\ k = N => Remaining(pages, next, after) = F
  BY <1>3, <1>6, <1>7, <1>8, <1>9, <1>10, <1>11
<1> QED BY <1>12 DEF N, F, a, after

-----------------------------------------------------------------------------
(* BoundedResults: what a caller has collected                             *)

\* What follows the first answer if nothing comes after it ...
LEMMA OnePage ==
    ASSUME NEW pages, NEW next, Listed(pages, next), next[1] = 0
    PROVE  Following(pages, next)[1] = Items(1, 1, Len(pages[1]))
<1>1. PICK ans \in 1 .. Len(pages) : ans = 1
  BY DEF Listed
<1>2. Following(pages, next)[ans] =
        Items(ans, 1, Len(pages[ans])) \o Following(pages, next)[next[ans]]
  BY FollowingUnfolds
<1>3. Following(pages, next)[0] = <<>>
  BY FollowingUnfolds
<1>4. Items(ans, 1, Len(pages[ans])) \in Entries
  <2>1. Len(pages[ans]) \in Nat /\ ans \in Nat \ {0}
    BY LenProperties DEF Listed
  <2> QED BY <2>1, FromTheFirst
<1>5. Items(ans, 1, Len(pages[ans])) \o <<>> = Items(ans, 1, Len(pages[ans]))
  BY <1>4, ConcatEmptySeq DEF Entries
<1> QED BY <1>1, <1>2, <1>3, <1>5

\* ... and if the same page comes after it, and then nothing.
LEMMA PageTwice ==
    ASSUME NEW pages, NEW next, Listed(pages, next), 2 \in 1 .. Len(pages)
    PROVE  next[1] = 2 /\ next[2] = 0 /\ pages[1] = pages[2] =>
             Following(pages, next)[1] = Items(1, 1, Len(pages[1])) \o Items(1, 1, Len(pages[1]))
<1>1. PICK first \in 1 .. Len(pages), again \in 1 .. Len(pages) : first = 1 /\ again = 2
  BY DEF Listed
<1>2. /\ Following(pages, next)[first] =
           Items(first, 1, Len(pages[first])) \o Following(pages, next)[next[first]]
      /\ Following(pages, next)[again] =
           Items(again, 1, Len(pages[again])) \o Following(pages, next)[next[again]]
      /\ Following(pages, next)[0] = <<>>
  <2>0. \A ans \in 1 .. Len(pages) :
          Following(pages, next)[ans] =
            Items(ans, 1, Len(pages[ans])) \o Following(pages, next)[next[ans]]
    BY FollowingUnfolds, Zenon
  <2>1. Following(pages, next)[first] =
          Items(first, 1, Len(pages[first])) \o Following(pages, next)[next[first]]
    BY <2>0, Zenon
  <2>2. Following(pages, next)[again] =
          Items(again, 1, Len(pages[again])) \o Following(pages, next)[next[again]]
    BY <2>0, Zenon
  <2>3. Following(pages, next)[0] = <<>>
    BY FollowingUnfolds, Zenon
  <2> QED BY <2>1, <2>2, <2>3
<1>3. Items(again, 1, Len(pages[again])) \in Entries
  <2>1. Len(pages[again]) \in Nat /\ again \in Nat \ {0}
    BY LenProperties DEF Listed
  <2> QED BY <2>1, FromTheFirst
<1>4. Items(again, 1, Len(pages[again])) \o <<>> = Items(again, 1, Len(pages[again]))
  BY <1>3, ConcatEmptySeq DEF Entries
<1> HAVE next[1] = 2 /\ next[2] = 0 /\ pages[1] = pages[2]
<1>5. Items(again, 1, Len(pages[again])) = Items(first, 1, Len(pages[first]))
  <2>1. PageOf(first) = PageOf(again) /\ pages[first] = pages[again]
    BY <1>1 DEF PageOf
  <2> QED BY <2>1 DEF Items
<1> QED BY <1>1, <1>2, <1>4, <1>5

\* The items that the code's cursors lead to from the first answer.
Delivered == Following(Given, Onward)[1]

(* The code's cursors lead over the list once; if the first page names     *)
(* itself, over that page twice (BoundedResults!AllGiven).                  *)
LEMMA DeliveredIsAllGiven == ListOK => Delivered = AllGiven
<1> DEFINE Once == [Onward EXCEPT ![1] = IF FirstNamesItself THEN 0 ELSE @]
<1> SUFFICES ASSUME ListOK PROVE Delivered = AllGiven
  OBVIOUS
<1>1. /\ Listed(Given, Onward) /\ Answers = 1 .. Len(Given) /\ 1 \in Answers /\ 2 \in Answers
      /\ Onward = [ans \in Answers |-> IF Resumable THEN NextUpstream(ans) ELSE 0]
  BY GivenTyped, ListListed DEF ListOK, Onward
<1>2. CASE ~FirstNamesItself
  <2>1. Once = Onward
    BY <1>1, <1>2
  <2> QED BY <1>2, <2>1 DEF Delivered, AllGiven, Complete
<1>3. CASE FirstNamesItself
  <2>1. Once = [ans \in Answers |-> IF ans = 1 THEN 0 ELSE Onward[ans]]
    BY <1>1, <1>3
  <2>2. Once[1] = 0 /\ \A ans \in 1 .. Len(Given) : Once[ans] \in {0, Onward[ans]}
    BY <1>1, <2>1
  <2> HIDE DEF Once
  <2>3. Listed(Given, Once)
    BY <1>1, <2>2 DEF Listed
  <2>4. Onward[1] = 2 /\ Onward[2] = 0
    <3>1. PageOf(1) = 1 /\ PageOf(2) = 1 /\ Resumable /\ list.after[1] = 1
      BY <1>3 DEF PageOf, FirstNamesItself
    <3>2. NextUpstream(1) = 2 /\ NextUpstream(2) = 0
      BY <3>1 DEF NextUpstream
    <3> QED BY <1>1, <3>1, <3>2
  <2>5. Given[1] = Given[2] /\ 2 \in 1 .. Len(Given)
    <3>1. PageOf(1) = PageOf(2)
      BY DEF PageOf
    <3>2. Given[1] = list.pages[PageOf(1)] /\ Given[2] = list.pages[PageOf(2)]
      BY <1>1, GivenTyped
    <3> QED BY <1>1, <3>1, <3>2
  <2>6. Complete = Following(Given, Once)[1]
    BY DEF Complete, Once
  <2>7. Complete = Items(1, 1, Len(Given[1]))
    BY <2>2, <2>3, <2>6, OnePage
  <2>8. Delivered = Items(1, 1, Len(Given[1])) \o Items(1, 1, Len(Given[1]))
    BY <1>1, <2>4, <2>5, PageTwice DEF Delivered
  <2> QED BY <1>3, <2>7, <2>8 DEF AllGiven
<1> QED BY <1>2, <1>3

\* At its beginning, an answer has all that follows.
LEMMA RemainingOfPage ==
    ASSUME NEW pages, NEW next, Listed(pages, next), NEW ans \in 1 .. Len(pages)
    PROVE  Remaining(pages, next, [answer |-> ans, offset |-> 0]) = Following(pages, next)[ans]
<1>1. Following(pages, next)[ans] =
        Items(ans, 1, Len(pages[ans])) \o Following(pages, next)[next[ans]]
  BY FollowingUnfolds
<1>2. Remaining(pages, next, [answer |-> ans, offset |-> 0]) =
        Items(ans, 0 + 1, Len(pages[ans])) \o Following(pages, next)[next[ans]]
  BY DEF Remaining
<1>3. 0 + 1 = 1
  OBVIOUS
<1> QED BY <1>1, <1>2, <1>3

CursorOK ==
    /\ cursor \in {NoCursor} \cup [answer : Answers, offset : Nat]
    /\ cursor # NoCursor /\ ~Resumable => cursor = FirstPage

\* What the caller has, and what its cursor still leads to, are the list; unless
\* the last result gives up the rest and says so.
Collected ==
    /\ got \in Entries
    /\ cursor # NoCursor => cursor.offset <= Len(Sizes(cursor.answer))
    /\ \E rest \in Entries :
         /\ got \o rest = Delivered
         /\ cursor # NoCursor => rest = Remaining(Given, Onward, cursor)
         /\ result.truncated = TRUE \/ rest = <<>>

ResultsInv ==
    /\ ListOK /\ CursorOK
    /\ changed \in 0 .. ListChanges
    /\ result.bytes <= MaxBytes
    /\ changed = 0 /\ ~Cramped => Collected

LEMMA ResultsInit_Inv == ResultsInit => ResultsInv
<1> SUFFICES ASSUME ResultsInit PROVE ResultsInv
  OBVIOUS
<1>1. ListOK
  <2>1. list \in Shape /\ meta \in Nat
    BY ResultsAssumption DEF ResultsInit
  <2>2. list.pages \in Seq(Seq(Nat)) /\ list.pages # <<>>
    BY <2>1, ResultsAssumption
  <2>3. Len(list.pages) \in Nat \ {0} /\ list.pages \in [1 .. Len(list.pages) -> Seq(Nat)]
    <3>1. Len(list.pages) \in Nat \ {0}
      BY <2>2, EmptySeq
    <3> QED BY <2>2, <3>1, LenProperties
  <2>4. DOMAIN list = {"form", "fields", "pages", "after"} /\ list.fields \in Nat
    BY <2>1, ResultsAssumption
  <2> QED BY <2>1, <2>3, <2>4, ResultsAssumption DEF ListOK
<1>2. 1 \in Answers /\ FirstPage \in [answer : Answers, offset : Nat]
  <2>1. Answers = 1 .. Len(Given) /\ Len(Given) \in Nat \ {0}
    BY <1>1, GivenTyped
  <2>2. 1 \in Answers
    BY <2>1
  <2> QED BY <2>2 DEF FirstPage
<1>3. CursorOK
  BY <1>2 DEF ResultsInit, CursorOK
<1>4. changed \in 0 .. ListChanges /\ result.bytes <= MaxBytes
  BY ResultsAssumption DEF ResultsInit, NoResult, Result
<1>5. Collected
  <2> DEFINE rest == Remaining(Given, Onward, FirstPage)
  <2>1. Len(Sizes(1)) \in Nat
    BY <1>1, <1>2, PageSizes
  <2>2. FirstPage.offset <= Len(Sizes(FirstPage.answer))
    BY <2>1 DEF FirstPage
  <2>3. rest \in Entries
    BY <1>1, <1>2, <2>2, ListListed, RemainingTyped DEF Sizes
  <2>4. rest = Delivered
    BY <1>1, <1>2, ListListed, RemainingOfPage DEF Delivered, FirstPage
  <2>5. <<>> \in Entries /\ <<>> \o rest = rest
    BY <2>3, EmptySeq, ConcatEmptySeq DEF Entries
  <2>6. got = <<>> /\ cursor = FirstPage /\ result.truncated = TRUE
    BY DEF ResultsInit, NoResult, Result
  <2> HIDE DEF rest
  <2>7. \E r \in Entries :
          /\ got \o r = Delivered
          /\ cursor # NoCursor => r = Remaining(Given, Onward, cursor)
          /\ result.truncated = TRUE \/ r = <<>>
    <3>1. cursor # NoCursor => rest = Remaining(Given, Onward, cursor)
      BY <2>6 DEF rest
    <3> QED BY <2>3, <2>4, <2>5, <2>6, <3>1
  <2> QED BY <2>2, <2>5, <2>6, <2>7 DEF Collected
<1> QED BY <1>1, <1>3, <1>4, <1>5 DEF ResultsInv

\* Where the cursor goes that an answer's result has.
LEMMA CursorGoesOn ==
    ASSUME ListOK, Resumable, NEW ans \in Answers, NEW k \in 0 .. Len(Sizes(ans))
    PROVE  LET next == NextPageCursor(ans, k)
               rest == Remaining(Given, Onward, [answer |-> ans, offset |-> k])
           IN  \/ next = NoCursor /\ rest = <<>>
               \/ /\ next \in [answer : Answers, offset : Nat]
                  /\ next.offset <= Len(Sizes(next.answer))
                  /\ rest = Remaining(Given, Onward, next)
<1> DEFINE N == Len(Sizes(ans))
           later == NextUpstream(ans)
           here == [answer |-> ans, offset |-> k]
<1>1. ans \in Nat \ {0} /\ N \in Nat /\ Listed(Given, Onward) /\ ans \in 1 .. Len(Given)
  BY PageSizes, ListListed
<1>2. later = Onward[ans]
  BY DEF Onward
<1>3. later \in {0} \cup (ans + 1) .. Len(Given)
  BY <1>1, <1>2 DEF Listed
<1>4. CASE k < N
  <2>1. NextPageCursor(ans, k) = here
    BY <1>4 DEF NextPageCursor
  <2>2. here \in [answer : Answers, offset : Nat] /\ here.offset <= Len(Sizes(here.answer))
    BY <1>1, <1>4
  <2> QED BY <2>1, <2>2
<1>5. CASE k = N
  <2>1. Remaining(Given, Onward, here) = Following(Given, Onward)[later]
    <3>1. k \in k .. Len(Given[ans]) /\ k = Len(Given[ans]) /\ k \in Nat
      BY <1>1, <1>5 DEF Sizes
    <3> QED BY <1>1, <1>2, <3>1, RemainingSplits
  <2>2. NextPageCursor(ans, k) = IF later # 0 THEN [answer |-> later, offset |-> 0] ELSE NoCursor
    BY <1>1, <1>5 DEF NextPageCursor
  <2> HIDE DEF later
  <2>3. CASE later = 0
    <3>1. Following(Given, Onward)[0] = <<>>
      BY <1>1, FollowingUnfolds
    <3> QED BY <2>1, <2>2, <2>3, <3>1
  <2>4. CASE later # 0
    <3> DEFINE next == [answer |-> later, offset |-> 0]
    <3>1. later \in 1 .. Len(Given) /\ later \in Answers
      BY <1>3, <2>4, ListListed
    <3>2. Len(Sizes(later)) \in Nat
      BY <3>1, PageSizes
    <3>3. next \in [answer : Answers, offset : Nat] /\ next.offset <= Len(Sizes(next.answer))
      BY <3>1, <3>2
    <3>4. Remaining(Given, Onward, next) = Following(Given, Onward)[later]
      BY <1>1, <3>1, RemainingOfPage
    <3>5. NextPageCursor(ans, k) = next
      BY <2>2, <2>4
    <3> QED BY <2>1, <3>3, <3>4, <3>5
  <2> QED BY <2>3, <2>4
<1> QED BY <1>1, <1>4, <1>5

LEMMA NextTyped ==
    ASSUME ListOK, NEW ans \in Answers, NEW k \in Nat
    PROVE  NextPageCursor(ans, k) \in {NoCursor} \cup [answer : Answers, offset : Nat]
<1>1. NextUpstream(ans) \in {0} \cup Answers
  <2>1. ans \in Nat \ {0} /\ Answers = 1 .. Len(Given)
    BY GivenTyped, PageSizes
  <2> QED BY <2>1, NextLater
<1> QED BY <1>1 DEF NextPageCursor

\* A cursor is one that can be come back with.
LEMMA RenderedCursor ==
    ASSUME ListOK, NEW c \in [answer : Answers, offset : Nat]
    PROVE  /\ Rendered(c).next \in {NoCursor} \cup [answer : Answers, offset : Nat]
           /\ ~Resumable => Rendered(c).next = NoCursor
<1>1. c.answer \in Answers /\ c.offset \in Nat
  OBVIOUS
<1>2. CASE ~Resumable
  BY <1>2, RenderedHonest DEF GivenUp, Cut
<1>3. CASE Resumable
  <2> DEFINE ans == c.answer
             N == Len(Sizes(ans))
             start == Least(c.offset, N)
             rest == N - start
             fitting == {n \in 1 .. Least(rest, MaxItems) : Envelope(ans, start, n).bytes <= MaxBytes}
             fit == FitPage(ans, start)
             r == PageResult(ans, c.offset)
  <2>1. ans \in Nat \ {0} /\ N \in Nat
    BY <1>1, PageSizes
  <2>2. start \in Nat /\ rest \in Nat /\ Least(rest, MaxItems) \in Nat
    BY <1>1, <2>1, ResultsAssumption DEF Least
  <2>3. fitting # {} => Largest(fitting) \in Nat
    <3>1. fitting \in SUBSET (0 .. Least(rest, MaxItems))
      BY <2>2
    <3>2. Least(rest, MaxItems) \in Nat
      BY <2>2
    <3> HIDE DEF fitting, rest
    <3>3. fitting # {} => Largest(fitting) \in fitting
      BY <3>1, <3>2, LargestOf
    <3>4. \A x \in 0 .. Least(rest, MaxItems) : x \in Nat
      OBVIOUS
    <3> QED BY <3>1, <3>3, <3>4, Zenon
  <2>4. \/ fitting # {} /\ fit = Envelope(ans, start, Largest(fitting))
        \/ \E b : fit = PreviewOfItem(ans, start, b)
        \/ fit = NoItems(ans)
    BY DEF FitPage
  <2> HIDE DEF ans, N, start, rest, fitting, fit
  <2>5. \E k \in Nat : fit.next = NextPageCursor(ans, k)
    <3>1. CASE fitting # {} /\ fit = Envelope(ans, start, Largest(fitting))
      <4>1. fit.next = NextPageCursor(ans, start + Largest(fitting))
        BY <3>1 DEF Envelope, Result
      <4>2. start + Largest(fitting) \in Nat
        BY <2>2, <2>3, <3>1
      <4> QED BY <4>1, <4>2
    <3>2. CASE \E b : fit = PreviewOfItem(ans, start, b)
      <4>1. fit.next = NextPageCursor(ans, start + 1)
        BY <3>2 DEF PreviewOfItem, Result
      <4>2. start + 1 \in Nat
        BY <2>2
      <4> QED BY <4>1, <4>2
    <3>3. CASE fit = NoItems(ans)
      BY <2>1, <3>3 DEF NoItems, Result, N
    <3> QED BY <2>4, <3>1, <3>2, <3>3
  <2>6. fit.next \in {NoCursor} \cup [answer : Answers, offset : Nat]
    BY <1>1, <2>5, NextTyped DEF ans
  <2>7. r.next = fit.next \/ r.next = NoCursor
    BY PreviewGivenUp DEF PageResult, GivenUp, fit, start, N
  <2>8. IsResult(r) /\ r.bytes <= MaxBytes
    BY PageResultHonest
  <2>9. Rendered(c) = WithMetadata(r)
    BY <1>3 DEF Rendered, Resumable, ans
  <2> HIDE DEF r
  <2>10. WithMetadata(r).next = r.next \/ WithMetadata(r).next = NoCursor
    BY <2>8, MetadataHonest DEF GivenUp
  <2> QED BY <1>3, <2>6, <2>7, <2>9, <2>10
<1> QED BY <1>2, <1>3

\* What one call takes from what the cursor leads to.
LEMMA CallTakes ==
    ASSUME ListOK, CursorOK, cursor # NoCursor, ~Cramped,
           cursor.offset <= Len(Sizes(cursor.answer))
    PROVE  LET r == Rendered(cursor) IN
           /\ r.items \in Entries
           /\ r.next \in {NoCursor} \cup [answer : Answers, offset : Nat]
           /\ ~Resumable => r.next = NoCursor
           /\ r.next # NoCursor => r.next.offset <= Len(Sizes(r.next.answer))
           /\ \E rest \in Entries :
                /\ r.items \o rest = Remaining(Given, Onward, cursor)
                /\ r.next # NoCursor => rest = Remaining(Given, Onward, r.next)
                /\ r.truncated = TRUE \/ rest = <<>>
<1> DEFINE r == Rendered(cursor)
           ans == cursor.answer
           offset == cursor.offset
           all == Remaining(Given, Onward, cursor)
           Goal == /\ r.items \in Entries
                   /\ r.next \in {NoCursor} \cup [answer : Answers, offset : Nat]
                   /\ ~Resumable => r.next = NoCursor
                   /\ r.next # NoCursor => r.next.offset <= Len(Sizes(r.next.answer))
                   /\ \E rest \in Entries :
                        /\ r.items \o rest = all
                        /\ r.next # NoCursor => rest = Remaining(Given, Onward, r.next)
                        /\ r.truncated = TRUE \/ rest = <<>>
<1>1. /\ cursor \in [answer : Answers, offset : Nat] /\ ans \in Answers /\ offset \in Nat
      /\ cursor = [answer |-> ans, offset |-> offset]
  BY DEF CursorOK
<1>2. /\ Listed(Given, Onward) /\ Answers = 1 .. Len(Given)
      /\ Len(Sizes(ans)) = Len(Given[ans]) /\ Len(Sizes(ans)) \in Nat
  BY <1>1, PageSizes, ListListed DEF Sizes
<1>3. all \in Entries
  BY <1>1, <1>2, RemainingTyped
<1>4. <<>> \in Entries /\ <<>> \o all = all
  BY <1>3, EmptySeq, ConcatEmptySeq DEF Entries
<1>5. /\ ~Resumable => GivenUp(r) \/ Cut(r, ans)
      /\ Resumable => GivenUp(r) \/ \E k \in offset .. Len(Sizes(ans)) : Reaches(r, ans, offset, k)
  BY <1>1, RenderedHonest
<1> HIDE DEF r, ans, offset, all
<1>6. ASSUME GivenUp(r) PROVE Goal
  BY <1>3, <1>4, <1>6 DEF GivenUp
<1>7. ASSUME NEW k \in offset .. Len(Sizes(ans)), r.items = Items(ans, offset + 1, k)
      PROVE  LET rest == Remaining(Given, Onward, [answer |-> ans, offset |-> k]) IN
             r.items \in Entries /\ rest \in Entries /\ r.items \o rest = all
  <2>1. /\ Items(ans, offset + 1, k) \in Entries
        /\ Remaining(Given, Onward, [answer |-> ans, offset |-> k]) \in Entries
        /\ Items(ans, offset + 1, k) \o Remaining(Given, Onward, [answer |-> ans, offset |-> k])
             = Remaining(Given, Onward, [answer |-> ans, offset |-> offset])
    <3>1. ans \in 1 .. Len(Given) /\ offset \in Nat /\ k \in offset .. Len(Given[ans])
      BY <1>1, <1>2
    <3> QED BY <1>2, <3>1, RemainingSplits
  <2>2. all = Remaining(Given, Onward, [answer |-> ans, offset |-> offset])
    BY <1>1 DEF all
  <2> QED BY <1>7, <2>1, <2>2
<1>8. ASSUME Resumable, NEW k \in offset .. Len(Sizes(ans)), Reaches(r, ans, offset, k)
      PROVE  Goal
  <2> DEFINE rest == Remaining(Given, Onward, [answer |-> ans, offset |-> k])
             next == NextPageCursor(ans, k)
  <2>1. k \in 0 .. Len(Sizes(ans))
    BY <1>1, <1>2
  <2>2. \/ next = NoCursor /\ rest = <<>>
        \/ /\ next \in [answer : Answers, offset : Nat]
           /\ next.offset <= Len(Sizes(next.answer))
           /\ rest = Remaining(Given, Onward, next)
    BY <1>1, <1>8, <2>1, CursorGoesOn
  <2>3. r.items \in Entries /\ rest \in Entries /\ r.items \o rest = all
    BY <1>7, <1>8 DEF Reaches
  <2>4. r.next = next /\ r.truncated = (next # NoCursor)
    BY <1>8 DEF Reaches
  <2> HIDE DEF rest, next
  <2>5. CASE next = NoCursor /\ rest = <<>>
    BY <1>8, <2>3, <2>4, <2>5
  <2>6. CASE /\ next # NoCursor /\ next \in [answer : Answers, offset : Nat]
             /\ next.offset <= Len(Sizes(next.answer))
             /\ rest = Remaining(Given, Onward, next)
    <3>1. r.truncated = TRUE
      BY <2>4, <2>6
    <3> QED BY <1>8, <2>3, <2>4, <2>6, <3>1
  <2>7. next \in [answer : Answers, offset : Nat] => next # NoCursor
    <3>1. \A p \in Answers : p # 0
      BY <1>2
    <3> QED BY <3>1 DEF NoCursor
  <2> QED BY <2>2, <2>5, <2>6, <2>7
<1>9. ASSUME ~Resumable, Cut(r, ans) PROVE Goal
  <2>1. offset = 0
    BY <1>9 DEF CursorOK, FirstPage, offset
  <2>2. PICK k \in 0 .. Len(Sizes(ans)) :
          /\ r.items = Items(ans, 1, k)
          /\ r.truncated = TRUE \/ (r.truncated = FALSE /\ k = Len(Sizes(ans)))
    BY <1>9 DEF Cut
  <2> DEFINE rest == Remaining(Given, Onward, [answer |-> ans, offset |-> k])
  <2>3. r.items \in Entries /\ rest \in Entries /\ r.items \o rest = all
    BY <1>7, <2>1, <2>2
  <2>4. k = Len(Sizes(ans)) => rest = <<>>
    <3>1. SUFFICES ASSUME k = Len(Sizes(ans)) PROVE rest = <<>>
      OBVIOUS
    <3>2. rest = Following(Given, Onward)[Onward[ans]]
      <4>1. /\ ans \in 1 .. Len(Given) /\ k \in Nat
            /\ k \in k .. Len(Given[ans]) /\ k = Len(Given[ans])
        BY <1>1, <1>2, <3>1
      <4>2. Remaining(Given, Onward, [answer |-> ans, offset |-> k])
              = Following(Given, Onward)[Onward[ans]]
        BY <1>2, <4>1, RemainingSplits
      <4> QED BY <4>2
    <3>3. Onward[ans] = 0
      BY <1>1, <1>9 DEF Onward
    <3>4. Following(Given, Onward)[0] = <<>>
      BY <1>2, FollowingUnfolds
    <3> QED BY <3>2, <3>3, <3>4
  <2>5. r.next = NoCursor
    BY <1>9 DEF Cut
  <2> HIDE DEF rest
  <2> QED BY <2>2, <2>3, <2>4, <2>5
<1>10. Goal
  BY <1>5, <1>6, <1>8, <1>9
<1> QED BY <1>10 DEF r, all

LEMMA ResultsStep == ResultsInv /\ [ResultsNext]_resultVars => ResultsInv'
<1> SUFFICES ASSUME ResultsInv, [ResultsNext]_resultVars PROVE ResultsInv'
  OBVIOUS
<1>0. ListOK /\ CursorOK /\ changed \in 0 .. ListChanges /\ result.bytes <= MaxBytes
  BY DEF ResultsInv
<1>1. CASE CallTool
  <2>1. /\ cursor # NoCursor /\ result' = Rendered(cursor) /\ got' = got \o result'.items
        /\ cursor' = result'.next /\ list' = list /\ meta' = meta /\ paged' = paged
        /\ changed' = changed
    BY <1>1 DEF CallTool
  <2>2. ListOK' /\ (Resumable' <=> Resumable) /\ (Cramped' <=> Cramped) /\ Answers' = Answers
    BY <1>0, <2>1 DEF ListOK, Resumable, Cramped, Answers
  <2>3. cursor \in [answer : Answers, offset : Nat]
    BY <1>0, <2>1 DEF CursorOK
  <2>4. Rendered(cursor).bytes <= MaxBytes
    BY <1>0, <2>3, RenderedHonest
  <2>5. CursorOK'
    <3>1. /\ Rendered(cursor).next \in {NoCursor} \cup [answer : Answers, offset : Nat]
          /\ ~Resumable => Rendered(cursor).next = NoCursor
      BY <1>0, <2>1, <2>3, RenderedCursor
    <3> QED BY <2>1, <2>2, <3>1 DEF CursorOK
  <2>6. ASSUME changed = 0, ~Cramped PROVE Collected'
    <3>1. Collected
      BY <2>6 DEF ResultsInv
    <3>2. PICK behind \in Entries : got \o behind = Delivered
                                  /\ behind = Remaining(Given, Onward, cursor)
      BY <2>1, <3>1 DEF Collected
    <3> DEFINE r == Rendered(cursor)
    <3>3. got \in Entries /\ cursor.offset <= Len(Sizes(cursor.answer))
      BY <2>1, <3>1 DEF Collected
    <3>4. /\ r.items \in Entries
          /\ r.next # NoCursor => r.next.offset <= Len(Sizes(r.next.answer))
      BY <1>0, <2>1, <2>6, <3>3, CallTakes
    <3>5. PICK rest \in Entries :
            /\ r.items \o rest = Remaining(Given, Onward, cursor)
            /\ r.next # NoCursor => rest = Remaining(Given, Onward, r.next)
            /\ r.truncated = TRUE \/ rest = <<>>
      BY <1>0, <2>1, <2>6, <3>3, CallTakes
    <3> HIDE DEF r
    <3>6. got \o r.items \in Entries /\ (got \o r.items) \o rest = Delivered
      <4>1. got \in Entries /\ r.items \in Entries /\ rest \in Entries
        BY <3>3, <3>4, <3>5
      <4>2. got \o (r.items \o rest) = Delivered
        BY <3>2, <3>5
      <4>3. PICK a, b \in Entries : a = got /\ b = r.items
        BY <4>1
      <4>4. a \o (b \o rest) = Delivered
        BY <4>2, <4>3
      <4>5. (a \o b) \in Entries /\ (a \o b) \o rest = a \o (b \o rest)
        BY ONLY a \in Entries, b \in Entries, rest \in Entries, EntriesConcat
      <4> QED BY <4>3, <4>4, <4>5
    <3>7. Onward' = Onward
      BY <2>1, <2>2 DEF Onward, NextUpstream, Answers
    <3>8. Given' = Given /\ Delivered' = Delivered
      BY <2>1, <2>2, <3>7 DEF Delivered, Given
    <3>9. got' = got \o r.items /\ cursor' = r.next /\ result' = r
      BY <2>1 DEF r
    <3>10. got' \in Entries
      BY <3>6, <3>9
    <3>11. (cursor # NoCursor => cursor.offset <= Len(Sizes(cursor.answer)))'
      BY <2>1, <3>4, <3>8, <3>9 DEF Sizes
    <3>12. /\ got' \o rest = Delivered'
           /\ cursor' # NoCursor => rest = Remaining(Given', Onward', cursor')
           /\ result'.truncated = TRUE \/ rest = <<>>
      BY <2>1, <3>5, <3>6, <3>7, <3>8, <3>9
    <3> QED BY <3>10, <3>11, <3>12 DEF Collected
  <2> QED BY <1>0, <2>1, <2>2, <2>4, <2>5, <2>6 DEF ResultsInv
<1>2. CASE CallFails
  <2>1. /\ cursor # NoCursor /\ result' = Failure
        /\ UNCHANGED <<list, meta, paged, cursor, got, changed>>
    BY <1>2 DEF CallFails
  <2>2. /\ (Resumable' <=> Resumable) /\ (Cramped' <=> Cramped) /\ Answers' = Answers
    BY <2>1 DEF Resumable, Cramped, Answers
  <2>3. ListOK' /\ CursorOK'
    BY <1>0, <2>1, <2>2 DEF ListOK, CursorOK
  <2>4. Failure.bytes <= MaxBytes /\ Failure.truncated = TRUE
    BY ResultsAssumption DEF Failure, Result
  <2>5. Onward' = Onward
    BY <2>1, <2>2 DEF Onward, NextUpstream, Answers
  <2>6. Given' = Given /\ Delivered' = Delivered
    BY <2>1, <2>2, <2>5 DEF Delivered, Given
  <2>7. ASSUME Collected PROVE Collected'
    <3>1. got' \in Entries
      BY <2>1, <2>7 DEF Collected
    <3>2. (cursor # NoCursor => cursor.offset <= Len(Sizes(cursor.answer)))'
      BY <2>1, <2>6, <2>7 DEF Collected, Sizes
    <3>3. PICK rest \in Entries :
            /\ got \o rest = Delivered
            /\ cursor # NoCursor => rest = Remaining(Given, Onward, cursor)
      BY <2>7 DEF Collected
    <3>4. /\ got' \o rest = Delivered'
          /\ cursor' # NoCursor => rest = Remaining(Given', Onward', cursor')
          /\ result'.truncated = TRUE
      BY <2>1, <2>4, <2>5, <2>6, <3>3
    <3> QED BY <3>1, <3>2, <3>4 DEF Collected
  <2> QED BY <1>0, <2>1, <2>2, <2>3, <2>4, <2>7 DEF ResultsInv
<1>3. CASE ChangeList
  <2>1. /\ changed < ListChanges /\ changed' = changed + 1
        /\ meta' = meta /\ paged' = paged /\ cursor' = cursor /\ got' = got /\ result' = result
        /\ cursor # FirstPage
    BY <1>3 DEF ChangeList
  <2>2. PICK page \in 1 .. Len(list.pages) :
          list.pages[page] # <<>> /\ list' = [list EXCEPT !.pages[page] = Tail(@)]
    BY <1>3 DEF ChangeList
  <2> DEFINE pages == [list.pages EXCEPT ![page] = Tail(@)]
  <2>12. DOMAIN list' = DOMAIN list
    BY <2>2
  <2>3. /\ list'.pages = pages /\ list'.form = list.form /\ list'.fields = list.fields
        /\ list'.after = list.after
    BY <1>0, <2>2 DEF ListOK
  <2>4. Tail(list.pages[page]) \in Seq(Nat)
    BY <1>0, <2>2, HeadTailProperties DEF ListOK
  <2>5. pages \in [1 .. Len(list.pages) -> Seq(Nat)]
    BY <1>0, <2>4 DEF ListOK
  <2>6. Len(pages) = Len(list.pages)
    BY <1>0, <2>5 DEF ListOK
  <2> HIDE DEF pages
  <2>7. Answers' = Answers /\ (Resumable' <=> Resumable)
    BY <2>1, <2>3, <2>6 DEF Answers, Resumable
  <2>8. ListOK'
    BY <1>0, <2>1, <2>3, <2>5, <2>6, <2>7, <2>12 DEF ListOK
  <2>9. CursorOK'
    BY <1>0, <2>1, <2>7 DEF CursorOK
  <2>10. changed' \in 0 .. ListChanges /\ changed' # 0
    BY <1>0, <2>1, ResultsAssumption
  <2> QED BY <1>0, <2>1, <2>8, <2>9, <2>10 DEF ResultsInv
<1>4. CASE UNCHANGED resultVars
  <2>1. UNCHANGED <<list, meta, paged, cursor, got, result, changed>>
    BY <1>4 DEF resultVars
  <2>2. /\ (Resumable' <=> Resumable) /\ (Cramped' <=> Cramped) /\ Answers' = Answers
    BY <2>1 DEF Resumable, Cramped, Answers
  <2>3. ListOK' /\ CursorOK'
    BY <1>0, <2>1, <2>2 DEF ListOK, CursorOK
  <2>4. Onward' = Onward
    BY <2>1, <2>2 DEF Onward, NextUpstream, Answers
  <2>5. Given' = Given /\ Delivered' = Delivered
    BY <2>1, <2>2, <2>4 DEF Delivered, Given
  <2>6. Collected => Collected'
    BY <2>1, <2>4, <2>5 DEF Collected, Sizes
  <2> QED BY <2>1, <2>2, <2>3, <2>6 DEF ResultsInv
<1> QED BY <1>1, <1>2, <1>3, <1>4 DEF ResultsNext

\* Whatever is appended, a sequence is the beginning.
LEMMA BeginningOfConcat ==
    ASSUME NEW s \in Entries, NEW t \in Entries PROVE Beginning(s, s \o t)
<1> DEFINE S == Nat \X Nat
           u == s \o t
           v == SubSeq(u, 1, Len(s))
<1>1. Entries = Seq(S)
  BY DEF Entries
<1> HIDE DEF S
<1>2. s \in Seq(S) /\ t \in Seq(S) /\ Len(s) \in Nat /\ Len(t) \in Nat
  BY <1>1, LenProperties
<1>3. /\ u \in Seq(S) /\ Len(u) = Len(s) + Len(t)
      /\ \A i \in 1 .. Len(s) + Len(t) : u[i] = IF i <= Len(s) THEN s[i] ELSE t[i - Len(s)]
  BY <1>2, ConcatProperties
<1> HIDE DEF u
<1>4. \A i \in 1 .. Len(s) : u[i] \in S /\ u[i] = s[i]
  <2> SUFFICES ASSUME NEW i \in 1 .. Len(s) PROVE u[i] \in S /\ u[i] = s[i]
    OBVIOUS
  <2>1. s[i] \in S
    BY <1>2, ElementOfSeq
  <2>2. i \in 1 .. Len(s) + Len(t) /\ i <= Len(s)
    BY <1>2
  <2> QED BY <1>3, <2>1, <2>2
<1>5. /\ v \in Seq(S)
      /\ Len(v) = IF 1 <= Len(s) THEN Len(s) - 1 + 1 ELSE 0
      /\ \A i \in 1 .. Len(s) - 1 + 1 : v[i] = u[1 + i - 1]
  BY <1>2, <1>4, SubSeqProperties
<1> HIDE DEF v
<1>6. Len(v) = Len(s) /\ \A i \in 1 .. Len(s) : v[i] = s[i]
  BY <1>2, <1>4, <1>5
<1>7. v = s
  BY <1>2, <1>5, <1>6, SeqEqual
<1>8. Len(s) <= Len(u)
  BY <1>2, <1>3
<1> QED BY <1>7, <1>8 DEF Beginning, u, v

LEMMA ResultsMean == ResultsInv => ResultsHonest /\ ResultsTypeOK
<1> SUFFICES ASSUME ResultsInv PROVE ResultsHonest /\ ResultsTypeOK
  OBVIOUS
<1>1. ResultsTypeOK
  BY DEF ResultsInv, CursorOK, ResultsTypeOK
<1>2. ASSUME changed = 0, ~Cramped
      PROVE  Beginning(got, Delivered) /\ (~result.truncated => got = Delivered)
  <2>1. PICK rest \in Entries :
          got \in Entries /\ got \o rest = Delivered /\ (result.truncated = TRUE \/ rest = <<>>)
    BY <1>2 DEF ResultsInv, Collected
  <2>2. Beginning(got, got \o rest)
    BY <2>1, BeginningOfConcat
  <2>3. got \o <<>> = got
    BY <2>1, ConcatEmptySeq DEF Entries
  <2> QED BY <2>1, <2>2, <2>3
<1>3. Delivered = AllGiven
  BY DeliveredIsAllGiven DEF ResultsInv
<1> QED BY <1>1, <1>2, <1>3 DEF ResultsInv, ResultsHonest

(* What a tool's caller is given is within the budget and is the beginning *)
(* of the list, all of it if nothing says otherwise, for any budget,       *)
(* answers, metadata and changes of the list, where a first page that      *)
(* names itself comes twice (BoundedResults!ResultsHonest); and a cursor   *)
(* that is handed out names an answer of the list.                         *)
THEOREM ResultsHonestCorrect == ResultsSpec => [](ResultsHonest /\ ResultsTypeOK)
<1> QED BY ResultsInit_Inv, ResultsStep, ResultsMean, PTL DEF ResultsSpec

-----------------------------------------------------------------------------
(* The machines together                                                   *)

\* What one machine does, the others do not see.
LEMMA RequestMoves ==
    [RequestNext]_requestVars =>
        /\ [LedgerNext]_ledgerVars /\ [LimiterNext]_limiterVars
        /\ [ClientNext]_clientVars /\ [ResultsNext]_resultVars
<1> SUFFICES ASSUME [RequestNext]_requestVars
             PROVE  /\ [LedgerNext]_ledgerVars /\ [LimiterNext]_limiterVars
                    /\ [ClientNext]_clientVars /\ [ResultsNext]_resultVars
  OBVIOUS
<1>1. CASE RequestNext
  BY <1>1 DEF RequestNext, Ledger, Limiter, Requests, Bounds
<1>2. CASE UNCHANGED requestVars
  BY <1>2 DEF requestVars
<1> QED BY <1>1, <1>2

(* Side by side, the ledger, the limiter, the client and the renderer of   *)
(* results behave as each does alone; of the ledger this is said of its    *)
(* steps, without their fairness.                                          *)
THEOREM RequestsComposed == RequestSpec => LedgerSteps /\ LimiterSpec /\ ClientSpec /\ ResultsSpec
<1>1. RequestInit => LedgerInit /\ LimiterInit /\ ClientInit /\ ResultsInit
  BY DEF RequestInit
<1> QED BY <1>1, RequestMoves, PTL DEF RequestSpec, LedgerSteps, LimiterSpec, ClientSpec, ResultsSpec

(* All that is said of them holds of all together, MCRequests!RequestsTypeOK *)
(* among it.                                                               *)
THEOREM RequestsCorrect ==
    RequestSpec => [](/\ RequestsTypeOK /\ OverlapOnlyAfterDeath /\ NothingLost
                      /\ RateWithinLimits /\ NoReplay /\ ReadsOwnWrites /\ ResultsHonest)
<1>1. LedgerTypeOK /\ LimiterTypeOK /\ ClientTypeOK /\ ResultsTypeOK => RequestsTypeOK
  BY DEF RequestsTypeOK
<1>2. LedgerSteps => [](LedgerTypeOK /\ OverlapOnlyAfterDeath /\ NothingLost)
  BY LedgerTypeMeans, LockedMeans, KeptMeans, LedgerTypeHolds, LockedHolds, KeptHolds, PTL
<1> QED BY <1>1, <1>2, RequestsComposed, LimiterTypeCorrect, RateWithinLimitsCorrect,
           ClientTypeCorrect, NoReplayCorrect, ReadsOwnWritesCorrect, ResultsHonestCorrect, PTL
=============================================================================
