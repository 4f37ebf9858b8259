--------------------------- MODULE ClientRequest ---------------------------
(***************************************************************************)
(* Requests of client/client.go: which are sent, which are sent again      *)
(* after a failure that leaves open whether the server acted, and what the *)
(* shared response cache then holds.                                       *)
(*                                                                         *)
(* One collection is read and changed by several callers (goroutines or    *)
(* processes).  The server counts its changes: a body is the count at the  *)
(* time the server produced it.  The cached body is a file that all share: *)
(* a read trusts it while it is fresh, a GET writes it in place (it is     *)
(* truncated first), an acknowledged change removes it.                    *)
(***************************************************************************)
EXTENDS Integers, ResponseCache

CONSTANTS
    Client,         \* callers
    Operation,      \* operations they perform, a subset of Operations
    Mode,           \* modes the callers may run in, a subset of Modes
    Policy,         \* retry policies they may have, of [attempts, budget]
    Retries,        \* clientMaxRetries (3; none when verified or dogfooded)
    Asked,          \* waits a Retry-After header, or its absence, comes to
    CallsEach       \* bound: calls, per caller

\* What the wrappers around doInternal differ in.
Operations ==
    [verb     : {"GET", "POST", "PUT"},
     keyed    : BOOLEAN,     \* an idempotency key is sent
     readOnly : BOOLEAN,     \* doRead: a read that rides on any verb
     mutating : BOOLEAN,     \* doMutation: a change whose verb may be GET
     lookup   : BOOLEAN,     \* reads the response cache
     store    : BOOLEAN]     \* writes the response cache

Modes == {"live", "verify", "dry-run"}

ASSUME ClientAssumption ==
    /\ Operation \subseteq Operations
    /\ Mode \subseteq Modes
    /\ Policy \subseteq [attempts : Nat, budget : Nat]
    /\ Retries \in Nat
    /\ CallsEach \in [Client -> Nat]
    /\ Asked \subseteq Nat

VARIABLES
    setup,          \* the callers' mode and retry policy, which never change
    changes,        \* changes the server has made
    cached,         \* the cached body and its age
    call,           \* per caller: the call it performs
    acked,          \* per caller: the server's count at its last acknowledged change
    answer,         \* per caller: the body its last read returned since then
    crossed         \* TRUE once callers met at the cache file, or one died there

clientVars == <<setup, changes, cached, call, acked, answer, crossed>>

Torn == -1          \* a file truncated, or mixed from two writes
NoAnswer == -2

Resting == [pc |-> "idle", op |-> CHOOSE op \in Operation : TRUE, attempt |-> 0, waited |-> 0, executed |-> 0,
            resp |-> 0, open |-> FALSE, mixed |-> FALSE]

ClientInit ==
    /\ setup \in [mode : Mode, policy : Policy]
    /\ changes = 0
    /\ cached = Absent(0)
    /\ call = [c \in Client |-> [run |-> Resting, calls |-> 0]]
    /\ acked = [c \in Client |-> 0]
    /\ answer = [c \in Client |-> NoAnswer]
    /\ crossed = FALSE

Op(c) == call[c].run.op
At(c, pc) == call[c].run.pc = pc
Rest(c) == call' = [call EXCEPT ![c].run = Resting]

-----------------------------------------------------------------------------
(* What doInternal decides from the operation                              *)

\* An operation that changes the server, whatever its verb.
Changes(op) == ~op.readOnly /\ (op.mutating \/ op.verb # "GET")

\* Broken: the intent of a GET that changes something is overlooked.
ReplayableByVerb(op) == op.readOnly \/ op.verb \in {"GET", "PUT"} \/ op.keyed

\* CanRetryRequest, and the intents that override it.
Replayable(op) ==
    \/ op.readOnly
    \/ ~op.mutating /\ (op.verb \in {"GET", "PUT"} \/ op.keyed)

\* Attempts after the first: the client's, within the policy's.
MaxRetries ==
    LET most == setup.policy.attempts
    IN  IF most > 0 /\ Retries > most - 1 THEN most - 1 ELSE Retries

\* A verified session whose endpoint class has no declared budget.
NoBudget == [attempts |-> 0, budget |-> 0]

MayRetry(c, wait) ==
    /\ call[c].run.attempt < MaxRetries
    /\ Replayable(Op(c))
    /\ setup.policy.budget > 0
    /\ call[c].run.waited + wait <= setup.policy.budget

Backoff(c) == 2 ^ call[c].run.attempt

-----------------------------------------------------------------------------
(* The response cache                                                      *)

CacheEnabled == setup.mode # "dry-run"

\* Others whose GET is somewhere between the server and its cache file.
Reading(c) == \E d \in Client \ {c} : Op(d).store /\ call[d].run.pc \in {"flight", "write", "fill"}

\* A cached read is answered without a request, with what the file holds.
HitCache(c, op) ==
    /\ op.lookup /\ CacheEnabled
    /\ Fresh(cached)
    /\ answer' = [answer EXCEPT ![c] = cached.body]
    /\ call' = [call EXCEPT ![c].calls = @ + 1]
    /\ crossed' = (crossed \/ \E d \in Client : At(d, "fill"))
    /\ UNCHANGED <<setup, changes, cached, acked>>

\* os.WriteFile truncates the file, or creates it, ...
TruncateCache(c) ==
    /\ At(c, "write")
    /\ cached' = Written(Torn)
    /\ call' = [d \in Client |->
                  IF d = c
                  THEN [call[d] EXCEPT !.run.pc = "fill", !.run.open = TRUE,
                                       !.run.mixed = \E e \in Client \ {c} : At(e, "fill")]
                  ELSE IF At(d, "fill") THEN [call[d] EXCEPT !.run.mixed = TRUE]
                  ELSE call[d]]
    /\ crossed' = (crossed \/ Reading(c))
    /\ UNCHANGED <<setup, changes, acked, answer>>

\* ... and then writes the body, to a file that may have been removed or
\* that another caller writes as well.
FillCache(c) ==
    /\ At(c, "fill")
    /\ IF call[c].run.open
       THEN \E body \in {call[c].run.resp} \cup (IF call[c].run.mixed THEN {Torn} ELSE {}) :
                cached' = Written(body)
       ELSE UNCHANGED cached
    /\ Rest(c)
    /\ UNCHANGED <<setup, changes, acked, answer, crossed>>

\* Broken: a GET that changes something leaves the cache alone.
InvalidatesByVerb(op) == ~op.readOnly /\ op.verb # "GET"

\* invalidateCacheAfterMutation removes every cached response.
Invalidates(op) == ~op.readOnly /\ (op.mutating \/ op.verb # "GET")

-----------------------------------------------------------------------------
(* doInternal                                                              *)

\* Nothing is sent: verification and dry runs stop here, and so do requests
\* without an endpoint budget, or with a path or authorization that fails.
SendsNothing(op) ==
    \/ setup.mode = "verify" /\ Changes(op)
    \/ setup.mode = "dry-run"
    \/ setup.policy = NoBudget

BeginRequest(c, op) ==
    /\ ~(op.lookup /\ CacheEnabled /\ Fresh(cached))
    /\ ~SendsNothing(op)
    /\ call' = [call EXCEPT ![c].calls = @ + 1, ![c].run.op = op, ![c].run.pc = "send"]
    /\ UNCHANGED <<setup, changes, cached, acked, answer, crossed>>

BeginNothing(c, op) ==
    /\ ~(op.lookup /\ CacheEnabled /\ Fresh(cached))
    /\ SendsNothing(op)
    /\ call' = [call EXCEPT ![c].calls = @ + 1]
    /\ UNCHANGED <<setup, changes, cached, acked, answer, crossed>>

Begin(c) ==
    /\ At(c, "idle")
    /\ call[c].calls < CallsEach[c]
    /\ \E op \in Operation : HitCache(c, op) \/ BeginRequest(c, op) \/ BeginNothing(c, op)

\* A request reaches the server, which acts on it if it is a change.
Serve(c) ==
    /\ At(c, "send")
    /\ changes' = IF Changes(Op(c)) THEN changes + 1 ELSE changes
    /\ call' = [call EXCEPT ![c].run.pc = "flight", ![c].run.resp = changes',
                            ![c].run.executed = @ + 1]
    /\ UNCHANGED <<setup, cached, acked, answer, crossed>>

\* A response below 400 arrives.
Accept(c) ==
    /\ At(c, "flight")
    /\ cached' = IF Invalidates(Op(c)) THEN Absent(cached.body) ELSE cached
    /\ crossed' = (crossed \/ (Invalidates(Op(c)) /\ Reading(c)))
    /\ acked' = IF Changes(Op(c)) THEN [acked EXCEPT ![c] = call[c].run.resp] ELSE acked
    /\ answer' = [answer EXCEPT ![c] = IF Changes(Op(c)) THEN NoAnswer ELSE call[c].run.resp]
    /\ call' = [d \in Client |->
                  IF d = c
                  THEN IF Op(c).store /\ CacheEnabled
                       THEN [call[c] EXCEPT !.run.pc = "write"]
                       ELSE [call[c] EXCEPT !.run = Resting]
                  ELSE IF Invalidates(Op(c)) THEN [call[d] EXCEPT !.run.open = FALSE]
                  ELSE call[d]]
    /\ UNCHANGED <<setup, changes>>

\* Sleep for the wait, and try again.
Retry(c, wait) ==
    /\ call' = [call EXCEPT ![c].run.pc = "send", ![c].run.attempt = @ + 1,
                            ![c].run.waited = @ + wait]
    /\ UNCHANGED <<setup, changes, cached, acked, answer, crossed>>

Fail(c) ==
    /\ Rest(c)
    /\ UNCHANGED <<setup, changes, cached, acked, answer, crossed>>

\* A network error or a 5xx, before or after the server acted: back off and
\* try again, or return the error.
Failed(c) ==
    /\ call[c].run.pc \in {"send", "flight"}
    /\ \/ MayRetry(c, Backoff(c)) /\ Retry(c, Backoff(c))
       \/ ~MayRetry(c, Backoff(c)) /\ Fail(c)

\* A 429, for a request the server did not act on: wait as long as it asks,
\* or return the typed error.
Refused(c) ==
    /\ At(c, "send")
    /\ \E wait \in Asked : \/ MayRetry(c, wait) /\ Retry(c, wait)
                           \/ ~MayRetry(c, wait) /\ Fail(c)

\* Errors that are never retried: a 4xx, a name that does not resolve, a body
\* that cannot be read, a cancelled context, a failed wait for the budget.
GiveUp(c) ==
    /\ call[c].run.pc \in {"send", "flight"}
    /\ Fail(c)

\* A process dies; the file it was writing stays as it is.
Crash(c) ==
    /\ At(c, "fill")
    /\ crossed' = TRUE
    /\ Rest(c)
    /\ UNCHANGED <<setup, changes, cached, acked, answer>>

\* Time passes: the cached body ages.
Expire ==
    /\ Fresh(cached)
    /\ cached' = Aged(cached)
    /\ UNCHANGED <<setup, changes, call, acked, answer, crossed>>

Advance(c) ==
    \/ Serve(c) \/ Accept(c) \/ Failed(c) \/ Refused(c) \/ GiveUp(c)
    \/ TruncateCache(c) \/ FillCache(c)

ClientNext ==
    \/ \E c \in Client : Begin(c) \/ Advance(c) \/ Crash(c)
    \/ Expire

ClientSpec == ClientInit /\ [][ClientNext]_clientVars

-----------------------------------------------------------------------------
(* Properties                                                              *)

ClientTypeOK ==
    /\ changes \in Nat
    /\ cached \in Entry({Torn} \cup 0 .. changes)
    /\ \A c \in Client : acked[c] \in 0 .. changes /\ call[c].run.attempt \in 0 .. Retries

(* A change that must not be repeated reaches the server at most once,     *)
(* however its attempts fail, and one that is verified or dry-run never    *)
(* does; a call makes no more attempts than its policy allows and sleeps   *)
(* between them no longer than its time budget.                            *)
NoReplay ==
    \A c \in Client :
        LET run == call[c].run
        IN  /\ Changes(Op(c)) /\ run.executed > 0 => setup.mode = "live"
            /\ Changes(Op(c)) /\ run.executed > 1 => Op(c).verb = "PUT" \/ Op(c).keyed
            /\ setup.policy.attempts > 0 => run.attempt < setup.policy.attempts
            /\ run.waited <= setup.policy.budget

(* Unless another caller's GET was under way, a read after one's own       *)
(* acknowledged change never returns what was there before it.             *)
ReadsOwnWrites ==
    ~crossed => \A c \in Client : answer[c] # NoAnswer => answer[c] >= acked[c]
=============================================================================
