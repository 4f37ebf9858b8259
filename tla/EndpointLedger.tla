--------------------------- MODULE EndpointLedger ---------------------------
(***************************************************************************)
(* The reservation ledger of platform/ratelimit.go, and the audit index of *)
(* platform/receipt.go that is guarded by the same kind of lock.           *)
(*                                                                         *)
(* The processes that use one tenant's credential share one token bucket,  *)
(* a small file.  A request reads the file, takes a token or reserves the  *)
(* moment at which the next one will be there, writes the file and, with   *)
(* the lock released, sleeps until its moment.  A process that finishes a  *)
(* run appends one line to an index file by reading and rewriting it.      *)
(* Each file has a lock file, created exclusively and removed at the end;  *)
(* a lock file more than two minutes old is taken for a dead process's and *)
(* removed by whoever finds it.                                            *)
(*                                                                         *)
(* Tokens are counted in parts, of which one is refilled per tick of the   *)
(* clock; a token is Parts parts.                                          *)
(***************************************************************************)
EXTENDS Integers, FiniteSets, FiniteSetsExt

CONSTANTS
    Caller,         \* processes that send requests and finish runs
    Burst,          \* tokens the bucket holds
    Parts,          \* ticks that refill one token (Interval / Steady)
    StaleAfter,     \* age up to which a lock file is believed (2 minutes)
    MaxWaits,       \* bound: requests of all processes
    MaxDeaths,      \* bound: processes that die
    LastStart,      \* bound: nothing starts and nobody dies after this tick
    LastTick        \* bound: the clock stops then, unless somebody waits for it

ASSUME LedgerAssumption ==
    /\ "nobody" \notin Caller
    /\ {Burst, Parts} \subseteq Nat \ {0}
    /\ {StaleAfter, MaxWaits, MaxDeaths, LastStart, LastTick} \subseteq Nat

VARIABLES
    clock,          \* the time of day
    lock,           \* per file: its lock file
    bucket,         \* the ledger file
    index,          \* the index file: the processes whose runs it names
    caller,         \* per process: what it is doing
    reserved,       \* the moments given out so far, by process and request
    deaths,         \* processes that died
    overlapped      \* TRUE once a process entered a file another was in

ledgerVars == <<clock, lock, bucket, index, caller, reserved, deaths, overlapped>>

File == {"ledger", "index"}

NoLock == [owner |-> "nobody", at |-> 0]

\* A ledger that cannot be read is a zero limiterLedger: no UpdatedAt.
Unwritten == [parts |-> 0, updated |-> -1]

Idle == [pc |-> "idle", file |-> "ledger", new |-> Unwritten, seen |-> {},
         wake |-> 0, waits |-> 0, finished |-> FALSE]

LedgerInit ==
    /\ clock = 0
    /\ lock = [f \in File |-> NoLock]
    /\ bucket = Unwritten
    /\ index = {}
    /\ caller = [p \in Caller |-> Idle]
    /\ reserved = {}
    /\ deaths = 0
    /\ overlapped = FALSE

-----------------------------------------------------------------------------
(* acquireLedgerLock, and the function it returns                          *)

In(p, pc) == caller[p].pc = pc
Enter(p, pc) == caller' = [caller EXCEPT ![p].pc = pc]
Return(p, done) ==
    caller' = [caller EXCEPT ![p] = [Idle EXCEPT !.waits = caller[p].waits, !.finished = done]]
Leave(p) == Return(p, caller[p].finished)
LockOf(p) == lock[caller[p].file]
SetLock(p, l) == lock' = [lock EXCEPT ![caller[p].file] = l]
Inside(p, f) == caller[p].file = f /\ caller[p].pc \in {"read", "write", "release"}

\* O_CREATE|O_EXCL: only when there is no lock file.
CreateLock(p) ==
    /\ In(p, "lock")
    /\ LockOf(p) = NoLock
    /\ SetLock(p, [owner |-> p, at |-> clock])
    /\ overlapped' = (overlapped \/ \E q \in Caller \ {p} : Inside(q, caller[p].file))
    /\ Enter(p, "read")
    /\ UNCHANGED <<clock, bucket, index, reserved, deaths>>

\* Broken: a lock file is believed by nobody, or removed by nobody.
StaleAtOnce(l) == l # NoLock /\ clock >= l.at
NeverJudged(p) == FALSE

Stale(l) == l # NoLock /\ clock - l.at > StaleAfter

\* The file exists and Stat says it is old: it will be removed ...
JudgeStale(p) ==
    /\ In(p, "lock")
    /\ Stale(LockOf(p))
    /\ Enter(p, "break")
    /\ UNCHANGED <<clock, lock, bucket, index, reserved, deaths, overlapped>>

\* ... by name, whichever lock file it names by then.
RemoveStale(p) ==
    /\ In(p, "break")
    /\ SetLock(p, NoLock)
    /\ Enter(p, "lock")
    /\ UNCHANGED <<clock, bucket, index, reserved, deaths, overlapped>>

\* The context ends while the process polls for the lock.
AbandonLock(p) ==
    /\ In(p, "lock")
    /\ Leave(p)
    /\ UNCHANGED <<clock, lock, bucket, index, reserved, deaths, overlapped>>

-----------------------------------------------------------------------------
(* EndpointLimiter.Wait                                                    *)

\* A run that was finalized sends nothing more.
BeginWait(p) ==
    /\ In(p, "idle") /\ ~caller[p].finished
    /\ clock <= LastStart
    /\ MapThenSumSet(LAMBDA q : caller[q].waits, Caller) < MaxWaits
    /\ caller' = [caller EXCEPT ![p].pc = "lock", ![p].file = "ledger",
                                ![p].waits = @ + 1]
    /\ UNCHANGED <<clock, lock, bucket, index, reserved, deaths, overlapped>>

\* Broken: the refill is not capped by the burst.
RefilledUncapped(b) ==
    IF b.updated = -1 THEN [parts |-> Burst * Parts, updated |-> clock]
    ELSE IF b.updated < clock THEN [parts |-> b.parts + clock - b.updated, updated |-> clock]
    ELSE b

\* A new or unreadable ledger is a full bucket; one from the past has been
\* refilled since; one that is reserved into the future is left as it is.
Refilled(b) ==
    IF b.updated = -1 THEN [parts |-> Burst * Parts, updated |-> clock]
    ELSE IF b.updated < clock
         THEN [parts |-> Min({Burst * Parts, b.parts + clock - b.updated}),
               updated |-> clock]
         ELSE b

\* A token at once, or the moment the missing parts are refilled.
Take(b) ==
    IF b.parts >= Parts
    THEN [b EXCEPT !.parts = @ - Parts]
    ELSE [parts |-> 0, updated |-> b.updated + Parts - b.parts]

Moment(b) == IF b.parts >= Parts THEN clock ELSE b.updated + Parts - b.parts

ReadLedger(p) ==
    /\ In(p, "read")
    /\ caller[p].file = "ledger"
    /\ LET now == Refilled(bucket)
       IN  caller' = [caller EXCEPT ![p].pc = "write", ![p].new = Take(now),
                                    ![p].wake = Moment(now)]
    /\ UNCHANGED <<clock, lock, bucket, index, reserved, deaths, overlapped>>

\* writePrivateFile renames a complete file into place.
WriteLedger(p) ==
    /\ In(p, "write")
    /\ caller[p].file = "ledger"
    /\ bucket' = caller[p].new
    /\ reserved' = reserved \cup {[by |-> p, nth |-> caller[p].waits, at |-> caller[p].wake]}
    /\ Enter(p, "release")
    /\ UNCHANGED <<clock, lock, index, deaths, overlapped>>

\* The file cannot be written: the lock is released and the request fails.
WriteFails(p) ==
    /\ In(p, "write")
    /\ SetLock(p, NoLock)
    /\ Leave(p)
    /\ UNCHANGED <<clock, bucket, index, reserved, deaths, overlapped>>

ReleaseLedger(p) ==
    /\ In(p, "release")
    /\ caller[p].file = "ledger"
    /\ SetLock(p, NoLock)
    /\ Enter(p, "sleep")
    /\ UNCHANGED <<clock, bucket, index, reserved, deaths, overlapped>>

\* The wait is over, or was cancelled: the reservation stays either way.
EndWait(p) ==
    /\ In(p, "sleep")
    /\ clock >= caller[p].wake
    /\ Leave(p)
    /\ UNCHANGED <<clock, lock, bucket, index, reserved, deaths, overlapped>>

CancelWait(p) ==
    /\ In(p, "sleep")
    /\ clock < caller[p].wake
    /\ Leave(p)
    /\ UNCHANGED <<clock, lock, bucket, index, reserved, deaths, overlapped>>

-----------------------------------------------------------------------------
(* ReceiptWriter.Finalize and appendAuditIndex                             *)

BeginFinalize(p) ==
    /\ In(p, "idle")
    /\ clock <= LastStart
    /\ ~caller[p].finished
    /\ caller' = [caller EXCEPT ![p].pc = "lock", ![p].file = "index"]
    /\ UNCHANGED <<clock, lock, bucket, index, reserved, deaths, overlapped>>

\* Broken: the lock is given back before the rewrite.
ReadIndexReleasing(p) ==
    /\ In(p, "read")
    /\ caller[p].file = "index"
    /\ SetLock(p, NoLock)
    /\ caller' = [caller EXCEPT ![p].pc = "write", ![p].seen = index]
    /\ UNCHANGED <<clock, bucket, index, reserved, deaths, overlapped>>

ReadIndex(p) ==
    /\ In(p, "read")
    /\ caller[p].file = "index"
    /\ caller' = [caller EXCEPT ![p].pc = "write", ![p].seen = index]
    /\ UNCHANGED <<clock, lock, bucket, index, reserved, deaths, overlapped>>

WriteIndex(p) ==
    /\ In(p, "write")
    /\ caller[p].file = "index"
    /\ index' = caller[p].seen \cup {p}
    /\ Enter(p, "release")
    /\ UNCHANGED <<clock, lock, bucket, reserved, deaths, overlapped>>

EndFinalize(p) ==
    /\ In(p, "release")
    /\ caller[p].file = "index"
    /\ SetLock(p, NoLock)
    /\ Return(p, TRUE)
    /\ UNCHANGED <<clock, bucket, index, reserved, deaths, overlapped>>

-----------------------------------------------------------------------------
(* The world                                                               *)

\* A process may die anywhere; it leaves the lock file it holds, and the
\* next process of that user takes its place.
Die(p) ==
    /\ ~In(p, "idle")
    /\ deaths < MaxDeaths
    /\ clock <= LastStart
    /\ deaths' = deaths + 1
    /\ Leave(p)
    /\ UNCHANGED <<clock, lock, bucket, index, reserved, overlapped>>

\* A live process is through with its two file operations before its lock
\* file is old enough to be broken.
HoldersPrompt ==
    \A p \in Caller : Inside(p, caller[p].file) /\ LockOf(p).owner = p
                        => clock - LockOf(p).at < StaleAfter

\* After LastTick the clock moves only for those who wait for it.
Awaited == \/ \E p \in Caller : In(p, "sleep") /\ clock < caller[p].wake
           \/ \E f \in File : lock[f] # NoLock /\ ~Stale(lock[f])

LedgerTick ==
    /\ clock < LastTick \/ Awaited
    /\ HoldersPrompt
    /\ clock' = clock + 1
    /\ UNCHANGED <<lock, bucket, index, caller, reserved, deaths, overlapped>>

Proceed(p) ==
    \/ CreateLock(p) \/ JudgeStale(p) \/ RemoveStale(p)
    \/ ReadLedger(p) \/ WriteLedger(p) \/ ReleaseLedger(p) \/ EndWait(p)
    \/ ReadIndex(p) \/ WriteIndex(p) \/ EndFinalize(p)

LedgerNext ==
    \/ \E p \in Caller : \/ BeginWait(p) \/ BeginFinalize(p) \/ Proceed(p)
                         \/ AbandonLock(p) \/ CancelWait(p) \/ WriteFails(p)
                         \/ Die(p)
    \/ LedgerTick

LedgerFairness == WF_ledgerVars(LedgerTick) /\ \A p \in Caller : WF_ledgerVars(Proceed(p))

LedgerSpec == LedgerInit /\ [][LedgerNext]_ledgerVars /\ LedgerFairness

-----------------------------------------------------------------------------
(* Properties                                                              *)

LedgerTypeOK ==
    /\ clock \in Nat
    /\ bucket \in [parts : 0 .. Burst * Parts, updated : Nat \cup {-1}]
    /\ index \subseteq Caller
    /\ \A p \in Caller : caller[p].pc \in
          {"idle", "lock", "break", "read", "write", "release", "sleep"}

(* The lock does what it is for as long as nobody dies holding it: two     *)
(* processes are inside one file only after a death (a lock that several   *)
(* processes judge stale may be broken twice).                             *)
OverlapOnlyAfterDeath == overlapped => deaths > 0

(* Unless two processes overlapped after a death, none of them loses what  *)
(* another did: no stretch of time holds more granted requests than a full *)
(* bucket and its refill allow (neither cancelled waits nor failed writes  *)
(* nor deaths give a token out twice), and the audit index names every run *)
(* that was finalized, whoever else was rewriting it.                      *)
NothingLost ==
    deaths = 0 \/ ~overlapped =>
        /\ \A from, to \in {r.at : r \in reserved} :
             Parts * Cardinality({r \in reserved : r.at \in from .. to})
                 <= Burst * Parts + Max({0, to - from})
        /\ {p \in Caller : caller[p].finished} \subseteq index

(* A lock file left by a dead process keeps nobody waiting for ever: each  *)
(* request and each finalization ends.                                     *)
EveryWaitEnds == \A p \in Caller : ~In(p, "idle") ~> In(p, "idle")
=============================================================================
