----------------------------- MODULE LearnJournal -----------------------------
(***************************************************************************)
(* The invocation journal and the derivation of flag corrections from it   *)
(* (internal/learn/journal.go, derive.go), as every process runs them      *)
(* after its command: append an entry to today's segment, enforce          *)
(* retention, scan the tail from the stored offset, record each paired     *)
(* correction as a candidate sighting, store the new offset.               *)
(*                                                                         *)
(* A segment is the sequence of its lines and an offset counts lines.  A   *)
(* line is the number of the entry it holds, or one of two markers: Torn   *)
(* for a last line without newline, Junk for a complete line that is no    *)
(* JSON.  The session key and the verb chain of an entry are one Key, the  *)
(* pairing rule compares both at once; its kind is what the rule tells     *)
(* apart.  Time is counted in ticks.                                       *)
(*                                                                         *)
(* A write, a file read, an upsert are one step each.  The clock may move  *)
(* between any two of them.                                                *)
(***************************************************************************)
EXTENDS Integers, Sequences, FiniteSets, FiniteSetsExt

CONSTANTS
  Process,     \* concurrent invocations
  Key,         \* session and verb chain of an entry
  Window,      \* flagCorrectionWindow, 15 minutes
  DayLength,   \* ticks of a UTC day, the span of a segment
  MaxAge,      \* journalMaxSegmentAgeDays, 14
  MaxLines,    \* journalMaxTotalBytes
  MaxTime,     \* bound: ticks of the clock
  MaxEntries,  \* bound: entries journaled
  MaxAborts    \* bound: passes that fail, processes that die

ASSUME LearnJournalAssumption ==
  /\ Window \in Nat /\ DayLength \in Nat \ {0} /\ MaxAge \in Nat
  /\ MaxLines \in Nat /\ MaxTime \in Nat /\ MaxEntries \in Nat
  /\ MaxAborts \in Nat

VARIABLES
  now,      \* the wall clock
  log,      \* the entries composed so far, by number
  segs,     \* the segments on disk: day -> lines
  offset,   \* the persisted (segment, line) offset
  counted,  \* sightings recorded for the failure of each entry
  seen,     \* history: entries in the batch of a pass that stored its offset
  late,     \* history: entries written after the day of their segment
  aborts,   \* history: passes that failed and processes that died
  pc,       \* where the process is
  mine,     \* the entry it journals
  day,      \* the segment it appends to
  from,     \* the offset its pass loaded
  todo,     \* listed segments its pass has still to read
  batch,    \* entries its pass has read: <<segment, line, entry>>
  next,     \* the offset its pass will store
  pairs     \* corrections its pass has still to record

passVars == <<from, todo, batch, next, pairs>>
vars == <<now, log, segs, offset, counted, seen, late, aborts, pc, mine, day,
          from, todo, batch, next, pairs>>

Torn == -1
Junk == 0
EntryNo == 1 .. MaxEntries
Day == 0 .. MaxTime \div DayLength
Today == now \div DayLength

\* failed: an unknown flag; fixed: a success that carries the correction;
\* plain: any other run of the command
Kind == {"failed", "fixed", "plain"}
JournalEntry == [key : Key, kind : Kind, ts : 0 .. MaxTime]

\* segment -1 is the zero offset: read everything
JournalOffset == [segment : {-1} \union Day, line : Nat]
ZeroOffset == [segment |-> -1, line |-> 0]

TypeOK ==
  /\ now \in 0 .. MaxTime
  /\ log \in Seq(JournalEntry) /\ Len(log) <= MaxEntries
  /\ DOMAIN segs \subseteq Day
  /\ \A d \in DOMAIN segs : segs[d] \in Seq({Torn, Junk} \union DOMAIN log)
  /\ offset \in JournalOffset
  /\ counted \in [EntryNo -> Nat]
  /\ seen \subseteq DOMAIN log
  /\ late \subseteq DOMAIN log
  /\ aborts \in Nat
  /\ pc \in [Process -> {"idle", "repair", "open", "write", "cleanup", "load",
                         "list", "read", "derive"}]
  /\ mine \in [Process -> 0 .. MaxEntries]
  /\ day \in [Process -> Day]
  /\ from \in [Process -> JournalOffset]
  /\ todo \in [Process -> SUBSET Day]
  /\ batch \in [Process -> SUBSET (Day \X Nat \X DOMAIN log)]
  /\ next \in [Process -> JournalOffset]
  /\ pairs \in [Process -> SUBSET DOMAIN log]

Init ==
  /\ now = 0
  /\ log = <<>>
  /\ segs = [d \in {} |-> <<>>]
  /\ offset = ZeroOffset
  /\ counted = [i \in EntryNo |-> 0]
  /\ seen = {}
  /\ late = {}
  /\ aborts = 0
  /\ pc = [p \in Process |-> "idle"]
  /\ mine = [p \in Process |-> 0]
  /\ day = [p \in Process |-> 0]
  /\ from = [p \in Process |-> ZeroOffset]
  /\ todo = [p \in Process |-> {}]
  /\ batch = [p \in Process |-> {}]
  /\ next = [p \in Process |-> ZeroOffset]
  /\ pairs = [p \in Process |-> {}]

-----------------------------------------------------------------------------
(* Appending *)

IsTorn(lines) == lines # <<>> /\ lines[Len(lines)] = Torn
AllButLast(lines) == SubSeq(lines, 1, Len(lines) - 1)

\* A newline after a torn line makes it a complete line that is no JSON
Repaired(lines) ==
  IF IsTorn(lines) THEN Append(AllButLast(lines), Junk) ELSE lines

\* One write of a whole line; after a torn fragment the two make one bad line
WithLine(lines, line) ==
  IF IsTorn(lines) THEN Append(AllButLast(lines), Junk) ELSE Append(lines, line)

\* A write the disk cut short
WithTorn(lines) == IF IsTorn(lines) THEN lines ELSE Append(lines, Torn)

Goto(p, place) == pc' = [pc EXCEPT ![p] = place]

\* The process is done with its entry, or with everything
EndAppend(p) ==
  /\ mine' = [mine EXCEPT ![p] = 0]
  /\ day' = [day EXCEPT ![p] = 0]
EndPass(p) ==
  /\ Goto(p, "idle")
  /\ from' = [from EXCEPT ![p] = ZeroOffset]
  /\ todo' = [todo EXCEPT ![p] = {}]
  /\ batch' = [batch EXCEPT ![p] = {}]
  /\ next' = [next EXCEPT ![p] = ZeroOffset]
  /\ pairs' = [pairs EXCEPT ![p] = {}]

\* A command has run: its entry is composed and today's segment is named.
\* The clock leaves a window after the last entry (bound).
Invoke(p) ==
  /\ pc[p] = "idle"
  /\ Len(log) < MaxEntries
  /\ now + Window < MaxTime
  /\ \E key \in Key, kind \in Kind :
       log' = Append(log, [key |-> key, kind |-> kind, ts |-> now])
  /\ mine' = [mine EXCEPT ![p] = Len(log) + 1]
  /\ day' = [day EXCEPT ![p] = Today]
  /\ Goto(p, "repair")
  /\ UNCHANGED <<now, segs, offset, counted, seen, late, aborts, passVars>>

\* A command whose entry could not even be composed still runs its pass
InvokeUnjournaled(p) ==
  /\ pc[p] = "idle"
  /\ Goto(p, "load")
  /\ UNCHANGED <<now, log, segs, offset, counted, seen, late, aborts, mine, day, passVars>>

RepairJournalSegmentTail(p) ==
  /\ pc[p] = "repair"
  /\ IF day[p] \in DOMAIN segs
       THEN segs' = [segs EXCEPT ![day[p]] = Repaired(@)]
       ELSE UNCHANGED segs
  /\ Goto(p, "open")
  /\ UNCHANGED <<now, log, offset, counted, seen, late, aborts, mine, day, passVars>>

\* O_CREATE
OpenSegment(p) ==
  /\ pc[p] = "open"
  /\ segs' = [d \in DOMAIN segs \union {day[p]} |->
                IF d \in DOMAIN segs THEN segs[d] ELSE <<>>]
  /\ Goto(p, "write")
  /\ UNCHANGED <<now, log, offset, counted, seen, late, aborts, mine, day, passVars>>

\* The write goes to the open file: a segment unlinked in between takes it along
WriteEntry(p) ==
  /\ pc[p] = "write"
  /\ IF day[p] \in DOMAIN segs
       THEN segs' = [segs EXCEPT ![day[p]] = WithLine(@, mine[p])]
       ELSE UNCHANGED segs
  /\ late' = IF day[p] # Today THEN late \union {mine[p]} ELSE late
  /\ EndAppend(p)
  /\ Goto(p, "cleanup")
  /\ UNCHANGED <<now, log, offset, counted, seen, aborts, passVars>>

\* A failing append is only a warning; a short write leaves a torn line
AppendFails(p) ==
  /\ pc[p] \in {"repair", "open", "write"}
  /\ \/ UNCHANGED segs
     \/ /\ pc[p] = "write"
        /\ day[p] \in DOMAIN segs
        /\ segs' = [segs EXCEPT ![day[p]] = WithTorn(@)]
  /\ EndAppend(p)
  /\ Goto(p, "load")
  /\ UNCHANGED <<now, log, offset, counted, seen, late, aborts, passVars>>

Size(days) == MapThenSumSet(LAMBDA d : Len(segs[d]), days)

\* The walk from the oldest segment deletes d and goes on; never the newest
Expendable(d) ==
  /\ \E e \in DOMAIN segs : e > d
  /\ \A e \in {e \in DOMAIN segs : e <= d} :
       \/ e * DayLength < now - MaxAge * DayLength
       \/ Size({x \in DOMAIN segs : x >= e}) > MaxLines

\* Best effort: a failing removal ends the walk early
CleanupJournalSegments(p) ==
  /\ pc[p] = "cleanup"
  /\ \E gone \in SUBSET {d \in DOMAIN segs : Expendable(d)} :
       /\ \A d \in gone, e \in DOMAIN segs : e < d => e \in gone
       /\ segs' = [d \in DOMAIN segs \ gone |-> segs[d]]
  /\ Goto(p, "load")
  /\ UNCHANGED <<now, log, offset, counted, seen, late, aborts, mine, day, passVars>>

-----------------------------------------------------------------------------
(* One derivation pass *)

\* A learn-family command skips its pass; an unreadable journal ends one
SkipPass(p) ==
  /\ pc[p] \in {"load", "list", "read"}
  /\ EndPass(p)
  /\ UNCHANGED <<now, log, segs, offset, counted, seen, late, aborts, mine, day>>

LoadJournalOffset(p) ==
  /\ pc[p] = "load"
  /\ from' = [from EXCEPT ![p] = offset]
  /\ next' = [next EXCEPT ![p] = offset]
  /\ batch' = [batch EXCEPT ![p] = {}]
  /\ Goto(p, "list")
  /\ UNCHANGED <<now, log, segs, offset, counted, seen, late, aborts, mine, day, todo, pairs>>

ListJournalSegments(p) ==
  /\ pc[p] = "list"
  /\ todo' = [todo EXCEPT ![p] = {d \in DOMAIN segs : d >= from[p].segment}]
  /\ Goto(p, "read")
  /\ UNCHANGED <<now, log, segs, offset, counted, seen, late, aborts, mine, day,
                 from, batch, next, pairs>>

Complete(lines) == IF IsTorn(lines) THEN Len(lines) - 1 ELSE Len(lines)

\* Broken: the pass rescans the segment from its start.
ConsumedNothing(o, d) == 0

\* The lines of segment d before the offset's byte, clamped to the file
Consumed(o, d) ==
  IF d # o.segment THEN 0
  ELSE IF o.line > Len(segs[d]) THEN Len(segs[d]) ELSE o.line

\* Broken: a line is taken for an entry unchecked.
LinesFrom(o, d) ==
  {<<d, n, segs[d][n]>> : n \in Consumed(o, d) + 1 .. Complete(segs[d])}

\* The entries of segment d from the offset on, without the bad lines
EntriesFrom(o, d) ==
  {<<d, n, segs[d][n]>> :
     n \in {n \in Consumed(o, d) + 1 .. Complete(segs[d]) : segs[d][n] \in DOMAIN log}}

\* The line after the last complete one; clamped, it may lie past it
LineAfter(o, d) ==
  IF Consumed(o, d) > Complete(segs[d]) THEN Consumed(o, d) ELSE Complete(segs[d])

ReadSegment(p) ==
  /\ pc[p] = "read"
  /\ todo[p] # {}
  /\ LET d == CHOOSE d \in todo[p] : \A e \in todo[p] : d <= e IN
       /\ todo' = [todo EXCEPT ![p] = @ \ {d}]
       /\ IF d \in DOMAIN segs
            THEN /\ batch' = [batch EXCEPT ![p] = @ \union EntriesFrom(from[p], d)]
                 /\ next' = [next EXCEPT ![p] =
                               [segment |-> d, line |-> LineAfter(from[p], d)]]
            ELSE UNCHANGED <<batch, next>>
  /\ UNCHANGED <<now, log, segs, offset, counted, seen, late, aborts, pc, mine, day, from, pairs>>

\* The order of a batch is that of the journal
Precedes(x, y) == x[1] < y[1] \/ (x[1] = y[1] /\ x[2] < y[2])

SameCommand(x, y) == log[x[3]].key = log[y[3]].key

\* Broken: a later success reaches back past an intervening retry.
IsLater(b, x, y) == Precedes(x, y) /\ SameCommand(x, y)

\* y is the next invocation of x's command in x's session
IsNext(b, x, y) ==
  /\ Precedes(x, y) /\ SameCommand(x, y)
  /\ ~ \E z \in b : Precedes(x, z) /\ Precedes(z, y) /\ SameCommand(x, z)

InTime(x, y) ==
  /\ log[y[3]].ts >= log[x[3]].ts
  /\ log[y[3]].ts - log[x[3]].ts <= Window

EntriesOf(b) == {x[3] : x \in b}

\* The failures of batch b whose next invocation is their correction
Corrections(b) ==
  EntriesOf({x \in b :
    /\ log[x[3]].kind = "failed"
    /\ \E y \in b : IsNext(b, x, y) /\ log[y[3]].kind = "fixed" /\ InTime(x, y)})

\* The failures whose next invocation is not journaled yet
Unpaired(b) ==
  {x \in b : log[x[3]].kind = "failed" /\ ~ \E y \in b : IsNext(b, x, y)}

\* Broken: a failure as old as the window is no longer waited for.
PendingTooShort(b) == \E x \in Unpaired(b) : now - log[x[3]].ts < Window

\* Broken: an unpaired failure holds the batch however old it is.
PendingForever(b) == Unpaired(b) # {}

\* Some failure is fresh enough that its correction may yet arrive
Pending(b) == \E x \in Unpaired(b) : now - log[x[3]].ts <= Window

\* Nothing new, or a fresh failure holds the batch: the offset stays
HoldBatch(p) ==
  /\ pc[p] = "read" /\ todo[p] = {}
  /\ (batch[p] = {} /\ next[p] = from[p]) \/ Pending(batch[p])
  /\ EndPass(p)
  /\ UNCHANGED <<now, log, segs, offset, counted, seen, late, aborts, mine, day>>

PairFlagCorrections(p) ==
  /\ pc[p] = "read" /\ todo[p] = {}
  /\ batch[p] # {} \/ next[p] # from[p]
  /\ ~ Pending(batch[p])
  /\ pairs' = [pairs EXCEPT ![p] = Corrections(batch[p])]
  /\ Goto(p, "derive")
  /\ UNCHANGED <<now, log, segs, offset, counted, seen, late, aborts, mine, day,
                 from, todo, batch, next>>

\* One upsert; upserts of distinct pairs commute, so their order is left open
DeriveCandidate(p) ==
  /\ pc[p] = "derive"
  /\ \E f \in pairs[p] :
       /\ counted' = [counted EXCEPT ![f] = @ + 1]
       /\ pairs' = [pairs EXCEPT ![p] = @ \ {f}]
  /\ UNCHANGED <<now, log, segs, offset, seen, late, aborts, pc, mine, day, from, todo, batch, next>>

\* Broken: the offset stored is the end of the journal, not of what was read.
StoreJournalEnd(p) ==
  /\ pc[p] = "derive" /\ pairs[p] = {}
  /\ offset' = [next[p] EXCEPT !.line =
                  IF next[p].segment \in DOMAIN segs
                    THEN Complete(segs[next[p].segment]) ELSE @]
  /\ seen' = seen \union EntriesOf(batch[p])
  /\ EndPass(p)
  /\ UNCHANGED <<now, log, segs, counted, late, aborts, mine, day>>

StoreJournalOffset(p) ==
  /\ pc[p] = "derive" /\ pairs[p] = {}
  /\ offset' = next[p]
  /\ seen' = seen \union EntriesOf(batch[p])
  /\ EndPass(p)
  /\ UNCHANGED <<now, log, segs, counted, late, aborts, mine, day>>

\* The store does not open, an upsert fails, the offset cannot be written
PassFails(p) ==
  /\ pc[p] = "derive"
  /\ aborts < MaxAborts
  /\ aborts' = aborts + 1
  /\ EndPass(p)
  /\ UNCHANGED <<now, log, segs, offset, counted, seen, late, mine, day>>

-----------------------------------------------------------------------------
\* The process dies; what it had written stays
Kill(p) ==
  /\ pc[p] # "idle"
  /\ aborts < MaxAborts
  /\ aborts' = aborts + 1
  /\ EndAppend(p)
  /\ EndPass(p)
  /\ UNCHANGED <<now, log, segs, offset, counted, seen, late>>

Tick ==
  /\ now < MaxTime
  /\ now' = now + 1
  /\ UNCHANGED <<log, segs, offset, counted, seen, late, aborts, pc, mine, day, passVars>>

Journal(p) ==
  \/ Invoke(p) \/ InvokeUnjournaled(p) \/ RepairJournalSegmentTail(p)
  \/ OpenSegment(p) \/ WriteEntry(p) \/ AppendFails(p) \/ CleanupJournalSegments(p)

Pass(p) ==
  \/ SkipPass(p) \/ LoadJournalOffset(p) \/ ListJournalSegments(p) \/ ReadSegment(p)
  \/ HoldBatch(p) \/ PairFlagCorrections(p) \/ DeriveCandidate(p)
  \/ StoreJournalOffset(p) \/ PassFails(p)

Next ==
  \/ \E p \in Process : Journal(p) \/ Pass(p) \/ Kill(p)
  \/ Tick

Spec == Init /\ [][Next]_vars

\* A process that is not killed goes on, and the clock moves.
FairSpec ==
  /\ Spec
  /\ WF_vars(Tick)
  /\ \A p \in Process :
       WF_vars((Journal(p) /\ pc[p] # "idle") \/ Pass(p))

-----------------------------------------------------------------------------
(* Properties. *)

\* The entries on disk, like a batch of all of them.
OnDisk ==
  UNION {{<<d, n, segs[d][n]>> : n \in {n \in DOMAIN segs[d] : segs[d][n] \in DOMAIN log}} :
           d \in DOMAIN segs}
BeforeOffset(x) == x[1] < offset.segment \/ (x[1] = offset.segment /\ x[2] <= offset.line)

\* y is the next invocation on disk of x's command, but for missed entries, and
\* corrects x in time.
Corrects(y, x, missed) ==
  /\ log[x[3]].kind = "failed" /\ log[y[3]].kind = "fixed"
  /\ SameCommand(x, y) /\ Precedes(x, y)
  /\ \A z \in OnDisk :
       Precedes(x, z) /\ Precedes(z, y) /\ SameCommand(x, z) => z[3] \in missed
  /\ InTime(x, y)

\* "The offset marks the consumed prefix": no entry before the stored offset was
\* never in the batch of a pass that ran to its end, whatever passes failed, were
\* killed, or moved the offset back, across midnight and retention.  Left out is
\* an entry written after the day its segment is named for: it may land before
\* the offset, and no pass reads it.
PrefixConsumed == \A x \in OnDisk : BeforeOffset(x) => x[3] \in seen \union late

\* A sighting is recorded only for a failure whose next invocation corrected it
\* in time, however the passes and the writers interleave.  An entry written
\* after its day may land between the two later.
OnlyCorrections ==
  \A x \in OnDisk : counted[x[3]] > 0 => \E y \in OnDisk : Corrects(y, x, late)

\* No correction is lost: once the offset is past a failure and its correction,
\* a sighting is recorded.  It holds of invocations that do not overlap, across
\* failed passes, deaths, midnight and retention.
CorrectionsCounted ==
  \A x, y \in OnDisk : BeforeOffset(y) /\ Corrects(y, x, {}) => counted[x[3]] > 0

\* Each failed pass or death replays a batch once, and nothing else does: the
\* sightings of an observation exceed one by at most their number.  It holds of
\* invocations that do not overlap.
ReplayBounded == \A i \in EntryNo : counted[i] <= 1 + aborts

\* Passes that keep coming to their end consume the whole journal, but for
\* entries written after their day: a fresh failure holds the batch only until it
\* ages out of the window.
EventuallyConsumed ==
  []<><<\E p \in Process : HoldBatch(p) \/ StoreJournalOffset(p)>>_vars
    => <>[](\A x \in OnDisk : x[3] \in seen \union late)
=============================================================================
