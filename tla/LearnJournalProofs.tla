-------------------------- MODULE LearnJournalProofs --------------------------
(***************************************************************************)
(* What the offset promises and what a sighting means, for any number of   *)
(* processes, sessions, days, failures and deaths.                         *)
(***************************************************************************)
EXTENDS LearnJournal, SequenceTheorems, WellFoundedInduction, TLAPS

-----------------------------------------------------------------------------
(* The lines of a segment                                                  *)

Lines(k) == Seq({Torn, Junk} \union 1 .. k)

\* The entries of l are those of m, where m has no more of them than e at its end.
Grows(l, m) ==
  /\ Len(l) <= Len(m) /\ Complete(l) <= Complete(m)
  /\ \A n \in 1 .. Len(l) : l[n] >= 1 => m[n] = l[n]
SameEntries(l, m) ==
  /\ Grows(l, m)
  /\ \A n \in 1 .. Len(m) : m[n] >= 1 => n <= Len(l) /\ m[n] = l[n]
OneMore(l, m, e) ==
  /\ Grows(l, m)
  /\ \A n \in 1 .. Len(m) :
       m[n] >= 1 => (n <= Len(l) /\ m[n] = l[n]) \/ (n = Len(l) + 1 /\ m[n] = e)

LEMMA LineFacts ==
  ASSUME NEW k \in Nat, NEW l \in Lines(k)
  PROVE  /\ Len(l) \in Nat /\ DOMAIN l = 1 .. Len(l)
         /\ \A n \in 1 .. Len(l) : l[n] \in Int /\ l[n] \in {Torn, Junk} \union 1 .. k
         /\ Complete(l) \in Nat /\ Complete(l) <= Len(l)
         /\ \A n \in 1 .. Len(l) : l[n] >= 1 => n <= Complete(l)
<1>1. /\ Len(l) \in Nat /\ DOMAIN l = 1 .. Len(l)
      /\ \A n \in 1 .. Len(l) : l[n] \in {Torn, Junk} \union 1 .. k
  BY LenProperties, ElementOfSeq DEF Lines
<1>2. \A n \in 1 .. Len(l) : l[n] \in Int
  BY <1>1 DEF Torn, Junk
<1>3. l # <<>> => Len(l) # 0
  BY EmptySeq DEF Lines
<1>4. /\ Complete(l) \in Nat /\ Complete(l) <= Len(l)
      /\ \A n \in 1 .. Len(l) : l[n] >= 1 => n <= Complete(l)
  BY <1>1, <1>2, <1>3 DEF Complete, IsTorn, Torn
<1> QED BY <1>1, <1>2, <1>4

LEMMA LineAppended ==
  ASSUME NEW k \in Nat, NEW l \in Lines(k), NEW e \in {Torn, Junk} \union 1 .. k
  PROVE  /\ Append(l, e) \in Lines(k) /\ Len(Append(l, e)) = Len(l) + 1
         /\ \A n \in 1 .. Len(l) : Append(l, e)[n] = l[n]
         /\ Append(l, e)[Len(l) + 1] = e
  BY AppendProperties DEF Lines

\* What a repair, or a line after a torn one, makes of a torn line.
LEMMA TornMended ==
  ASSUME NEW k \in Nat, NEW l \in Lines(k), IsTorn(l)
  PROVE  LET m == Append(AllButLast(l), Junk)
         IN  /\ m \in Lines(k) /\ Len(m) = Len(l) /\ m[Len(l)] = Junk
             /\ \A n \in 1 .. Len(l) - 1 : m[n] = l[n]
             /\ Complete(m) = Len(l) /\ SameEntries(l, m)
<1> DEFINE b == AllButLast(l)
           m == Append(b, Junk)
<1>1. /\ Len(l) \in Nat \ {0} /\ l[Len(l)] = Torn
      /\ \A n \in 1 .. Len(l) : l[n] \in {Torn, Junk} \union 1 .. k
  BY LineFacts, EmptySeq DEF IsTorn, Lines
<1>2. /\ b \in Lines(k) /\ Len(b) = Len(l) - 1
      /\ \A n \in 1 .. Len(l) - 1 : b[n] = l[n]
  <2>1. \A i \in 1 .. Len(l) - 1 : l[i] \in {Torn, Junk} \union 1 .. k
    BY <1>1
  <2>2. /\ b \in Lines(k)
        /\ Len(b) = IF 1 <= Len(l) - 1 THEN (Len(l) - 1) - 1 + 1 ELSE 0
        /\ \A i \in 1 .. (Len(l) - 1) - 1 + 1 : b[i] = l[1 + i - 1]
    BY <1>1, <2>1, SubSeqProperties DEF AllButLast, Lines
  <2> HIDE DEF b
  <2>3. Len(b) = Len(l) - 1
    <3> DEFINE length == Len(l)
    <3>1. length \in Nat \ {0}
      BY <1>1
    <3>2. Len(b) = IF 1 <= length - 1 THEN (length - 1) - 1 + 1 ELSE 0
      BY <2>2
    <3> HIDE DEF length
    <3>3. Len(b) = length - 1
      BY <3>1, <3>2
    <3> QED BY <3>3 DEF length
  <2>4. ASSUME NEW n \in 1 .. Len(l) - 1 PROVE b[n] = l[n]
    BY <1>1, <2>2
  <2> QED BY <2>2, <2>3, <2>4
<1> HIDE DEF b
<1>3. /\ m \in Lines(k) /\ Len(m) = Len(b) + 1
      /\ \A n \in 1 .. Len(b) : m[n] = b[n]
      /\ m[Len(b) + 1] = Junk
  BY <1>2, LineAppended
<1> HIDE DEF m
<1>4. /\ Len(m) = Len(l) /\ m[Len(l)] = Junk
      /\ \A n \in 1 .. Len(l) - 1 : m[n] = l[n]
  BY <1>1, <1>2, <1>3
<1>5. Complete(m) = Len(l) /\ Complete(l) = Len(l) - 1
  BY <1>1, <1>4 DEF Complete, IsTorn, Torn, Junk
<1>6. SameEntries(l, m)
  BY <1>1, <1>4, <1>5 DEF SameEntries, Grows, Torn, Junk
<1> QED BY <1>3, <1>4, <1>5, <1>6 DEF m, b

LEMMA GrowsReflexive ==
  ASSUME NEW k \in Nat, NEW l \in Lines(k)
  PROVE  SameEntries(l, l)
  BY LineFacts DEF SameEntries, Grows

LEMMA RepairedLines ==
  ASSUME NEW k \in Nat, NEW l \in Lines(k)
  PROVE  Repaired(l) \in Lines(k) /\ SameEntries(l, Repaired(l))
  BY TornMended, GrowsReflexive DEF Repaired

LEMMA TornLines ==
  ASSUME NEW k \in Nat, NEW l \in Lines(k)
  PROVE  WithTorn(l) \in Lines(k) /\ SameEntries(l, WithTorn(l))
<1>1. CASE IsTorn(l)
  BY <1>1, GrowsReflexive DEF WithTorn
<1>2. CASE ~IsTorn(l)
  <2> DEFINE m == Append(l, Torn)
  <2>1. /\ m \in Lines(k) /\ Len(m) = Len(l) + 1
        /\ \A n \in 1 .. Len(l) : m[n] = l[n]
        /\ m[Len(l) + 1] = Torn
    BY LineAppended
  <2> HIDE DEF m
  <2>2. Len(l) \in Nat /\ Complete(l) = Len(l)
    BY <1>2, LineFacts DEF Complete
  <2>3. Complete(m) >= Len(l)
    BY <2>1, <2>2 DEF Complete
  <2>4. SameEntries(l, m)
    BY <2>1, <2>2, <2>3 DEF SameEntries, Grows, Torn
  <2> QED BY <1>2, <2>1, <2>4 DEF WithTorn, m
<1> QED BY <1>1, <1>2

LEMMA WrittenLines ==
  ASSUME NEW k \in Nat, NEW l \in Lines(k), NEW e \in 1 .. k
  PROVE  WithLine(l, e) \in Lines(k) /\ OneMore(l, WithLine(l, e), e)
<1>1. CASE IsTorn(l)
  BY <1>1, TornMended DEF WithLine, OneMore, SameEntries
<1>2. CASE ~IsTorn(l)
  <2> DEFINE m == Append(l, e)
  <2>1. /\ m \in Lines(k) /\ Len(m) = Len(l) + 1
        /\ \A n \in 1 .. Len(l) : m[n] = l[n]
        /\ m[Len(l) + 1] = e
    BY LineAppended
  <2> HIDE DEF m
  <2>2. Len(l) \in Nat /\ Complete(l) = Len(l)
    BY <1>2, LineFacts DEF Complete
  <2>3. Complete(m) >= Len(l)
    BY <2>1, <2>2 DEF Complete
  <2>4. OneMore(l, m, e)
    BY <2>1, <2>2, <2>3 DEF OneMore, Grows
  <2> QED BY <1>2, <2>1, <2>4 DEF WithLine, m
<1> QED BY <1>1, <1>2

-----------------------------------------------------------------------------
(* Days                                                                    *)

LEMMA Division ==
  ASSUME NEW n \in Nat, NEW m \in Nat, NEW d \in Nat \ {0}, n <= m
  PROVE  n \div d \in Nat /\ m \div d \in Nat /\ n \div d <= m \div d
<1>1. /\ n \div d \in Int /\ d * (n \div d) <= n /\ n < d * (n \div d) + d
      /\ m \div d \in Int /\ d * (m \div d) <= m /\ m < d * (m \div d) + d
  BY SMT
<1> DEFINE p == n \div d
           q == m \div d
<1> HIDE DEF p, q
<1>2. p \in Int /\ q \in Int /\ d * p <= n /\ n < d * p + d /\ d * q <= m /\ m < d * q + d
  BY <1>1 DEF p, q
<1>3. p >= 0 /\ q >= 0
  BY <1>2
<1>4. ASSUME p > q PROVE FALSE
  <2>1. d * p >= d * q + d
    BY <1>2, <1>4
  <2> QED BY <1>2, <2>1
<1> QED BY <1>2, <1>3, <1>4 DEF p, q

LEMMA LeastDay ==
  ASSUME NEW days, days \subseteq Nat, days # {}
  PROVE  \E d \in days : \A e \in days : d <= e
<1>0. OpToRel(<, Nat) = {ss \in Nat \X Nat : ss[1] < ss[2]}
  BY Zenon DEF OpToRel
<1>1. PICK d \in days : \A e \in days : ~ (<<e, d>> \in OpToRel(<, Nat))
  BY NatLessThanWellFounded, WFMin
<1>2. ASSUME NEW e \in days PROVE d <= e
  <2>1. ~ (<<e, d>> \in  {ss \in Nat \X Nat : ss[1] < ss[2]})
    BY <1>0, <1>1
  <2> QED BY <2>1
<1> QED BY <1>2

LEMMA TodayIsADay ==
  ASSUME NEW t \in 0 .. MaxTime
  PROVE  t \div DayLength \in Day
<1>1. t \in Nat /\ MaxTime \in Nat /\ DayLength \in Nat \ {0} /\ t <= MaxTime
  BY LearnJournalAssumption
<1> QED BY <1>1, Division DEF Day

LEMMA LinesMonotonic ==
  ASSUME NEW k \in Nat, NEW m \in Nat, k <= m, NEW l \in Lines(k)
  PROVE  l \in Lines(m)
  BY SeqMonotonic DEF Lines

LEMMA LogFacts ==
  ASSUME NEW l \in Seq(JournalEntry)
  PROVE  /\ Len(l) \in Nat /\ DOMAIN l = 1 .. Len(l)
         /\ \A i \in DOMAIN l : l[i] \in JournalEntry
         /\ \A e \in JournalEntry : /\ Append(l, e) \in Seq(JournalEntry)
                                    /\ Len(Append(l, e)) = Len(l) + 1
                                    /\ DOMAIN Append(l, e) = 1 .. Len(l) + 1
                                    /\ Append(l, e)[Len(l) + 1] = e
                                    /\ \A i \in DOMAIN l : Append(l, e)[i] = l[i]
<1>1. Len(l) \in Nat /\ DOMAIN l = 1 .. Len(l) /\ \A i \in DOMAIN l : l[i] \in JournalEntry
  BY LenProperties, ElementOfSeq
<1>2. ASSUME NEW e \in JournalEntry
      PROVE  /\ Append(l, e) \in Seq(JournalEntry) /\ Len(Append(l, e)) = Len(l) + 1
             /\ Append(l, e)[Len(l) + 1] = e
             /\ \A i \in DOMAIN l : Append(l, e)[i] = l[i]
  BY <1>1, AppendProperties
<1>3. \A e \in JournalEntry : DOMAIN Append(l, e) = 1 .. Len(l) + 1
  BY <1>2, LenProperties
<1> QED BY <1>1, <1>2, <1>3

-----------------------------------------------------------------------------
(* Types                                                                   *)

\* The segments s, for k entries.
Segments(s, k) == DOMAIN s \subseteq Day /\ \A d \in DOMAIN s : s[d] \in Lines(k)

DiskTypeOK ==
  /\ now \in 0 .. MaxTime
  /\ log \in Seq(JournalEntry) /\ Len(log) <= MaxEntries
  /\ Segments(segs, Len(log))
  /\ offset \in JournalOffset
  /\ counted \in [EntryNo -> Nat]
  /\ seen \subseteq DOMAIN log
  /\ late \subseteq DOMAIN log
  /\ aborts \in Nat

ProcessTypeOK ==
  /\ pc \in [Process -> {"idle", "repair", "open", "write", "cleanup", "load",
                         "list", "read", "derive"}]
  /\ mine \in [Process -> 0 .. MaxEntries]
  /\ day \in [Process -> Day]

PassTypeOK ==
  /\ from \in [Process -> JournalOffset]
  /\ todo \in [Process -> SUBSET Day]
  /\ batch \in [Process -> SUBSET (Day \X Nat \X DOMAIN log)]
  /\ next \in [Process -> JournalOffset]
  /\ pairs \in [Process -> SUBSET DOMAIN log]

LEMMA TypeParts == TypeOK <=> DiskTypeOK /\ ProcessTypeOK /\ PassTypeOK
<1>1. ASSUME log \in Seq(JournalEntry)
      PROVE  \A d \in DOMAIN segs :
               segs[d] \in Seq({Torn, Junk} \union DOMAIN log) <=> segs[d] \in Lines(Len(log))
  BY <1>1, LogFacts DEF Lines
<1> QED BY <1>1 DEF TypeOK, DiskTypeOK, ProcessTypeOK, PassTypeOK, Segments

Writes(p) == pc[p] \in {"repair", "open", "write"}

\* A writer's entry is composed.
Composed == \A p \in Process : Writes(p) => mine[p] \in DOMAIN log

LEMMA ZeroIsAnOffset == ZeroOffset \in JournalOffset
  BY DEF ZeroOffset, JournalOffset

LEMMA EndPassType ==
  ASSUME ProcessTypeOK, PassTypeOK, NEW p \in Process, EndPass(p), log' = log
  PROVE  /\ pc' \in [Process -> {"idle", "repair", "open", "write", "cleanup", "load",
                                 "list", "read", "derive"}]
         /\ PassTypeOK'
  BY ZeroIsAnOffset DEF EndPass, Goto, ProcessTypeOK, PassTypeOK

LEMMA EndAppendType ==
  ASSUME ProcessTypeOK, NEW p \in Process, EndAppend(p)
  PROVE  mine' \in [Process -> 0 .. MaxEntries] /\ day' \in [Process -> Day]
<1>1. 0 \in 0 .. MaxEntries /\ 0 \in Day
  <2>1. MaxTime \in Nat /\ DayLength \in Nat \ {0} /\ MaxEntries \in Nat
    BY LearnJournalAssumption
  <2>2. MaxTime \div DayLength \in Nat
    BY <2>1, Division
  <2> QED BY <2>1, <2>2 DEF Day
<1> QED BY <1>1 DEF EndAppend, ProcessTypeOK

\* What a step leaves of the disk's types when it only rewrites one segment.
LEMMA OneSegmentType ==
  ASSUME DiskTypeOK, NEW d \in DOMAIN segs, NEW l \in Lines(Len(log)),
         segs' = [segs EXCEPT ![d] = l]
  PROVE  Segments(segs', Len(log))
  BY DEF DiskTypeOK, Segments

LEMMA InvokeType ==
  ASSUME TypeOK, NEW p \in Process, Invoke(p)
  PROVE  TypeOK'
<1> USE DEF Segments
<1>1. DiskTypeOK /\ ProcessTypeOK /\ PassTypeOK
  BY TypeParts
<1>2. PICK key \in Key, kind \in Kind :
        log' = Append(log, [key |-> key, kind |-> kind, ts |-> now])
  BY DEF Invoke
<1>3. [key |-> key, kind |-> kind, ts |-> now] \in JournalEntry
  BY <1>1 DEF JournalEntry, DiskTypeOK
<1>4. /\ log' \in Seq(JournalEntry) /\ Len(log) \in Nat /\ Len(log') = Len(log) + 1
      /\ DOMAIN log' = 1 .. Len(log) + 1 /\ DOMAIN log = 1 .. Len(log)
  BY <1>1, <1>2, <1>3, LogFacts DEF DiskTypeOK
<1>5. Len(log) < MaxEntries /\ MaxEntries \in Nat
  BY LearnJournalAssumption DEF Invoke
<1>6. ASSUME NEW d \in DOMAIN segs PROVE segs[d] \in Lines(Len(log) + 1)
  BY <1>1, <1>4, LinesMonotonic DEF DiskTypeOK
<1>7. DiskTypeOK'
  BY <1>1, <1>4, <1>5, <1>6 DEF DiskTypeOK, Invoke
<1>8. ProcessTypeOK'
  <2>1. Len(log) + 1 \in 0 .. MaxEntries /\ Today \in Day
    BY <1>1, <1>4, <1>5, TodayIsADay DEF DiskTypeOK, Today
  <2> QED BY <1>1, <2>1 DEF Invoke, Goto, ProcessTypeOK
<1>9. PassTypeOK'
  BY <1>1, <1>4 DEF PassTypeOK, Invoke, passVars
<1> QED BY <1>7, <1>8, <1>9, TypeParts, PTL

LEMMA JournalType ==
  ASSUME TypeOK, NEW p \in Process, Journal(p), Writes(p) => mine[p] \in DOMAIN log
  PROVE  TypeOK'
<1> USE DEF Segments
<1>1. DiskTypeOK /\ ProcessTypeOK /\ PassTypeOK
  BY TypeParts
<1>2. Len(log) \in Nat /\ DOMAIN log = 1 .. Len(log)
  BY <1>1, LogFacts DEF DiskTypeOK
<1>3. day[p] \in Day
  BY <1>1 DEF ProcessTypeOK
<1>4. ASSUME day[p] \in DOMAIN segs
      PROVE  /\ Repaired(segs[day[p]]) \in Lines(Len(log))
             /\ WithTorn(segs[day[p]]) \in Lines(Len(log))
             /\ mine[p] \in DOMAIN log => WithLine(segs[day[p]], mine[p]) \in Lines(Len(log))
  BY <1>1, <1>2, <1>4, RepairedLines, TornLines, WrittenLines DEF DiskTypeOK
<1>5. CASE Invoke(p)
  BY <1>5, InvokeType
<1>6. CASE InvokeUnjournaled(p)
  <2>1. DiskTypeOK' /\ ProcessTypeOK' /\ PassTypeOK'
    BY <1>1, <1>6 DEF InvokeUnjournaled, Goto, passVars, DiskTypeOK, ProcessTypeOK, PassTypeOK
  <2> QED BY <2>1, TypeParts, PTL
<1>7. CASE RepairJournalSegmentTail(p)
  <2>1. Segments(segs', Len(log))
    BY <1>1, <1>4, <1>7, OneSegmentType DEF RepairJournalSegmentTail, DiskTypeOK
  <2>2. DiskTypeOK' /\ ProcessTypeOK' /\ PassTypeOK'
    BY <1>1, <1>7, <2>1
       DEF RepairJournalSegmentTail, Goto, passVars, DiskTypeOK, ProcessTypeOK, PassTypeOK
  <2> QED BY <2>2, TypeParts, PTL
<1>8. CASE OpenSegment(p)
  <2>1. <<>> \in Lines(Len(log))
    BY EmptySeq DEF Lines
  <2>2. Segments(segs', Len(log))
    BY <1>1, <1>3, <1>8, <2>1 DEF OpenSegment, DiskTypeOK
  <2>3. DiskTypeOK' /\ ProcessTypeOK' /\ PassTypeOK'
    BY <1>1, <1>8, <2>2 DEF OpenSegment, Goto, passVars, DiskTypeOK, ProcessTypeOK, PassTypeOK
  <2> QED BY <2>3, TypeParts, PTL
<1>9. CASE WriteEntry(p)
  <2> mine[p] \in DOMAIN log
    BY <1>9 DEF WriteEntry, Writes
  <2>1. Segments(segs', Len(log))
    BY <1>1, <1>4, <1>9, OneSegmentType DEF WriteEntry, DiskTypeOK
  <2>2. mine' \in [Process -> 0 .. MaxEntries] /\ day' \in [Process -> Day]
    BY <1>1, <1>9, EndAppendType DEF WriteEntry
  <2>3. DiskTypeOK' /\ ProcessTypeOK' /\ PassTypeOK'
    BY <1>1, <1>9, <2>1, <2>2
       DEF WriteEntry, Goto, passVars, DiskTypeOK, ProcessTypeOK, PassTypeOK
  <2> QED BY <2>3, TypeParts, PTL
<1>10. CASE AppendFails(p)
  <2>1. Segments(segs', Len(log))
    BY <1>1, <1>4, <1>10, OneSegmentType DEF AppendFails, DiskTypeOK
  <2>2. mine' \in [Process -> 0 .. MaxEntries] /\ day' \in [Process -> Day]
    BY <1>1, <1>10, EndAppendType DEF AppendFails
  <2>3. DiskTypeOK' /\ ProcessTypeOK' /\ PassTypeOK'
    BY <1>1, <1>10, <2>1, <2>2
       DEF AppendFails, Goto, passVars, DiskTypeOK, ProcessTypeOK, PassTypeOK
  <2> QED BY <2>3, TypeParts, PTL
<1>11. CASE CleanupJournalSegments(p)
  <2>1. Segments(segs', Len(log))
    BY <1>1, <1>11 DEF CleanupJournalSegments, DiskTypeOK
  <2>2. DiskTypeOK' /\ ProcessTypeOK' /\ PassTypeOK'
    BY <1>1, <1>11, <2>1
       DEF CleanupJournalSegments, Goto, passVars, DiskTypeOK, ProcessTypeOK, PassTypeOK
  <2> QED BY <2>2, TypeParts, PTL
<1> QED BY <1>5, <1>6, <1>7, <1>8, <1>9, <1>10, <1>11 DEF Journal

LEMMA ReadLines ==
  ASSUME TypeOK, NEW o \in JournalOffset, NEW d \in DOMAIN segs
  PROVE  /\ Consumed(o, d) \in Nat /\ LineAfter(o, d) \in Nat
         /\ EntriesFrom(o, d) \subseteq Day \X Nat \X DOMAIN log
         /\ [segment |-> d, line |-> LineAfter(o, d)] \in JournalOffset
<1>1. DiskTypeOK
  BY TypeParts
<1>2. d \in Day /\ segs[d] \in Lines(Len(log)) /\ Len(log) \in Nat
  BY <1>1, LogFacts DEF DiskTypeOK, Segments
<1>3. Len(segs[d]) \in Nat /\ Complete(segs[d]) \in Nat
  BY <1>2, LineFacts
<1>4. o.line \in Nat
  BY DEF JournalOffset
<1>5. Consumed(o, d) \in Nat
  BY <1>3, <1>4 DEF Consumed
<1>6. LineAfter(o, d) \in Nat
  BY <1>3, <1>5 DEF LineAfter
<1>7. EntriesFrom(o, d) \subseteq Day \X Nat \X DOMAIN log
  BY <1>2, <1>3, <1>5 DEF EntriesFrom
<1> QED BY <1>2, <1>5, <1>6, <1>7 DEF JournalOffset

\* The oldest segment that p has still to read.
Oldest(p) == CHOOSE d \in todo[p] : \A e \in todo[p] : d <= e

LEMMA OldestIs ==
  ASSUME TypeOK, NEW p \in Process, todo[p] # {}
  PROVE  Oldest(p) \in todo[p] /\ \A e \in todo[p] : Oldest(p) <= e
<1>1. todo[p] \subseteq Nat
  BY TypeParts DEF PassTypeOK, Day
<1>2. PICK d \in todo[p] : \A e \in todo[p] : d <= e
  BY <1>1, LeastDay
<1> QED BY <1>2 DEF Oldest

LEMMA ReadIs ==
  ASSUME NEW p \in Process, ReadSegment(p)
  PROVE  LET d == Oldest(p)
         IN  /\ pc[p] = "read" /\ todo[p] # {}
             /\ todo' = [todo EXCEPT ![p] = @ \ {d}]
             /\ IF d \in DOMAIN segs
                  THEN /\ batch' = [batch EXCEPT ![p] = @ \union EntriesFrom(from[p], d)]
                       /\ next' = [next EXCEPT ![p] =
                                     [segment |-> d, line |-> LineAfter(from[p], d)]]
                  ELSE UNCHANGED <<batch, next>>
             /\ UNCHANGED <<now, log, segs, offset, counted, seen, late, aborts, pc, mine,
                            day, from, pairs>>
  BY Zenon DEF ReadSegment, Oldest

LEMMA PassType ==
  ASSUME TypeOK, NEW p \in Process, Pass(p) \/ Kill(p)
  PROVE  TypeOK'
<1>1. DiskTypeOK /\ ProcessTypeOK /\ PassTypeOK
  BY TypeParts
<1>2. ASSUME EndPass(p), log' = log
      PROVE  /\ pc' \in [Process -> {"idle", "repair", "open", "write", "cleanup", "load",
                                     "list", "read", "derive"}]
             /\ PassTypeOK'
  BY <1>1, <1>2, EndPassType
<1>3. CASE SkipPass(p) \/ HoldBatch(p)
  <2>1. DiskTypeOK' /\ ProcessTypeOK' /\ PassTypeOK'
    BY <1>1, <1>2, <1>3 DEF SkipPass, HoldBatch, DiskTypeOK, ProcessTypeOK
  <2> QED BY <2>1, TypeParts, PTL
<1>4. CASE LoadJournalOffset(p)
  <2>1. DiskTypeOK' /\ ProcessTypeOK' /\ PassTypeOK'
    BY <1>1, <1>4 DEF LoadJournalOffset, Goto, DiskTypeOK, ProcessTypeOK, PassTypeOK
  <2> QED BY <2>1, TypeParts, PTL
<1>5. CASE ListJournalSegments(p)
  <2>1. {d \in DOMAIN segs : d >= from[p].segment} \subseteq Day
    BY <1>1 DEF DiskTypeOK, Segments
  <2>2. DiskTypeOK' /\ ProcessTypeOK' /\ PassTypeOK'
    BY <1>1, <1>5, <2>1 DEF ListJournalSegments, Goto, DiskTypeOK, ProcessTypeOK, PassTypeOK
  <2> QED BY <2>2, TypeParts, PTL
<1>6. CASE ReadSegment(p)
  <2>1. DiskTypeOK' /\ ProcessTypeOK'
    BY <1>1, <1>6 DEF ReadSegment, DiskTypeOK, ProcessTypeOK
  <2>2. ASSUME Oldest(p) \in DOMAIN segs
        PROVE  /\ EntriesFrom(from[p], Oldest(p)) \subseteq Day \X Nat \X DOMAIN log
               /\ [segment |-> Oldest(p), line |-> LineAfter(from[p], Oldest(p))]
                    \in JournalOffset
    BY <1>1, <2>2, ReadLines DEF PassTypeOK
  <2>3. PassTypeOK'
    BY <1>1, <1>6, <2>2, ReadIs DEF PassTypeOK
  <2> QED BY <2>1, <2>3, TypeParts, PTL
<1>7. CASE PairFlagCorrections(p)
  <2>1. Corrections(batch[p]) \subseteq DOMAIN log
    BY <1>1 DEF Corrections, EntriesOf, PassTypeOK
  <2>2. DiskTypeOK' /\ ProcessTypeOK' /\ PassTypeOK'
    BY <1>1, <1>7, <2>1 DEF PairFlagCorrections, Goto, DiskTypeOK, ProcessTypeOK, PassTypeOK
  <2> QED BY <2>2, TypeParts, PTL
<1>8. CASE DeriveCandidate(p)
  <2>0. DOMAIN log \subseteq EntryNo
    BY <1>1, LogFacts, LearnJournalAssumption DEF DiskTypeOK, EntryNo
  <2>1. DiskTypeOK' /\ ProcessTypeOK' /\ PassTypeOK'
    BY <1>1, <1>8, <2>0 DEF DeriveCandidate, Goto, DiskTypeOK, ProcessTypeOK, PassTypeOK
  <2> QED BY <2>1, TypeParts, PTL
<1>9. CASE StoreJournalOffset(p)
  <2>1. EntriesOf(batch[p]) \subseteq DOMAIN log /\ next[p] \in JournalOffset
    BY <1>1 DEF EntriesOf, PassTypeOK
  <2>2. DiskTypeOK' /\ ProcessTypeOK' /\ PassTypeOK'
    BY <1>1, <1>2, <1>9, <2>1 DEF StoreJournalOffset, DiskTypeOK, ProcessTypeOK
  <2> QED BY <2>2, TypeParts, PTL
<1>10. CASE PassFails(p)
  <2>1. DiskTypeOK' /\ ProcessTypeOK' /\ PassTypeOK'
    BY <1>1, <1>2, <1>10 DEF PassFails, DiskTypeOK, ProcessTypeOK
  <2> QED BY <2>1, TypeParts, PTL
<1>11. CASE Kill(p)
  <2>1. mine' \in [Process -> 0 .. MaxEntries] /\ day' \in [Process -> Day]
    BY <1>1, <1>11, EndAppendType DEF Kill
  <2>2. DiskTypeOK' /\ ProcessTypeOK' /\ PassTypeOK'
    BY <1>1, <1>2, <1>11, <2>1 DEF Kill, DiskTypeOK, ProcessTypeOK
  <2> QED BY <2>2, TypeParts, PTL
<1> QED
  BY <1>3, <1>4, <1>5, <1>6, <1>7, <1>8, <1>9, <1>10, <1>11 DEF Pass

LEMMA TypeInit == Init => TypeOK /\ Composed
<1> SUFFICES ASSUME Init PROVE TypeOK /\ Composed
  OBVIOUS
<1>1. /\ 0 \in Day /\ 0 \in 0 .. MaxTime /\ 0 \in 0 .. MaxEntries
      /\ MaxEntries \in Nat
  <2>1. MaxTime \in Nat /\ DayLength \in Nat \ {0} /\ MaxEntries \in Nat
    BY LearnJournalAssumption
  <2> QED BY <2>1, Division DEF Day
<1>2. DiskTypeOK
  BY <1>1, EmptySeq, ZeroIsAnOffset DEF Init, DiskTypeOK, Segments
<1>3. ProcessTypeOK /\ PassTypeOK /\ Composed
  BY <1>1, ZeroIsAnOffset DEF Init, ProcessTypeOK, PassTypeOK, Composed, Writes
<1> QED BY <1>2, <1>3, TypeParts

LEMMA TypeStep == TypeOK /\ Composed /\ [Next]_vars => TypeOK' /\ Composed'
<1> SUFFICES ASSUME TypeOK, Composed, [Next]_vars PROVE TypeOK' /\ Composed'
  OBVIOUS
<1>1. DiskTypeOK /\ ProcessTypeOK /\ PassTypeOK
  BY TypeParts
<1>2. CASE Tick \/ UNCHANGED vars
  <2>1. now' \in 0 .. MaxTime
    BY <1>1, <1>2, LearnJournalAssumption DEF Tick, vars, DiskTypeOK
  <2>2. DiskTypeOK' /\ ProcessTypeOK' /\ PassTypeOK' /\ Composed'
    BY <1>1, <1>2, <2>1
       DEF Tick, vars, passVars, DiskTypeOK, ProcessTypeOK, PassTypeOK, Composed, Writes
  <2> QED BY <2>2, TypeParts, PTL
<1>3. ASSUME NEW p \in Process, Journal(p) PROVE TypeOK' /\ Composed'
  <2>1. TypeOK'
    BY <1>3, JournalType DEF Composed
  <2>2. CASE Invoke(p)
    <3>1. DOMAIN log \subseteq DOMAIN log' /\ Len(log) + 1 \in DOMAIN log'
      <4>1. PICK key \in Key, kind \in Kind :
              log' = Append(log, [key |-> key, kind |-> kind, ts |-> now])
        BY <2>2 DEF Invoke
      <4>2. [key |-> key, kind |-> kind, ts |-> now] \in JournalEntry
        BY <1>1 DEF JournalEntry, DiskTypeOK
      <4> QED BY <1>1, <4>1, <4>2, LogFacts DEF DiskTypeOK
    <3> QED BY <1>1, <2>1, <2>2, <3>1 DEF Invoke, Goto, Composed, Writes, ProcessTypeOK
  <2>3. CASE \/ InvokeUnjournaled(p) \/ RepairJournalSegmentTail(p) \/ OpenSegment(p)
             \/ CleanupJournalSegments(p)
    BY <1>1, <2>1, <2>3
       DEF InvokeUnjournaled, RepairJournalSegmentTail, OpenSegment, CleanupJournalSegments,
           Goto, Composed, Writes, ProcessTypeOK
  <2>4. CASE WriteEntry(p) \/ AppendFails(p)
    BY <1>1, <2>1, <2>4
       DEF WriteEntry, AppendFails, EndAppend, Goto, Composed, Writes, ProcessTypeOK
  <2> QED BY <1>3, <2>2, <2>3, <2>4 DEF Journal
<1>4. ASSUME NEW p \in Process, Pass(p) \/ Kill(p) PROVE TypeOK' /\ Composed'
  <2>1. TypeOK'
    BY <1>4, PassType
  <2>2. log' = log
    BY <1>4 DEF Pass, Kill, SkipPass, LoadJournalOffset, ListJournalSegments, ReadSegment,
                HoldBatch, PairFlagCorrections, DeriveCandidate, StoreJournalOffset, PassFails
  <2>3. \/ mine' = mine
        \/ pc' = [pc EXCEPT ![p] = "idle"] /\ mine' = [mine EXCEPT ![p] = 0]
    BY <1>4 DEF Pass, Kill, SkipPass, LoadJournalOffset, ListJournalSegments, ReadSegment,
                HoldBatch, PairFlagCorrections, DeriveCandidate, StoreJournalOffset, PassFails,
                EndPass, EndAppend, Goto
  <2>4. \/ pc' = pc
        \/ \E place \in {"idle", "list", "read", "derive"} : pc' = [pc EXCEPT ![p] = place]
    BY <1>4 DEF Pass, Kill, SkipPass, LoadJournalOffset, ListJournalSegments, ReadSegment,
                HoldBatch, PairFlagCorrections, DeriveCandidate, StoreJournalOffset, PassFails,
                EndPass, Goto
  <2>5. Composed'
    BY <1>1, <2>2, <2>3, <2>4 DEF Composed, Writes, ProcessTypeOK
  <2> QED BY <2>1, <2>5
<1> QED BY <1>2, <1>3, <1>4 DEF Next

\* Type correctness, and a writer's entry is composed before it is written.
THEOREM JournalTypeOK == Spec => []TypeOK
<1>1. Init => TypeOK /\ Composed
  BY TypeInit
<1>2. TypeOK /\ Composed /\ [Next]_vars => TypeOK' /\ Composed'
  BY TypeStep
<1> QED BY <1>1, <1>2, PTL DEF Spec

-----------------------------------------------------------------------------
(* Places                                                                  *)

\* Entry x[3] is line x[2] of segment x[1] of s.
Place(s, x) ==
  /\ x = <<x[1], x[2], x[3]>>
  /\ x[1] \in DOMAIN s /\ x[2] \in 1 .. Len(s[x[1]])
  /\ x[3] = s[x[1]][x[2]] /\ x[3] >= 1

LEMMA OnDiskIs == TypeOK => \A x : x \in OnDisk <=> Place(segs, x)
<1> SUFFICES ASSUME TypeOK, NEW x PROVE x \in OnDisk <=> Place(segs, x)
  OBVIOUS
<1>1. DiskTypeOK /\ Len(log) \in Nat /\ DOMAIN log = 1 .. Len(log)
  BY TypeParts, LogFacts DEF DiskTypeOK
<1>2. ASSUME NEW d \in DOMAIN segs
      PROVE  /\ DOMAIN segs[d] = 1 .. Len(segs[d])
             /\ \A n \in 1 .. Len(segs[d]) : segs[d][n] \in DOMAIN log <=> segs[d][n] >= 1
  <2>1. segs[d] \in Lines(Len(log))
    BY <1>1 DEF DiskTypeOK, Segments
  <2>2. ASSUME NEW n \in 1 .. Len(segs[d])
        PROVE  segs[d][n] \in DOMAIN log <=> segs[d][n] >= 1
    <3>1. segs[d][n] \in {Torn, Junk} \union 1 .. Len(log)
      BY <1>1, <2>1, LineFacts
    <3> QED BY <1>1, <3>1 DEF Torn, Junk
  <2> QED BY <1>1, <2>1, <2>2, LineFacts
<1>3. x \in OnDisk <=> \E d \in DOMAIN segs :
                        \E n \in DOMAIN segs[d] :
                          segs[d][n] \in DOMAIN log /\ x = <<d, n, segs[d][n]>>
  BY DEF OnDisk
<1>4. ASSUME x \in OnDisk PROVE Place(segs, x)
  <2>1. PICK d \in DOMAIN segs :
          \E n \in DOMAIN segs[d] : segs[d][n] \in DOMAIN log /\ x = <<d, n, segs[d][n]>>
    BY <1>3, <1>4
  <2>2. PICK n \in DOMAIN segs[d] : segs[d][n] \in DOMAIN log /\ x = <<d, n, segs[d][n]>>
    BY <2>1
  <2> QED BY <1>2, <2>2 DEF Place
<1>5. ASSUME Place(segs, x) PROVE x \in OnDisk
  <2>1. /\ x[1] \in DOMAIN segs /\ x[2] \in DOMAIN segs[x[1]]
        /\ segs[x[1]][x[2]] \in DOMAIN log /\ x = <<x[1], x[2], segs[x[1]][x[2]]>>
    BY <1>2, <1>5 DEF Place
  <2> QED BY <1>3, <2>1
<1> QED BY <1>4, <1>5

LEMMA PlaceFacts ==
  ASSUME NEW k \in Nat, NEW s, Segments(s, k), NEW x, Place(s, x)
  PROVE  /\ x[1] \in Nat /\ x[2] \in Nat /\ x[3] \in 1 .. k
         /\ x[1] \in DOMAIN s /\ x[2] <= Complete(s[x[1]]) /\ x[2] <= Len(s[x[1]])
         /\ Complete(s[x[1]]) \in Nat
<1>1. x[1] \in Nat /\ s[x[1]] \in Lines(k)
  BY DEF Segments, Place, Day
<1>2. x[2] \in Nat /\ x[2] \in 1 .. Len(s[x[1]]) /\ x[3] = s[x[1]][x[2]] /\ x[3] >= 1
  BY <1>1, LineFacts DEF Place
<1>3. x[3] \in {Torn, Junk} \union 1 .. k
  BY <1>1, <1>2, LineFacts
<1>4. x[3] \in 1 .. k
  BY <1>2, <1>3 DEF Torn, Junk
<1>5. x[2] <= Complete(s[x[1]]) /\ Complete(s[x[1]]) \in Nat /\ Len(s[x[1]]) \in Nat
  BY <1>1, <1>2, LineFacts
<1> QED BY <1>1, <1>2, <1>4, <1>5 DEF Place

\* A repair, a new segment, a torn line change no entry.
LEMMA PlacesUntouched ==
  ASSUME NEW k \in Nat, NEW s, Segments(s, k), NEW t, Segments(t, k),
         DOMAIN s \subseteq DOMAIN t,
         \A d \in DOMAIN t : IF d \in DOMAIN s THEN SameEntries(s[d], t[d]) ELSE t[d] = <<>>,
         NEW x
  PROVE  Place(s, x) <=> Place(t, x)
<1>0. \A d \in DOMAIN s : Len(s[d]) \in Nat
  BY LineFacts DEF Segments
<1>1. \A d \in DOMAIN t : Len(t[d]) \in Nat
  BY LineFacts DEF Segments
<1>2. ASSUME Place(s, x) PROVE Place(t, x)
  BY <1>0, <1>1, <1>2 DEF Place, SameEntries, Grows
<1>3. ASSUME Place(t, x) PROVE Place(s, x)
  <2>1. Len(<<>>) = 0
    BY EmptySeq
  <2>2. x[1] \in DOMAIN s
    BY <1>3, <2>1 DEF Place
  <2> QED BY <1>0, <1>1, <1>3, <2>2 DEF Place, SameEntries
<1> QED BY <1>2, <1>3

\* t is s with at most entry e more, at the end of segment c.
Extends(s, t, c, e) ==
  /\ DOMAIN s = DOMAIN t
  /\ \A d \in DOMAIN t : IF d = c THEN OneMore(s[d], t[d], e) ELSE s[d] = t[d]

\* A written line adds at most one place, at the end of its segment.
LEMMA PlacesAfterWrite ==
  ASSUME NEW k \in Nat, NEW s, Segments(s, k), NEW t, Segments(t, k),
         NEW c, NEW e, Extends(s, t, c, e), NEW x
  PROVE  /\ Place(s, x) => Place(t, x)
         /\ Place(t, x) => Place(s, x) \/ (x[1] = c /\ x[2] = Len(s[c]) + 1 /\ x[3] = e)
<1>0. \A d \in DOMAIN s : Len(s[d]) \in Nat /\ Len(t[d]) \in Nat
  BY LineFacts DEF Segments
<1>1. ASSUME Place(s, x) PROVE Place(t, x)
  BY <1>0, <1>1 DEF Extends, Place, OneMore, Grows
<1>2. ASSUME Place(t, x), ~ Place(s, x) PROVE x[1] = c /\ x[2] = Len(s[c]) + 1 /\ x[3] = e
  <2>1. x[1] = c
    BY <1>2 DEF Extends, Place
  <2> QED BY <1>0, <1>2, <2>1 DEF Extends, Place, OneMore
<1> QED BY <1>1, <1>2

-----------------------------------------------------------------------------
(* The invariant                                                           *)

\* x lies before offset o.
Passed(o, x) == x[1] < o.segment \/ (x[1] = o.segment /\ x[2] <= o.line)

\* No line of today's segment is passed that may still be written.
Within(o) ==
  /\ o.segment <= Today
  /\ o.segment = Today => Today \in DOMAIN segs /\ o.line <= Complete(segs[Today])

\* An entry has one place on disk, and no segment is of a day to come.
DiskOK ==
  /\ \A d \in DOMAIN segs : d <= Today
  /\ \A x, y \in OnDisk : x[3] = y[3] => x = y
  /\ \A i \in EntryNo \ DOMAIN log : counted[i] = 0

\* Nobody else knows the entry that p is about to write.
WriterOK(p) ==
  Writes(p) =>
    /\ mine[p] \in DOMAIN log /\ day[p] <= Today
    /\ \A x \in OnDisk : x[3] # mine[p]
    /\ counted[mine[p]] = 0
    /\ \A q \in Process : mine[p] \notin EntriesOf(batch[q]) \union pairs[q]
    /\ \A q \in Process \ {p} : Writes(q) => mine[q] # mine[p]

\* What the pass has read, or another has read before it, or nobody reads.
Covered(p, x) == x \in batch[p] \/ x[3] \in late \/ Passed(from[p], x)

\* The scan of p: the batch is what lies between two offsets.
ScanOK(p) ==
  /\ pc[p] # "read" => todo[p] = {}
  /\ pc[p] = "list" => batch[p] = {}
  /\ Within(from[p]) /\ Within(next[p])
  /\ \A d \in todo[p] : from[p].segment <= d /\ d <= Today
  /\ \A x \in OnDisk : Passed(from[p], x) => x[3] \in seen \union late
  /\ \A x \in OnDisk : Passed(next[p], x) => Covered(p, x)
  /\ \A x \in OnDisk, d \in todo[p] : x[1] < d /\ x[1] \notin todo[p] => Covered(p, x)

\* The batch of p: places, and which of them are still on disk.
BatchOK(p) ==
  /\ \A x \in batch[p] :
       /\ Passed(next[p], x) /\ ~ Passed(from[p], x)
       /\ \A d \in todo[p] : x[1] < d
  /\ \A x \in batch[p], y \in OnDisk : x[3] = y[3] => x = y
  /\ \A x, y \in batch[p] : x \in OnDisk /\ x[1] <= y[1] => y \in OnDisk

\* What p is still to record are corrections.
PairsOK(p) ==
  \A x \in OnDisk : x[3] \in pairs[p] => \E y \in OnDisk : Corrects(y, x, late)

JournalInv ==
  /\ DiskOK
  /\ Within(offset)
  /\ PrefixConsumed
  /\ OnlyCorrections
  /\ \A p \in Process : WriterOK(p) /\ ScanOK(p) /\ BatchOK(p) /\ PairsOK(p)

-----------------------------------------------------------------------------
(* What a step leaves of the disk                                          *)

\* An entry keeps its place, entries go from the oldest segment on, and what is
\* written lies after every offset or is late.
Kept ==
  /\ \A x \in OnDisk' \ OnDisk :
       /\ \E q \in Process : pc[q] = "write" /\ x[3] = mine[q]
       /\ x[3] \in late' \/ \A o \in JournalOffset : Within(o) => ~ Passed(o, x)
  /\ \A x, y \in OnDisk : x \in OnDisk' /\ x[1] <= y[1] => y \in OnDisk'
  /\ \A o \in JournalOffset : Within(o) => Within(o)'
  /\ late \subseteq late' /\ seen \subseteq seen'
  /\ \A i \in DOMAIN log : i \in DOMAIN log' /\ log'[i] = log[i]
  /\ Today <= Today'

LEMMA OffsetsKept ==
  ASSUME TypeOK, TypeOK', now <= now',
         Today \in DOMAIN segs =>
           Today \in DOMAIN segs' /\ Complete(segs[Today]) <= Complete(segs'[Today])
  PROVE  /\ Today <= Today'
         /\ \A o \in JournalOffset : Within(o) => Within(o)'
<1>1. now \in Nat /\ now' \in Nat /\ DayLength \in Nat \ {0}
  BY LearnJournalAssumption DEF TypeOK
<1>2. Today \in Nat /\ Today' \in Nat /\ Today <= Today'
  BY <1>1, Division DEF Today
<1>3. ASSUME NEW o \in JournalOffset, Within(o) PROVE Within(o)'
  <2>1. o.segment \in Int /\ o.line \in Nat
    BY DEF JournalOffset, Day
  <2>2. CASE Today' # Today
    BY <1>2, <1>3, <2>1, <2>2 DEF Within
  <2>3. CASE Today' = Today /\ o.segment # Today
    BY <1>2, <1>3, <2>1, <2>3 DEF Within
  <2>4. CASE Today' = Today /\ o.segment = Today
    <3>1. Today \in DOMAIN segs /\ o.line <= Complete(segs[Today])
      BY <1>3, <2>4 DEF Within
    <3>2. /\ Today' \in DOMAIN segs'
          /\ Complete(segs[Today]) <= Complete(segs'[Today'])
      BY <2>4, <3>1
    <3>3. Complete(segs[Today]) \in Nat /\ Complete(segs'[Today']) \in Nat
      <4>1. /\ Len(log) \in Nat /\ segs[Today] \in Lines(Len(log))
            /\ Len(log') \in Nat /\ segs'[Today'] \in Lines(Len(log'))
        <5>1. DiskTypeOK /\ DiskTypeOK'
          BY TypeParts, PTL
        <5> QED BY <3>1, <3>2, <5>1, LogFacts DEF DiskTypeOK, Segments
      <4> QED BY <4>1, LineFacts
    <3> QED BY <2>1, <2>4, <3>1, <3>2, <3>3 DEF Within
  <2> QED BY <2>2, <2>3, <2>4
<1> QED BY <1>2, <1>3

\* A step that leaves the segments alone.
LEMMA SegmentsAlone ==
  ASSUME TypeOK, TypeOK', segs' = segs, now <= now', late \subseteq late',
         seen \subseteq seen',
         \A i \in DOMAIN log : i \in DOMAIN log' /\ log'[i] = log[i]
  PROVE  OnDisk' = OnDisk /\ Kept
<1>1. \A x : x \in OnDisk <=> Place(segs, x)
  BY OnDiskIs
<1>2. (TypeOK => \A x : x \in OnDisk <=> Place(segs, x))'
  BY OnDiskIs, PTL
<1>3. OnDisk' = OnDisk
  BY <1>1, <1>2
<1>4. Today \in DOMAIN segs => Complete(segs[Today]) <= Complete(segs[Today])
  <2>1. SUFFICES ASSUME Today \in DOMAIN segs PROVE Complete(segs[Today]) \in Nat
    BY <2>1
  <2>2. Len(log) \in Nat /\ segs[Today] \in Lines(Len(log))
    BY <2>1, TypeParts, LogFacts DEF DiskTypeOK, Segments
  <2> QED BY <2>2, LineFacts
<1>5. Today <= Today' /\ \A o \in JournalOffset : Within(o) => Within(o)'
  BY <1>4, OffsetsKept
<1> QED BY <1>3, <1>5 DEF Kept

\* A step that changes no entry of a segment.
LEMMA EntriesAlone ==
  ASSUME TypeOK, TypeOK', UNCHANGED <<now, log, late, seen>>,
         DOMAIN segs \subseteq DOMAIN segs',
         \A d \in DOMAIN segs' :
           IF d \in DOMAIN segs THEN SameEntries(segs[d], segs'[d]) ELSE segs'[d] = <<>>
  PROVE  OnDisk' = OnDisk /\ Kept
<1>1. DiskTypeOK /\ DiskTypeOK'
  BY TypeParts, PTL
<1>2. Len(log) \in Nat /\ Segments(segs, Len(log)) /\ Segments(segs', Len(log))
  BY <1>1, LogFacts DEF DiskTypeOK
<1>3. \A x : Place(segs, x) <=> Place(segs', x)
  BY <1>2, PlacesUntouched
<1>4. \A x : x \in OnDisk <=> Place(segs, x)
  BY OnDiskIs
<1>5. (TypeOK => \A x : x \in OnDisk <=> Place(segs, x))'
  BY OnDiskIs, PTL
<1>6. OnDisk' = OnDisk
  BY <1>3, <1>4, <1>5
<1>7. Today <= Today' /\ \A o \in JournalOffset : Within(o) => Within(o)'
  <2>1. now <= now'
    BY <1>1 DEF DiskTypeOK
  <2> QED BY <2>1, OffsetsKept DEF SameEntries, Grows
<1> QED BY <1>6, <1>7 DEF Kept

LEMMA WriteKept ==
  ASSUME TypeOK, TypeOK', DiskOK, NEW p \in Process, WriterOK(p), WriteEntry(p)
  PROVE  /\ Kept
         /\ OnDisk \subseteq OnDisk'
         /\ \A x \in OnDisk' \ OnDisk :
              /\ day[p] \in DOMAIN segs
              /\ x[1] = day[p] /\ x[2] = Len(segs[day[p]]) + 1 /\ x[3] = mine[p]
              /\ \A y \in OnDisk' \ OnDisk : y = x
         /\ \A d \in DOMAIN segs : d \in DOMAIN segs' /\ Complete(segs[d]) <= Complete(segs'[d])
<1>1. DiskTypeOK /\ DiskTypeOK'
  BY TypeParts, PTL
<1>2. /\ Len(log) \in Nat /\ Segments(segs, Len(log)) /\ Segments(segs', Len(log))
      /\ DOMAIN log = 1 .. Len(log)
  BY <1>1, LogFacts DEF DiskTypeOK, WriteEntry
<1>3. mine[p] \in DOMAIN log /\ pc[p] = "write"
  BY DEF WriterOK, Writes, WriteEntry
<1>4. now' = now /\ log' = log /\ seen' = seen /\ late \subseteq late'
  BY DEF WriteEntry
<1>5. CASE day[p] \notin DOMAIN segs
  <2>1. segs' = segs
    BY <1>5 DEF WriteEntry
  <2>2. now <= now'
    BY <1>1, <1>4 DEF DiskTypeOK
  <2>3. \A d \in DOMAIN segs : Complete(segs[d]) <= Complete(segs[d])
    BY <1>2, LineFacts DEF Segments
  <2> QED BY <1>4, <2>1, <2>2, <2>3, SegmentsAlone
<1>6. CASE day[p] \in DOMAIN segs
  <2> DEFINE c == day[p]
  <2>1. segs' = [segs EXCEPT ![c] = WithLine(segs[c], mine[p])]
    BY <1>6 DEF WriteEntry
  <2>2. OneMore(segs[c], WithLine(segs[c], mine[p]), mine[p])
    BY <1>2, <1>3, <1>6, WrittenLines DEF Segments
  <2>3. Extends(segs, segs', c, mine[p])
    BY <2>1, <2>2 DEF Extends
  <2>4. \A x : /\ Place(segs, x) => Place(segs', x)
               /\ Place(segs', x) => \/ Place(segs, x)
                                     \/ x[1] = c /\ x[2] = Len(segs[c]) + 1 /\ x[3] = mine[p]
    BY <1>2, <2>3, PlacesAfterWrite
  <2>5. \A x : x \in OnDisk <=> Place(segs, x)
    BY OnDiskIs
  <2>6. (TypeOK => \A x : x \in OnDisk <=> Place(segs, x))'
    BY OnDiskIs, PTL
  <2>7. /\ OnDisk \subseteq OnDisk'
        /\ \A x \in OnDisk' \ OnDisk :
             /\ x = <<x[1], x[2], x[3]>>
             /\ x[1] = c /\ x[2] = Len(segs[c]) + 1 /\ x[3] = mine[p]
    BY <2>4, <2>5, <2>6 DEF Place
  <2>8. \A x, y \in OnDisk' \ OnDisk : y = x
    BY <2>7
  <2>9. /\ segs[c] \in Lines(Len(log)) /\ Len(segs[c]) \in Nat
        /\ Complete(segs[c]) \in Nat /\ Complete(segs[c]) <= Len(segs[c])
    BY <1>2, <1>6, LineFacts DEF Segments
  <2>10. ASSUME NEW x \in OnDisk' \ OnDisk
         PROVE  x[3] \in late' \/ \A o \in JournalOffset : Within(o) => ~ Passed(o, x)
    <3>1. CASE c # Today
      BY <2>7, <3>1 DEF WriteEntry
    <3>2. CASE c = Today
      <4>1. ASSUME NEW o \in JournalOffset, Within(o), Passed(o, x) PROVE FALSE
        <5>1. o.segment \in Int /\ o.line \in Nat /\ c \in Nat
          BY <1>2, <1>6 DEF JournalOffset, Day, Segments
        <5>2. o.segment = c /\ x[2] <= o.line
          BY <2>7, <3>2, <4>1, <5>1 DEF Within, Passed
        <5>3. o.line <= Complete(segs[c])
          BY <3>2, <4>1, <5>2 DEF Within
        <5> QED BY <2>7, <2>9, <5>1, <5>2, <5>3
      <4> QED BY <4>1
    <3> QED BY <3>1, <3>2
  <2>11. \A d \in DOMAIN segs : d \in DOMAIN segs' /\ Complete(segs[d]) <= Complete(segs'[d])
    <3>1. \A d \in DOMAIN segs : Complete(segs[d]) \in Nat
      BY <1>2, LineFacts DEF Segments
    <3> QED BY <2>3, <3>1 DEF Extends, OneMore, Grows
  <2>12. Today <= Today' /\ \A o \in JournalOffset : Within(o) => Within(o)'
    <3>1. now <= now'
      BY <1>1, <1>4 DEF DiskTypeOK
    <3> QED BY <2>11, <3>1, OffsetsKept
  <2>13. Kept
    BY <1>3, <1>4, <2>7, <2>10, <2>12 DEF Kept
  <2> QED BY <1>6, <2>7, <2>8, <2>11, <2>13
<1> QED BY <1>5, <1>6

LEMMA CleanupKept ==
  ASSUME TypeOK, TypeOK', DiskOK, NEW p \in Process, CleanupJournalSegments(p)
  PROVE  Kept /\ OnDisk' \subseteq OnDisk
<1>1. DiskTypeOK /\ DiskTypeOK'
  BY TypeParts, PTL
<1>2. /\ Len(log) \in Nat /\ Segments(segs, Len(log)) /\ Segments(segs', Len(log))
  BY <1>1, LogFacts DEF DiskTypeOK, CleanupJournalSegments
<1>3. UNCHANGED <<now, log, late, seen>>
  BY DEF CleanupJournalSegments
<1>4. PICK gone \in SUBSET {d \in DOMAIN segs : Expendable(d)} :
        /\ \A d \in gone, e \in DOMAIN segs : e < d => e \in gone
        /\ segs' = [d \in DOMAIN segs \ gone |-> segs[d]]
  BY DEF CleanupJournalSegments
<1>5. \A x : x \in OnDisk <=> Place(segs, x)
  BY OnDiskIs
<1>6. (TypeOK => \A x : x \in OnDisk <=> Place(segs, x))'
  BY OnDiskIs, PTL
<1>7. \A x : x \in OnDisk' <=> x \in OnDisk /\ x[1] \notin gone
  BY <1>4, <1>5, <1>6 DEF Place
<1>8. ASSUME NEW x \in OnDisk, NEW y \in OnDisk, x \in OnDisk', x[1] <= y[1]
      PROVE  y \in OnDisk'
  <2>1. x[1] \in DOMAIN segs /\ y[1] \in DOMAIN segs /\ x[1] \in Nat /\ y[1] \in Nat
    BY <1>2, <1>5, PlaceFacts
  <2> QED BY <1>4, <1>7, <1>8, <2>1
<1>9. Today <= Today' /\ \A o \in JournalOffset : Within(o) => Within(o)'
  <2>1. now <= now' /\ Today \in Nat
    BY <1>1, <1>3, TodayIsADay DEF DiskTypeOK, Today, Day
  <2>2. ASSUME Today \in DOMAIN segs
        PROVE  Today \in DOMAIN segs' /\ Complete(segs[Today]) <= Complete(segs'[Today])
    <3>1. ~ Expendable(Today)
      BY <1>2, <2>1 DEF DiskOK, Expendable, Segments, Day
    <3>2. Complete(segs[Today]) \in Nat
      BY <1>2, <2>2, LineFacts DEF Segments
    <3> QED BY <1>4, <2>2, <3>1, <3>2
  <2> QED BY <2>1, <2>2, OffsetsKept
<1> QED BY <1>3, <1>7, <1>8, <1>9 DEF Kept

\* x is a complete line of a segment.
Located(x) ==
  /\ x[1] \in Day /\ x[2] \in Nat /\ x[3] \in DOMAIN log
  /\ x[1] \in DOMAIN segs /\ x[2] <= Complete(segs[x[1]])

AllLocated == \A x \in OnDisk : Located(x)

LEMMA DiskPlaces == TypeOK => AllLocated
<1> USE DEF AllLocated
<1> SUFFICES ASSUME TypeOK, NEW x \in OnDisk PROVE Located(x)
  OBVIOUS
<1>1. DiskTypeOK
  BY TypeParts
<1>2. Len(log) \in Nat /\ DOMAIN log = 1 .. Len(log) /\ Segments(segs, Len(log))
  BY <1>1, LogFacts DEF DiskTypeOK
<1>3. Place(segs, x)
  BY OnDiskIs
<1>4. x[1] \in DOMAIN segs /\ x[2] \in Nat /\ x[3] \in 1 .. Len(log) /\ x[2] <= Complete(segs[x[1]])
  BY <1>2, <1>3, PlaceFacts
<1> QED BY <1>2, <1>4 DEF Segments, Located

LEMMA ScanKept ==
  ASSUME TypeOK, TypeOK', Kept, NEW p \in Process, ScanOK(p),
         from'[p] = from[p], todo'[p] = todo[p], batch'[p] = batch[p], next'[p] = next[p],
         pc'[p] # "read" => todo[p] = {}, pc'[p] = "list" => batch[p] = {}
  PROVE  ScanOK(p)'
<1>1. /\ from[p] \in JournalOffset /\ next[p] \in JournalOffset
      /\ todo[p] \subseteq Day /\ Day \subseteq Nat
  BY TypeParts DEF PassTypeOK, Day
<1>2. Today \in Nat /\ Today' \in Nat
  <2>1. Today \in Day /\ Today' \in Day
    BY TodayIsADay DEF TypeOK, Today
  <2> QED BY <2>1 DEF Day
<1>3. /\ Within(from[p])' /\ Within(next[p])'
      /\ \A d \in todo'[p] : from'[p].segment <= d /\ d <= Today'
  <2>1. Within(from[p]) /\ Within(next[p])
    BY DEF ScanOK
  <2>2. \A d \in todo[p] : d <= Today /\ d \in Nat /\ Today <= Today'
    BY <1>1 DEF Kept, ScanOK
  <2>3. \A o \in JournalOffset : Within(o) => Within(o)'
    BY DEF Kept
  <2>4. Within(from[p])'
    BY <1>1, <2>1, <2>3 DEF Within
  <2>5. Within(next[p])'
    BY <1>1, <2>1, <2>3 DEF Within
  <2>6. ASSUME NEW d \in todo'[p] PROVE from'[p].segment <= d /\ d <= Today'
    BY <1>2, <2>2 DEF ScanOK
  <2> QED BY <2>4, <2>5, <2>6
<1>4. ASSUME NEW x \in OnDisk', x \in OnDisk
      PROVE  /\ Passed(from'[p], x) => x[3] \in seen' \union late'
             /\ Passed(next'[p], x) => Covered(p, x)'
             /\ \A d \in todo'[p] : x[1] < d /\ x[1] \notin todo'[p] => Covered(p, x)'
  <2>1. Covered(p, x) => Covered(p, x)'
    BY DEF Covered, Kept
  <2> QED BY <1>4, <2>1 DEF ScanOK, Kept
<1>5. ASSUME NEW x \in OnDisk', x \notin OnDisk
      PROVE  /\ Passed(from'[p], x) => x[3] \in late'
             /\ Passed(next'[p], x) => x[3] \in late'
             /\ \A d \in todo'[p] : x[1] < d /\ x[1] \notin todo'[p] => x[3] \in late'
  <2>1. SUFFICES ASSUME x[3] \notin late'
                 PROVE  /\ ~ Passed(from[p], x) /\ ~ Passed(next[p], x)
                        /\ \A d \in todo[p] : ~ (x[1] < d)
    OBVIOUS
  <2>2. \A o \in JournalOffset : Within(o) => ~ Passed(o, x)
    BY <1>5, <2>1 DEF Kept
  <2>3. ~ Passed(from[p], x) /\ ~ Passed(next[p], x)
    BY <1>1, <2>2 DEF ScanOK
  <2>4. ASSUME NEW d \in todo[p], x[1] < d PROVE FALSE
    <3>1. AllLocated'
      BY DiskPlaces, PTL
    <3>2. x[1] \in Nat /\ x[1] \in Day /\ x[2] \in Nat
      BY <1>1, <1>5, <3>1 DEF AllLocated, Located
    <3> DEFINE o == [segment |-> x[1], line |-> x[2]]
    <3>3. o \in JournalOffset
      BY <3>2 DEF JournalOffset
    <3>4. x[1] < Today
      <4>1. d \in Nat /\ d <= Today
        BY <1>1 DEF ScanOK
      <4> QED BY <1>2, <2>4, <3>2, <4>1
    <3>5. Within(o) /\ Passed(o, x)
      BY <1>2, <3>2, <3>4 DEF Within, Passed
    <3> QED BY <2>2, <3>3, <3>5
  <2> QED BY <2>3, <2>4
<1>6. ASSUME NEW x \in OnDisk'
      PROVE  /\ Passed(from'[p], x) => x[3] \in seen' \union late'
             /\ Passed(next'[p], x) => Covered(p, x)'
             /\ \A d \in todo'[p] : x[1] < d /\ x[1] \notin todo'[p] => Covered(p, x)'
  <2>1. x[3] \in late' => Covered(p, x)'
    BY DEF Covered
  <2> QED BY <1>4, <1>5, <2>1
<1> QED BY <1>3, <1>6 DEF ScanOK

LEMMA BatchKept ==
  ASSUME TypeOK, TypeOK', Kept, NEW p \in Process, BatchOK(p),
         \A q \in Process : WriterOK(q),
         from'[p] = from[p], todo'[p] = todo[p], batch'[p] = batch[p], next'[p] = next[p]
  PROVE  BatchOK(p)'
<1>1. ASSUME NEW x \in batch[p], NEW y \in OnDisk' \ OnDisk PROVE x[3] # y[3]
  <2>1. PICK q \in Process : pc[q] = "write" /\ y[3] = mine[q]
    BY DEF Kept
  <2>2. mine[q] \notin EntriesOf(batch[p])
    BY <2>1 DEF WriterOK, Writes
  <2> QED BY <2>1, <2>2 DEF EntriesOf
<1>2. \A x \in batch[p], y \in OnDisk' : x[3] = y[3] => x = y
  BY <1>1 DEF BatchOK
<1>3. ASSUME NEW x \in batch[p], NEW y \in batch[p], x \in OnDisk', x[1] <= y[1]
      PROVE  y \in OnDisk'
  <2>1. x \in OnDisk
    BY <1>1, <1>3
  <2>2. y \in OnDisk
    BY <1>3, <2>1 DEF BatchOK
  <2> QED BY <1>3, <2>1, <2>2 DEF Kept
<1>4. \A x \in batch[p] :
        /\ Passed(next[p], x) /\ ~ Passed(from[p], x)
        /\ \A d \in todo[p] : x[1] < d
  BY DEF BatchOK
<1> QED BY <1>2, <1>3, <1>4 DEF BatchOK

LEMMA CorrectsKept ==
  ASSUME TypeOK, TypeOK', DiskOK, Kept, NEW x \in OnDisk, NEW y \in OnDisk, x \in OnDisk',
         Corrects(y, x, late)
  PROVE  y \in OnDisk' /\ Corrects(y, x, late)'
<1>1. AllLocated
  BY DiskPlaces
<1>2. AllLocated'
  BY DiskPlaces, PTL
<1>3. /\ x[1] \in Nat /\ y[1] \in Nat /\ x[2] \in Nat /\ y[2] \in Nat
      /\ y[1] \in Day /\ x[3] \in DOMAIN log /\ y[3] \in DOMAIN log
  BY <1>1 DEF AllLocated, Located, Day
<1>4. y \in OnDisk'
  <2>1. x[1] <= y[1]
    BY <1>3 DEF Corrects, Precedes
  <2> QED BY <2>1 DEF Kept
<1>5. log'[x[3]] = log[x[3]] /\ log'[y[3]] = log[y[3]]
  BY <1>3 DEF Kept
<1>6. ASSUME NEW z \in OnDisk', Precedes(x, z), Precedes(z, y), SameCommand(x, z)'
      PROVE  z[3] \in late'
  <2>1. CASE z \in OnDisk
    <3>1. log'[z[3]] = log[z[3]]
      BY <1>1, <2>1 DEF AllLocated, Located, Kept
    <3>2. SameCommand(x, z)
      BY <1>5, <1>6, <3>1 DEF SameCommand
    <3> QED BY <1>6, <2>1, <3>2 DEF Corrects, Kept
  <2>2. CASE z \notin OnDisk
    <3> DEFINE o == [segment |-> y[1], line |-> y[2]]
    <3>1. o \in JournalOffset
      BY <1>3 DEF JournalOffset
    <3>2. Within(o)
      BY <1>1 DEF Within, DiskOK, AllLocated, Located
    <3>3. z[1] \in Nat /\ z[2] \in Nat
      BY <1>2 DEF AllLocated, Located, Day
    <3>4. Passed(o, z)
      BY <1>3, <1>6, <3>3 DEF Passed, Precedes
    <3> QED BY <2>2, <3>1, <3>2, <3>4 DEF Kept
  <2> QED BY <2>1, <2>2
<1>7. Corrects(y, x, late)'
  BY <1>5, <1>6 DEF Corrects, SameCommand, InTime
<1> QED BY <1>4, <1>7

LEMMA PairsKept ==
  ASSUME TypeOK, TypeOK', DiskOK, Kept, NEW p \in Process, PairsOK(p), pairs'[p] \subseteq pairs[p],
         \A q \in Process : WriterOK(q)
  PROVE  PairsOK(p)'
<1> SUFFICES ASSUME NEW x \in OnDisk', x[3] \in pairs[p]
             PROVE  \E y \in OnDisk' : Corrects(y, x, late)'
  BY DEF PairsOK
<1>1. x \in OnDisk
  <2>1. SUFFICES ASSUME x \notin OnDisk PROVE FALSE
    OBVIOUS
  <2>2. PICK q \in Process : pc[q] = "write" /\ x[3] = mine[q]
    BY <2>1 DEF Kept
  <2> QED BY <2>2 DEF WriterOK, Writes
<1>2. PICK y \in OnDisk : Corrects(y, x, late)
  BY <1>1 DEF PairsOK
<1> QED BY <1>1, <1>2, CorrectsKept

LEMMA SightingsKept ==
  ASSUME TypeOK, TypeOK', DiskOK, Kept, OnlyCorrections, \A q \in Process : WriterOK(q) /\ PairsOK(q),
         \A i \in EntryNo : counted'[i] > 0 =>
           counted[i] > 0 \/ \E q \in Process : i \in pairs[q]
  PROVE  OnlyCorrections'
<1> SUFFICES ASSUME NEW x \in OnDisk', counted'[x[3]] > 0
             PROVE  \E y \in OnDisk' : Corrects(y, x, late)'
  BY DEF OnlyCorrections
<1>0. x[3] \in EntryNo
  <2>1. AllLocated' /\ DiskTypeOK'
    BY DiskPlaces, TypeParts, PTL
  <2> QED BY <2>1, LogFacts, LearnJournalAssumption DEF AllLocated, Located, DiskTypeOK, EntryNo
<1>1. x \in OnDisk
  <2>1. SUFFICES ASSUME x \notin OnDisk PROVE FALSE
    OBVIOUS
  <2>2. PICK q \in Process : pc[q] = "write" /\ x[3] = mine[q]
    BY <2>1 DEF Kept
  <2> QED BY <1>0, <2>2 DEF WriterOK, Writes
<1>2. PICK y \in OnDisk : Corrects(y, x, late)
  BY <1>0, <1>1 DEF OnlyCorrections, PairsOK
<1> QED BY <1>1, <1>2, CorrectsKept

LEMMA PrefixKept ==
  ASSUME TypeOK, Kept, Within(offset), PrefixConsumed, offset' = offset
  PROVE  Within(offset)' /\ PrefixConsumed'
<1>1. offset \in JournalOffset
  BY DEF TypeOK
<1>2. Within(offset)'
  BY <1>1 DEF Kept, Within
<1>3. PrefixConsumed'
  BY <1>1 DEF Kept, PrefixConsumed, BeforeOffset, Passed
<1> QED BY <1>2, <1>3

LEMMA WritersKept ==
  ASSUME TypeOK, TypeOK', Kept, \A q \in Process : WriterOK(q),
         \A i \in EntryNo : counted'[i] # 0 =>
           counted[i] # 0 \/ \E q \in Process : i \in pairs[q],
         \A q \in Process : EntriesOf(batch'[q]) \union pairs'[q] \subseteq
                              EntriesOf(batch[q]) \union pairs[q] \union EntriesOf(OnDisk),
         \A q \in Process : Writes(q)' =>
           Writes(q) /\ mine'[q] = mine[q] /\ day'[q] = day[q],
         \A q \in Process, x \in OnDisk' \ OnDisk : Writes(q)' => x[3] # mine[q]
  PROVE  \A q \in Process : WriterOK(q)'
<1> SUFFICES ASSUME NEW q \in Process, Writes(q)'
             PROVE  /\ mine'[q] \in DOMAIN log' /\ day'[q] <= Today'
                    /\ \A x \in OnDisk' : x[3] # mine'[q]
                    /\ counted'[mine'[q]] = 0
                    /\ \A r \in Process : mine'[q] \notin EntriesOf(batch'[r]) \union pairs'[r]
                    /\ \A r \in Process \ {q} : Writes(r)' => mine'[r] # mine'[q]
  BY DEF WriterOK, EntriesOf
<1>1. Writes(q) /\ mine'[q] = mine[q] /\ day'[q] = day[q]
  OBVIOUS
<1>2. /\ mine[q] \in DOMAIN log /\ day[q] <= Today
      /\ \A x \in OnDisk : x[3] # mine[q]
      /\ counted[mine[q]] = 0
      /\ \A r \in Process : mine[q] \notin EntriesOf(batch[r]) \union pairs[r]
      /\ \A r \in Process \ {q} : Writes(r) => mine[r] # mine[q]
  BY <1>1 DEF WriterOK
<1>3. mine[q] \in EntryNo
  <2>1. DiskTypeOK
    BY TypeParts
  <2> QED BY <1>2, <2>1, LogFacts, LearnJournalAssumption DEF DiskTypeOK, EntryNo
<1>4. mine'[q] \in DOMAIN log' /\ day'[q] <= Today'
  <2>1. day[q] \in Nat /\ Today \in Nat /\ Today' \in Nat
    <3>1. Today \in Day /\ Today' \in Day
      BY TodayIsADay DEF TypeOK, Today
    <3> QED BY <3>1 DEF TypeOK, Day
  <2> QED BY <1>1, <1>2, <2>1 DEF Kept
<1>5. \A x \in OnDisk' : x[3] # mine'[q]
  BY <1>1, <1>2
<1>6. counted'[mine'[q]] = 0
  BY <1>1, <1>2, <1>3
<1>7. \A r \in Process : mine'[q] \notin EntriesOf(batch'[r]) \union pairs'[r]
  <2>1. mine[q] \notin EntriesOf(OnDisk)
    BY <1>2 DEF EntriesOf
  <2> QED BY <1>1, <1>2, <2>1
<1>8. \A r \in Process \ {q} : Writes(r)' => mine'[r] # mine'[q]
  BY <1>1, <1>2
<1> QED BY <1>4, <1>5, <1>6, <1>7, <1>8

LEMMA PassEnded ==
  ASSUME TypeOK, TypeOK', NEW p \in Process, EndPass(p)
  PROVE  ScanOK(p)' /\ BatchOK(p)' /\ PairsOK(p)'
<1>1. /\ from'[p] = ZeroOffset /\ next'[p] = ZeroOffset /\ todo'[p] = {} /\ batch'[p] = {}
      /\ pairs'[p] = {} /\ pc'[p] = "idle"
  BY DEF EndPass, Goto, TypeOK
<1>2. Today' \in Nat
  BY TodayIsADay DEF TypeOK, Today, Day
<1>3. AllLocated'
  BY DiskPlaces, PTL
<1>4. \A x \in OnDisk' : ~ Passed(ZeroOffset, x)
  BY <1>3 DEF AllLocated, Located, Passed, ZeroOffset, Day
<1>5. Within(ZeroOffset)'
  BY <1>2 DEF Within, ZeroOffset
<1>6. Within(from[p])' /\ Within(next[p])'
  BY <1>1, <1>5 DEF Within
<1> QED BY <1>1, <1>4, <1>6 DEF ScanOK, BatchOK, PairsOK

LEMMA DiskKept ==
  ASSUME TypeOK, TypeOK', Kept, DiskOK, \A q \in Process : WriterOK(q),
         \A d \in DOMAIN segs' : d \in DOMAIN segs \/ d <= Today,
         \A x, y \in OnDisk' \ OnDisk : x = y,
         \A i \in EntryNo : counted'[i] # 0 =>
           counted[i] # 0 \/ \E q \in Process : i \in pairs[q]
  PROVE  DiskOK'
<1>1. ASSUME NEW d \in DOMAIN segs' PROVE d <= Today'
  <2>1. Today \in Nat /\ Today' \in Nat
    <3>1. Today \in Day /\ Today' \in Day
      BY TodayIsADay DEF TypeOK, Today
    <3> QED BY <3>1 DEF Day
  <2>2. d <= Today /\ d \in Nat
    BY DEF DiskOK, TypeOK, Day
  <2> QED BY <2>1, <2>2 DEF Kept
<1>2. ASSUME NEW x \in OnDisk', NEW y \in OnDisk', x[3] = y[3] PROVE x = y
  <2>1. ASSUME NEW a \in OnDisk' \ OnDisk, NEW b \in OnDisk PROVE a[3] # b[3]
    <3>1. PICK q \in Process : pc[q] = "write" /\ a[3] = mine[q]
      BY <2>1 DEF Kept
    <3> QED BY <3>1 DEF WriterOK, Writes
  <2>2. CASE x \in OnDisk /\ y \in OnDisk
    BY <1>2, <2>2 DEF DiskOK
  <2> QED BY <1>2, <2>1, <2>2
<1>3. ASSUME NEW i \in EntryNo \ DOMAIN log' PROVE counted'[i] = 0
  <2>1. i \notin DOMAIN log
    BY DEF Kept
  <2>2. \A q \in Process : i \notin pairs[q]
    BY <2>1 DEF TypeOK
  <2> QED BY <2>1, <2>2 DEF DiskOK
<1> QED BY <1>1, <1>2, <1>3 DEF DiskOK

LEMMA ReadEntries ==
  ASSUME TypeOK, NEW o \in JournalOffset, NEW d \in DOMAIN segs, o.segment <= d
  PROVE  /\ \A x : x \in EntriesFrom(o, d) <=> x \in OnDisk /\ x[1] = d /\ ~ Passed(o, x)
         /\ \A x \in OnDisk : x[1] = d => x[2] <= LineAfter(o, d)
         /\ d <= Today /\ Within(o) => Within([segment |-> d, line |-> LineAfter(o, d)])
<1>1. DiskTypeOK
  BY TypeParts
<1>2. /\ Len(log) \in Nat /\ DOMAIN log = 1 .. Len(log) /\ Segments(segs, Len(log))
      /\ segs[d] \in Lines(Len(log)) /\ d \in Nat
  BY <1>1, LogFacts DEF DiskTypeOK, Segments, Day
<1>3. /\ Len(segs[d]) \in Nat /\ Complete(segs[d]) \in Nat /\ Complete(segs[d]) <= Len(segs[d])
      /\ \A n \in 1 .. Len(segs[d]) :
           /\ segs[d][n] \in {Torn, Junk} \union 1 .. Len(log)
           /\ segs[d][n] \in Int /\ (segs[d][n] >= 1 => n <= Complete(segs[d]))
  BY <1>2, LineFacts
<1>4. o.segment \in Int /\ o.line \in Nat
  BY DEF JournalOffset, Day
<1>5. /\ Consumed(o, d) \in Nat
      /\ d # o.segment => Consumed(o, d) = 0
      /\ d = o.segment => /\ Consumed(o, d) <= o.line
                          /\ Consumed(o, d) = o.line \/ Consumed(o, d) = Len(segs[d])
  BY <1>3, <1>4 DEF Consumed
<1>6. /\ LineAfter(o, d) \in Nat /\ Complete(segs[d]) <= LineAfter(o, d)
      /\ LineAfter(o, d) = Complete(segs[d]) \/ LineAfter(o, d) = Consumed(o, d)
  BY <1>3, <1>5 DEF LineAfter
<1>7. ASSUME NEW x PROVE x \in EntriesFrom(o, d) <=> x \in OnDisk /\ x[1] = d /\ ~ Passed(o, x)
  <2>0. x \in OnDisk <=> Place(segs, x)
    BY OnDiskIs
  <2>1. ASSUME x \in EntriesFrom(o, d) PROVE x \in OnDisk /\ x[1] = d /\ ~ Passed(o, x)
    <3>1. PICK n \in Consumed(o, d) + 1 .. Complete(segs[d]) :
            segs[d][n] \in DOMAIN log /\ x = <<d, n, segs[d][n]>>
      BY <2>1 DEF EntriesFrom
    <3>2. n \in 1 .. Len(segs[d]) /\ n > Consumed(o, d)
      BY <1>3, <1>5, <3>1
    <3>3. Place(segs, x) /\ x[1] = d /\ x[2] = n
      BY <1>2, <3>1, <3>2 DEF Place
    <3>4. ~ Passed(o, x)
      BY <1>2, <1>3, <1>4, <1>5, <3>2, <3>3 DEF Passed
    <3> QED BY <2>0, <3>3, <3>4
  <2>2. ASSUME x \in OnDisk, x[1] = d, ~ Passed(o, x) PROVE x \in EntriesFrom(o, d)
    <3>1. /\ x = <<d, x[2], segs[d][x[2]]>> /\ x[2] \in 1 .. Len(segs[d])
          /\ segs[d][x[2]] >= 1
      BY <2>0, <2>2 DEF Place
    <3>2. segs[d][x[2]] \in DOMAIN log
      BY <1>2, <1>3, <3>1 DEF Torn, Junk
    <3>3. x[2] > Consumed(o, d) /\ x[2] <= Complete(segs[d])
      BY <1>2, <1>3, <1>4, <1>5, <2>2, <3>1 DEF Passed
    <3>4. x[2] \in Consumed(o, d) + 1 .. Complete(segs[d])
      BY <1>3, <1>5, <3>1, <3>3
    <3> QED BY <3>1, <3>2, <3>4 DEF EntriesFrom
  <2> QED BY <2>1, <2>2
<1>8. ASSUME NEW x \in OnDisk, x[1] = d PROVE x[2] <= LineAfter(o, d)
  <2>1. AllLocated
    BY DiskPlaces
  <2> QED BY <1>3, <1>6, <1>8, <2>1 DEF AllLocated, Located
<1>9. ASSUME d <= Today, Within(o) PROVE Within([segment |-> d, line |-> LineAfter(o, d)])
  BY <1>3, <1>4, <1>5, <1>6, <1>9 DEF Within
<1> QED BY <1>7, <1>8, <1>9

-----------------------------------------------------------------------------
(* The steps of a pass                                                     *)

LEMMA LoadOK ==
  ASSUME TypeOK, TypeOK', JournalInv, NEW p \in Process, LoadJournalOffset(p)
  PROVE  ScanOK(p)' /\ BatchOK(p)'
<1>1. /\ from'[p] = offset /\ next'[p] = offset /\ batch'[p] = {} /\ pc'[p] = "list"
      /\ todo'[p] = todo[p] /\ pc[p] = "load"
  BY DEF LoadJournalOffset, Goto, TypeOK
<1>2. todo[p] = {}
  BY <1>1 DEF JournalInv, ScanOK
<1>3. UNCHANGED <<now, log, segs, seen, late, offset>>
  BY DEF LoadJournalOffset
<1>4. OnDisk' = OnDisk
  BY <1>3 DEF OnDisk
<1>5. Within(offset)' /\ Within(from[p])' /\ Within(next[p])'
  BY <1>1, <1>3 DEF JournalInv, Within, Today
<1>6. ASSUME NEW x \in OnDisk', Passed(from'[p], x)
      PROVE  x[3] \in seen' \union late' /\ Covered(p, x)'
  BY <1>1, <1>3, <1>4, <1>6 DEF JournalInv, PrefixConsumed, BeforeOffset, Passed, Covered
<1>7. ScanOK(p)'
  BY <1>1, <1>2, <1>5, <1>6 DEF ScanOK
<1>8. BatchOK(p)'
  BY <1>1 DEF BatchOK
<1> QED BY <1>7, <1>8

LEMMA ListOK ==
  ASSUME TypeOK, TypeOK', JournalInv, NEW p \in Process, ListJournalSegments(p)
  PROVE  ScanOK(p)' /\ BatchOK(p)'
<1>1. /\ from'[p] = from[p] /\ next'[p] = next[p] /\ batch'[p] = batch[p] /\ pc'[p] = "read"
      /\ todo'[p] = {d \in DOMAIN segs : d >= from[p].segment} /\ pc[p] = "list"
  BY DEF ListJournalSegments, Goto, TypeOK
<1>2. batch[p] = {} /\ ScanOK(p) /\ DiskOK
  BY <1>1 DEF JournalInv, ScanOK
<1>3. UNCHANGED <<now, log, segs, seen, late>>
  BY DEF ListJournalSegments
<1>4. OnDisk' = OnDisk /\ Today' = Today
  BY <1>3 DEF OnDisk, Today
<1>5. Within(from[p])' /\ Within(next[p])'
  BY <1>1, <1>2, <1>3, <1>4 DEF ScanOK, Within
<1>6. from[p].segment \in Int /\ DOMAIN segs \subseteq Nat
  BY DEF TypeOK, JournalOffset, Day
<1>7. \A d \in todo'[p] : from'[p].segment <= d /\ d <= Today'
  BY <1>1, <1>2, <1>4, <1>6 DEF DiskOK
<1>8. ASSUME NEW x \in OnDisk'
      PROVE  /\ Passed(from'[p], x) => x[3] \in seen' \union late'
             /\ Passed(next'[p], x) => Covered(p, x)'
             /\ x[1] \notin todo'[p] => Covered(p, x)'
  <2>1. x[1] \in DOMAIN segs
    BY <1>4, DiskPlaces DEF AllLocated, Located
  <2>2. x[1] \notin todo'[p] => Passed(from[p], x)
    BY <1>1, <1>6, <2>1 DEF Passed
  <2> QED BY <1>1, <1>2, <1>3, <1>4, <2>2 DEF ScanOK, Covered
<1>9. ScanOK(p)'
  BY <1>1, <1>5, <1>7, <1>8 DEF ScanOK
<1>10. BatchOK(p)'
  BY <1>1, <1>2 DEF BatchOK
<1> QED BY <1>9, <1>10

LEMMA ReadOK ==
  ASSUME TypeOK, TypeOK', JournalInv, NEW p \in Process, ReadSegment(p)
  PROVE  ScanOK(p)' /\ BatchOK(p)'
<1> DEFINE d == Oldest(p)
           o == from[p]
<1>1. /\ pc[p] = "read" /\ pc' = pc /\ from' = from /\ todo'[p] = todo[p] \ {d}
      /\ UNCHANGED <<now, log, segs, seen, late>>
  BY ReadIs DEF TypeOK
<1>2. d \in todo[p] /\ (\A e \in todo[p] : d <= e) /\ todo[p] \subseteq Nat
  <2>1. todo[p] # {}
    BY ReadIs
  <2>2. d \in todo[p] /\ \A e \in todo[p] : d <= e
    BY <2>1, OldestIs
  <2>3. todo[p] \subseteq Nat
    BY TypeParts DEF PassTypeOK, Day
  <2> QED BY <2>2, <2>3
<1>3. ScanOK(p) /\ BatchOK(p) /\ DiskOK
  BY DEF JournalInv
<1>4. OnDisk' = OnDisk /\ Today' = Today
  BY <1>1 DEF OnDisk, Today
<1>5. AllLocated
  BY DiskPlaces
<1>6. o \in JournalOffset /\ o.segment <= d /\ d <= Today /\ o.segment \in Int
  BY <1>2, <1>3 DEF ScanOK, TypeOK, JournalOffset, Day
<1>7. /\ \A e \in todo'[p] : d < e /\ e \in todo[p]
      /\ Within(from[p])'
      /\ \A e \in todo'[p] : from'[p].segment <= e /\ e <= Today'
  <2>1. \A e \in todo'[p] : d < e /\ e \in todo[p]
    BY <1>1, <1>2
  <2>2. Within(from[p])'
    BY <1>1, <1>3, <1>4 DEF ScanOK, Within
  <2>3. \A e \in todo'[p] : from'[p].segment <= e /\ e <= Today'
    BY <1>1, <1>3, <1>4, <2>1 DEF ScanOK
  <2> QED BY <2>1, <2>2, <2>3
<1>8. CASE d \notin DOMAIN segs
  <2>1. batch' = batch /\ next' = next
    BY <1>8, ReadIs
  <2>2. Within(next[p])'
    BY <1>1, <1>3, <1>4, <2>1 DEF ScanOK, Within
  <2>3. \A x \in OnDisk : x[1] # d
    BY <1>5, <1>8 DEF AllLocated, Located
  <2>4. \A x : Covered(p, x)' <=> Covered(p, x)
    BY <1>1, <2>1 DEF Covered
  <2>5. ScanOK(p)'
    BY <1>1, <1>3, <1>4, <1>7, <2>1, <2>2, <2>3, <2>4 DEF ScanOK
  <2>6. BatchOK(p)'
    BY <1>1, <1>3, <1>4, <1>7, <2>1 DEF BatchOK
  <2> QED BY <2>5, <2>6
<1>9. CASE d \in DOMAIN segs
  <2> DEFINE n == [segment |-> d, line |-> LineAfter(o, d)]
  <2>1. batch'[p] = batch[p] \union EntriesFrom(o, d) /\ next'[p] = n
    BY <1>9, ReadIs DEF TypeOK
  <2>2. /\ \A x : x \in EntriesFrom(o, d) <=> x \in OnDisk /\ x[1] = d /\ ~ Passed(o, x)
        /\ \A x \in OnDisk : x[1] = d => x[2] <= LineAfter(o, d)
        /\ Within(n)
    BY <1>3, <1>6, <1>9, ReadEntries DEF ScanOK
  <2>3. Within(next[p])'
    BY <1>1, <1>4, <2>1, <2>2 DEF Within
  <2>4. \A x \in OnDisk : x[1] \in Nat /\ x[2] \in Nat
    BY <1>5 DEF AllLocated, Located, Day
  <2>5. \A x : Covered(p, x) => Covered(p, x)'
    BY <1>1, <2>1 DEF Covered
  <2>6. \A x \in OnDisk : x[1] = d => Covered(p, x)'
    BY <1>1, <2>1, <2>2 DEF Covered
  <2>7. ASSUME NEW x \in OnDisk, Passed(n, x) PROVE Covered(p, x)'
    <3>1. CASE x[1] < d
      BY <1>2, <1>3, <2>4, <2>5, <3>1 DEF ScanOK
    <3>2. CASE x[1] = d
      BY <2>6, <3>2
    <3> QED BY <2>7, <3>1, <3>2 DEF Passed
  <2>8. ASSUME NEW x \in OnDisk, NEW e \in todo'[p], x[1] < e, x[1] \notin todo'[p]
        PROVE  Covered(p, x)'
    BY <1>1, <1>3, <1>7, <2>5, <2>6, <2>8 DEF ScanOK
  <2>9. ScanOK(p)'
    <3>1. \A x \in OnDisk' : Passed(from'[p], x) => x[3] \in seen' \union late'
      BY <1>1, <1>3, <1>4 DEF ScanOK
    <3> QED BY <1>1, <1>4, <1>7, <2>1, <2>3, <2>7, <2>8, <3>1 DEF ScanOK
  <2>10. ASSUME NEW x \in batch'[p]
         PROVE  /\ Passed(next'[p], x) /\ ~ Passed(from'[p], x)
                /\ \A e \in todo'[p] : x[1] < e
    <3>1. CASE x \in batch[p]
      <4>1. x[1] < d /\ ~ Passed(from[p], x) /\ \A e \in todo[p] : x[1] < e
        BY <1>2, <1>3, <3>1 DEF BatchOK
      <4> QED BY <1>1, <1>7, <2>1, <4>1 DEF Passed
    <3>2. CASE x \in EntriesFrom(o, d)
      BY <1>1, <1>7, <2>1, <2>2, <3>2 DEF Passed
    <3> QED BY <2>1, <3>1, <3>2
  <2>11. \A x \in batch'[p], y \in OnDisk' : x[3] = y[3] => x = y
    BY <1>3, <1>4, <2>1, <2>2 DEF BatchOK, DiskOK
  <2>12. ASSUME NEW x \in batch'[p], NEW y \in batch'[p], x \in OnDisk', x[1] <= y[1]
         PROVE  y \in OnDisk'
    <3>1. CASE y \in EntriesFrom(o, d)
      BY <1>4, <2>2, <3>1
    <3>2. CASE x \in batch[p] /\ y \in batch[p]
      BY <1>3, <1>4, <2>12, <3>2 DEF BatchOK
    <3>3. CASE x \in EntriesFrom(o, d) /\ y \in batch[p]
      <4>1. x[1] = d /\ y[1] < d /\ y[1] \in Nat /\ d \in Nat
        BY <1>2, <1>3, <2>2, <3>3 DEF BatchOK, TypeOK, Day
      <4> QED BY <2>12, <4>1
    <3> QED BY <2>1, <3>1, <3>2, <3>3
  <2>13. BatchOK(p)'
    BY <2>10, <2>11, <2>12 DEF BatchOK
  <2> QED BY <2>9, <2>13
<1> QED BY <1>8, <1>9

\* The corrections of a whole scan are corrections on disk.
LEMMA CorrectionsCorrect ==
  ASSUME TypeOK, NEW p \in Process, ScanOK(p), BatchOK(p), NEW x \in OnDisk,
         x[3] \in Corrections(batch[p])
  PROVE  \E y \in OnDisk : Corrects(y, x, late)
<1>1. PICK t \in batch[p] :
        /\ t[3] = x[3] /\ log[t[3]].kind = "failed"
        /\ \E y \in batch[p] : IsNext(batch[p], t, y) /\ log[y[3]].kind = "fixed" /\ InTime(t, y)
  BY DEF Corrections, EntriesOf
<1>2. PICK y \in batch[p] :
        IsNext(batch[p], t, y) /\ log[y[3]].kind = "fixed" /\ InTime(t, y)
  BY <1>1
<1>3. t = x
  BY <1>1 DEF BatchOK
<1>4. AllLocated
  BY DiskPlaces
<1>5. /\ x[1] \in Nat /\ x[2] \in Nat /\ y[1] \in Nat /\ y[2] \in Nat
  <2>1. batch[p] \subseteq Day \X Nat \X DOMAIN log
    BY DEF TypeOK
  <2>2. y \in Day \X Nat \X DOMAIN log
    BY <2>1
  <2> QED BY <1>4, <2>2 DEF AllLocated, Located, Day
<1>6. y \in OnDisk
  <2>1. x[1] <= y[1]
    BY <1>2, <1>3, <1>5 DEF IsNext, Precedes
  <2> QED BY <1>3, <2>1 DEF BatchOK
<1>7. /\ from[p].segment \in Int /\ from[p].line \in Nat
      /\ next[p].segment \in Int /\ next[p].line \in Nat
  <2>1. from[p] \in JournalOffset /\ next[p] \in JournalOffset
    BY DEF TypeOK
  <2> QED BY <2>1 DEF JournalOffset, Day
<1>8. ASSUME NEW z \in OnDisk, Precedes(x, z), Precedes(z, y), SameCommand(x, z)
      PROVE  z[3] \in late
  <2>1. z[1] \in Nat /\ z[2] \in Nat
    BY <1>4 DEF AllLocated, Located, Day
  <2>2. Passed(next[p], z)
    <3>1. Passed(next[p], y)
      BY DEF BatchOK
    <3> QED BY <1>5, <1>7, <1>8, <2>1, <3>1 DEF Passed, Precedes
  <2>3. Covered(p, z)
    BY <2>2 DEF ScanOK
  <2>4. ~ Passed(from[p], z)
    <3>1. ~ Passed(from[p], x)
      BY <1>3 DEF BatchOK
    <3> QED BY <1>5, <1>7, <1>8, <2>1, <3>1 DEF Passed, Precedes
  <2>5. z \notin batch[p]
    BY <1>2, <1>3, <1>8 DEF IsNext
  <2> QED BY <2>3, <2>4, <2>5 DEF Covered
<1>9. Corrects(y, x, late)
  BY <1>1, <1>2, <1>3, <1>8 DEF Corrects, IsNext
<1> QED BY <1>6, <1>9

LEMMA PairOK ==
  ASSUME TypeOK, TypeOK', JournalInv, NEW p \in Process, PairFlagCorrections(p)
  PROVE  PairsOK(p)'
<1>1. pairs'[p] = Corrections(batch[p])
  BY DEF PairFlagCorrections, TypeOK
<1>2. UNCHANGED <<log, segs, late>>
  BY DEF PairFlagCorrections
<1>3. OnDisk' = OnDisk
  BY <1>2 DEF OnDisk
<1>4. \A x \in OnDisk : x[3] \in Corrections(batch[p]) => \E y \in OnDisk : Corrects(y, x, late)
  BY CorrectionsCorrect DEF JournalInv
<1>5. \A x, y : Corrects(y, x, late)' <=> Corrects(y, x, late)
  BY <1>2, <1>3 DEF Corrects, SameCommand, InTime
<1> QED BY <1>1, <1>3, <1>4, <1>5 DEF PairsOK

LEMMA StoreOK ==
  ASSUME TypeOK, TypeOK', JournalInv, NEW p \in Process, StoreJournalOffset(p)
  PROVE  Within(offset)' /\ PrefixConsumed'
<1>1. /\ offset' = next[p] /\ seen' = seen \union EntriesOf(batch[p])
      /\ UNCHANGED <<now, log, segs, late>>
  BY DEF StoreJournalOffset
<1>2. OnDisk' = OnDisk /\ Today' = Today
  BY <1>1 DEF OnDisk, Today
<1>3. ScanOK(p)
  BY DEF JournalInv
<1>4. Within(offset)'
  BY <1>1, <1>2, <1>3 DEF ScanOK, Within
<1>5. ASSUME NEW x \in OnDisk, Passed(next[p], x)
      PROVE  x[3] \in seen \union EntriesOf(batch[p]) \union late
  BY <1>3, <1>5 DEF ScanOK, Covered, EntriesOf
<1>6. PrefixConsumed'
  BY <1>1, <1>2, <1>5 DEF PrefixConsumed, BeforeOffset, Passed
<1> QED BY <1>4, <1>6

-----------------------------------------------------------------------------
(* The invariant is inductive                                              *)

LEMMA JournalInit == Init => JournalInv
<1> SUFFICES ASSUME Init PROVE JournalInv
  OBVIOUS
<1>1. OnDisk = {} /\ DOMAIN segs = {}
  BY DEF Init, OnDisk
<1>2. Today \in Nat
  BY LearnJournalAssumption, TodayIsADay DEF Init, Today, Day
<1>3. Within(ZeroOffset)
  BY <1>2 DEF Within, ZeroOffset
<1>4. DiskOK /\ PrefixConsumed /\ OnlyCorrections
  BY <1>1 DEF Init, DiskOK, PrefixConsumed, OnlyCorrections
<1>5. \A p \in Process : WriterOK(p) /\ ScanOK(p) /\ BatchOK(p) /\ PairsOK(p)
  BY <1>1, <1>3 DEF Init, WriterOK, Writes, ScanOK, BatchOK, PairsOK
<1> QED BY <1>3, <1>4, <1>5 DEF JournalInv, Init

\* A process that the step leaves alone.
LEMMA ScansKept ==
  ASSUME TypeOK, TypeOK', JournalInv, Kept, NEW p \in Process,
         from'[p] = from[p], todo'[p] = todo[p], batch'[p] = batch[p], next'[p] = next[p],
         pairs'[p] = pairs[p],
         pc'[p] = pc[p] \/ (pc[p] # "read" /\ pc'[p] # "list")
  PROVE  ScanOK(p)' /\ BatchOK(p)' /\ PairsOK(p)'
<1>1. DiskOK /\ ScanOK(p) /\ BatchOK(p) /\ PairsOK(p) /\ \A q \in Process : WriterOK(q)
  BY DEF JournalInv
<1>2. (pc'[p] # "read" => todo[p] = {}) /\ (pc'[p] = "list" => batch[p] = {})
  BY <1>1 DEF ScanOK
<1>3. ScanOK(p)'
  BY <1>1, <1>2, ScanKept
<1>4. BatchOK(p)'
  BY <1>1, BatchKept
<1>5. PairsOK(p)'
  BY <1>1, PairsKept
<1> QED BY <1>3, <1>4, <1>5

\* A step that touches no pass: the writers' side of the invariant is left.
LEMMA QuietStep ==
  ASSUME TypeOK, TypeOK', JournalInv, Kept, UNCHANGED <<offset, counted, passVars>>,
         \A p \in Process : pc'[p] = pc[p] \/ (pc[p] # "read" /\ pc'[p] # "list"),
         \A d \in DOMAIN segs' : d \in DOMAIN segs \/ d <= Today,
         \A x, y \in OnDisk' \ OnDisk : x = y,
         \A p \in Process : WriterOK(p)'
  PROVE  JournalInv'
<1>1. /\ DiskOK /\ OnlyCorrections /\ PrefixConsumed /\ Within(offset)
      /\ \A p \in Process : WriterOK(p) /\ PairsOK(p)
  BY DEF JournalInv
<1>2. DiskOK'
  BY <1>1, DiskKept
<1>3. Within(offset)' /\ PrefixConsumed'
  BY <1>1, PrefixKept
<1>4. OnlyCorrections'
  BY <1>1, SightingsKept
<1>5. \A p \in Process : ScanOK(p)' /\ BatchOK(p)' /\ PairsOK(p)'
  BY ScansKept DEF passVars
<1> QED BY <1>2, <1>3, <1>4, <1>5 DEF JournalInv

LEMMA InvokeStep ==
  ASSUME TypeOK, TypeOK', JournalInv, NEW p \in Process, Invoke(p)
  PROVE  JournalInv'
<1>1. PICK key \in Key, kind \in Kind :
        log' = Append(log, [key |-> key, kind |-> kind, ts |-> now])
  BY DEF Invoke
<1>2. DiskTypeOK /\ DiskTypeOK'
  BY TypeParts, PTL
<1>3. [key |-> key, kind |-> kind, ts |-> now] \in JournalEntry
  BY <1>2 DEF JournalEntry, DiskTypeOK
<1>4. /\ Len(log) \in Nat /\ DOMAIN log = 1 .. Len(log) /\ DOMAIN log' = 1 .. Len(log) + 1
      /\ \A i \in DOMAIN log : i \in DOMAIN log' /\ log'[i] = log[i]
  BY <1>1, <1>2, <1>3, LogFacts DEF DiskTypeOK
<1>5. /\ UNCHANGED <<now, segs, offset, counted, seen, late, passVars>>
      /\ mine' = [mine EXCEPT ![p] = Len(log) + 1] /\ day' = [day EXCEPT ![p] = Today]
      /\ pc' = [pc EXCEPT ![p] = "repair"] /\ pc[p] = "idle"
  BY DEF Invoke, Goto
<1>6. now <= now' /\ Today' = Today /\ Today \in Nat
  BY <1>2, <1>5, TodayIsADay DEF DiskTypeOK, Today, Day
<1>7. OnDisk' = OnDisk /\ Kept
  BY <1>4, <1>5, <1>6, SegmentsAlone
<1>8. ASSUME NEW q \in Process PROVE WriterOK(q)'
  <2> DEFINE new == Len(log) + 1
  <2>1. new \in EntryNo \ DOMAIN log
    BY <1>2, <1>4, LearnJournalAssumption, LogFacts DEF DiskTypeOK, EntryNo
  <2>2. AllLocated
    BY DiskPlaces
  <2>3. /\ \A x \in OnDisk : x[3] # new
        /\ counted[new] = 0
        /\ \A r \in Process : new \notin EntriesOf(batch[r]) \union pairs[r]
    <3>1. \A x \in OnDisk : x[3] # new
      BY <2>1, <2>2 DEF AllLocated, Located
    <3>2. counted[new] = 0
      BY <2>1 DEF JournalInv, DiskOK
    <3>3. \A r \in Process : new \notin EntriesOf(batch[r]) \union pairs[r]
      BY <2>1 DEF TypeOK, EntriesOf
    <3> QED BY <3>1, <3>2, <3>3
  <2>4. \A r \in Process : WriterOK(r)
    BY DEF JournalInv
  <2>5. \A r \in Process : EntriesOf(batch'[r]) \union pairs'[r] = EntriesOf(batch[r]) \union pairs[r]
    BY <1>5 DEF passVars
  <2> HIDE DEF new
  <2>6. /\ mine'[p] = new /\ day'[p] = Today
        /\ \A r \in Process \ {p} : mine'[r] = mine[r] /\ day'[r] = day[r] /\ pc'[r] = pc[r]
    BY <1>5 DEF TypeOK, new
  <2>7. \A r \in Process \ {p} : Writes(r)' => Writes(r) /\ mine[r] # new
    BY <2>1, <2>4, <2>6 DEF Writes, WriterOK
  <2>8. CASE q = p
    <3>1. mine'[q] \in DOMAIN log' /\ day'[q] <= Today'
      BY <1>4, <1>6, <2>6, <2>8 DEF new
    <3>2. /\ \A x \in OnDisk' : x[3] # mine'[q]
          /\ counted'[mine'[q]] = 0
          /\ \A r \in Process : mine'[q] \notin EntriesOf(batch'[r]) \union pairs'[r]
      BY <1>5, <1>7, <2>3, <2>5, <2>6, <2>8
    <3>3. \A r \in Process \ {q} : Writes(r)' => mine'[r] # mine'[q]
      BY <2>6, <2>7, <2>8
    <3> QED BY <3>1, <3>2, <3>3 DEF WriterOK, EntriesOf
  <2>9. CASE q # p
    <3> SUFFICES ASSUME Writes(q)' PROVE WriterOK(q)'
      BY DEF WriterOK
    <3>1. /\ mine[q] \in DOMAIN log /\ day[q] <= Today
          /\ \A x \in OnDisk : x[3] # mine[q]
          /\ counted[mine[q]] = 0
          /\ \A r \in Process : mine[q] \notin EntriesOf(batch[r]) \union pairs[r]
          /\ \A r \in Process \ {q} : Writes(r) => mine[r] # mine[q]
      BY <2>4, <2>7, <2>9 DEF WriterOK
    <3>2. mine'[q] = mine[q] /\ day'[q] = day[q] /\ mine[q] # new
      BY <2>6, <2>7, <2>9
    <3>3. \A r \in Process \ {q} : Writes(r)' => mine'[r] # mine'[q]
      BY <2>6, <2>7, <3>1, <3>2
    <3>4. \A r \in Process : mine'[q] \notin EntriesOf(batch'[r]) \union pairs'[r]
      BY <2>5, <3>1, <3>2
    <3> QED BY <1>4, <1>5, <1>6, <1>7, <3>1, <3>2, <3>3, <3>4 DEF WriterOK, EntriesOf
  <2> QED BY <2>8, <2>9
<1>9. \A q \in Process : pc'[q] = pc[q] \/ (pc[q] # "read" /\ pc'[q] # "list")
  BY <1>5 DEF TypeOK
<1> QED BY <1>5, <1>7, <1>8, <1>9, QuietStep

Appends(p) ==
  \/ InvokeUnjournaled(p) \/ RepairJournalSegmentTail(p) \/ OpenSegment(p)
  \/ WriteEntry(p) \/ AppendFails(p) \/ CleanupJournalSegments(p)

\* What a writer does to the disk; only retention shortens it, from the oldest
\* segment on.
LEMMA AppendKept ==
  ASSUME TypeOK, TypeOK', DiskOK, NEW p \in Process, WriterOK(p), Appends(p)
  PROVE  /\ Kept
         /\ \A x \in OnDisk' \ OnDisk :
              /\ pc[p] = "write" /\ ~ Writes(p)' /\ day[p] \in DOMAIN segs
              /\ x[1] = day[p] /\ x[2] = Len(segs[day[p]]) + 1 /\ x[3] = mine[p]
              /\ \A y \in OnDisk' \ OnDisk : y = x
         /\ \A d \in DOMAIN segs' : d \in DOMAIN segs \/ (d = day[p] /\ Writes(p) /\ Writes(p)')
         /\ \A d \in DOMAIN segs : \/ d \in DOMAIN segs' /\ Complete(segs[d]) <= Complete(segs'[d])
                                   \/ ~ Writes(p) /\ \E e \in DOMAIN segs : e > d
<1>1. DiskTypeOK /\ DiskTypeOK'
  BY TypeParts, PTL
<1>2. Len(log) \in Nat /\ Segments(segs, Len(log))
  BY <1>1, LogFacts DEF DiskTypeOK
<1>3. \A d \in DOMAIN segs : Complete(segs[d]) <= Complete(segs[d])
  BY <1>2, LineFacts DEF Segments
<1>4. \A d \in DOMAIN segs : SameEntries(segs[d], segs[d])
  BY <1>2, GrowsReflexive DEF Segments
<1>5. CASE InvokeUnjournaled(p)
  <2>1. now <= now' /\ segs' = segs
    BY <1>1, <1>5 DEF InvokeUnjournaled, DiskTypeOK
  <2>2. OnDisk' = OnDisk /\ Kept
    BY <1>5, <2>1, SegmentsAlone DEF InvokeUnjournaled
  <2> QED BY <1>3, <2>1, <2>2
<1>6. CASE RepairJournalSegmentTail(p)
  <2>1. \A d \in DOMAIN segs : SameEntries(segs[d], Repaired(segs[d]))
    BY <1>2, RepairedLines DEF Segments
  <2>2. DOMAIN segs' = DOMAIN segs /\ \A d \in DOMAIN segs : SameEntries(segs[d], segs'[d])
    BY <1>4, <1>6, <2>1 DEF RepairJournalSegmentTail
  <2>3. OnDisk' = OnDisk /\ Kept
    BY <1>6, <2>2, EntriesAlone DEF RepairJournalSegmentTail
  <2> QED BY <2>2, <2>3 DEF SameEntries, Grows
<1>7. CASE OpenSegment(p)
  <2>1. /\ DOMAIN segs' = DOMAIN segs \union {day[p]}
        /\ \A d \in DOMAIN segs' :
             IF d \in DOMAIN segs THEN SameEntries(segs[d], segs'[d]) ELSE segs'[d] = <<>>
    BY <1>4, <1>7 DEF OpenSegment
  <2>2. OnDisk' = OnDisk /\ Kept
    BY <1>7, <2>1, EntriesAlone DEF OpenSegment
  <2>3. Writes(p) /\ Writes(p)'
    BY <1>7 DEF OpenSegment, Goto, Writes, TypeOK
  <2> QED BY <2>1, <2>2, <2>3 DEF SameEntries, Grows
<1>8. CASE WriteEntry(p)
  <2>1. DOMAIN segs' = DOMAIN segs /\ pc[p] = "write" /\ ~ Writes(p)'
    BY <1>8 DEF WriteEntry, Goto, Writes, TypeOK
  <2> QED BY <1>8, <2>1, WriteKept
<1>9. CASE AppendFails(p)
  <2>1. \A d \in DOMAIN segs : SameEntries(segs[d], WithTorn(segs[d]))
    BY <1>2, TornLines DEF Segments
  <2>2. DOMAIN segs' = DOMAIN segs /\ \A d \in DOMAIN segs : SameEntries(segs[d], segs'[d])
    BY <1>4, <1>9, <2>1 DEF AppendFails
  <2>3. OnDisk' = OnDisk /\ Kept
    BY <1>9, <2>2, EntriesAlone DEF AppendFails
  <2> QED BY <2>2, <2>3 DEF SameEntries, Grows
<1>10. CASE CleanupJournalSegments(p)
  <2>1. Kept /\ OnDisk' \subseteq OnDisk
    BY <1>10, CleanupKept
  <2>2. /\ DOMAIN segs' \subseteq DOMAIN segs /\ ~ Writes(p)
        /\ \A d \in DOMAIN segs : \/ d \in DOMAIN segs' /\ segs'[d] = segs[d]
                                  \/ \E e \in DOMAIN segs : e > d
    BY <1>10 DEF CleanupJournalSegments, Expendable, Writes
  <2> QED BY <1>3, <2>1, <2>2
<1> QED BY <1>5, <1>6, <1>7, <1>8, <1>9, <1>10 DEF Appends

\* The other steps of a writer: they leave counts and batches alone.
LEMMA AppendStep ==
  ASSUME TypeOK, TypeOK', JournalInv, NEW p \in Process, Appends(p)
  PROVE  JournalInv'
<1> USE DEF Appends
<1>3. DiskOK /\ WriterOK(p)
  BY DEF JournalInv
<1>4. UNCHANGED <<offset, counted, passVars, now, log, seen>>
  BY DEF InvokeUnjournaled, RepairJournalSegmentTail, OpenSegment, WriteEntry, AppendFails,
         CleanupJournalSegments
<1>5. /\ Kept
      /\ \A x, y \in OnDisk' \ OnDisk : x = y
      /\ \A x \in OnDisk' \ OnDisk : x[3] = mine[p] /\ pc[p] = "write" /\ ~ Writes(p)'
      /\ \A d \in DOMAIN segs' : d \in DOMAIN segs \/ d <= Today
  BY <1>3, AppendKept DEF WriterOK
<1>6. /\ \A q \in Process \ {p} : pc'[q] = pc[q] /\ mine'[q] = mine[q] /\ day'[q] = day[q]
      /\ pc[p] \in {"idle", "repair", "open", "write", "cleanup"}
      /\ pc'[p] \in {"open", "write", "cleanup", "load"}
      /\ Writes(p)' => Writes(p) /\ mine'[p] = mine[p] /\ day'[p] = day[p]
  BY DEF InvokeUnjournaled, RepairJournalSegmentTail, OpenSegment, WriteEntry, AppendFails,
         CleanupJournalSegments, EndAppend, Goto, TypeOK, Writes
<1>7. \A q \in Process : Writes(q)' => Writes(q) /\ mine'[q] = mine[q] /\ day'[q] = day[q]
  BY <1>6 DEF Writes
<1>8. \A q \in Process, x \in OnDisk' \ OnDisk : Writes(q)' => x[3] # mine[q]
  <2> SUFFICES ASSUME NEW q \in Process, NEW x \in OnDisk' \ OnDisk, Writes(q)'
               PROVE  x[3] # mine[q]
    OBVIOUS
  <2>1. q # p /\ x[3] = mine[p] /\ Writes(p) /\ Writes(q)
    BY <1>5, <1>7 DEF Writes
  <2> QED BY <2>1 DEF JournalInv, WriterOK
<1>9. \A q \in Process : WriterOK(q)'
  <2>1. \A q \in Process : WriterOK(q)
    BY DEF JournalInv
  <2>2. \A q \in Process : EntriesOf(batch'[q]) \union pairs'[q] = EntriesOf(batch[q]) \union pairs[q]
    BY <1>4 DEF passVars
  <2> QED BY <1>4, <1>5, <1>7, <1>8, <2>1, <2>2, WritersKept
<1>10. \A q \in Process : pc'[q] = pc[q] \/ (pc[q] # "read" /\ pc'[q] # "list")
  BY <1>6
<1> QED BY <1>4, <1>5, <1>9, <1>10, QuietStep

LEMMA ClockStep ==
  ASSUME TypeOK, TypeOK', JournalInv, Tick \/ UNCHANGED vars
  PROVE  JournalInv'
<1>1. /\ UNCHANGED <<log, segs, offset, counted, seen, late, pc, mine, day, passVars>>
      /\ now <= now'
  BY DEF Tick, vars, passVars, TypeOK
<1>2. OnDisk' = OnDisk /\ Kept
  BY <1>1, SegmentsAlone
<1>3. \A q \in Process : WriterOK(q)'
  <2>1. \A q \in Process : WriterOK(q)
    BY DEF JournalInv
  <2>2. \A q \in Process : EntriesOf(batch'[q]) \union pairs'[q] = EntriesOf(batch[q]) \union pairs[q]
    BY <1>1 DEF passVars
  <2> QED BY <1>1, <1>2, <2>1, <2>2, WritersKept DEF Writes
<1>4. \A d \in DOMAIN segs' : d \in DOMAIN segs \/ d <= Today
  BY <1>1
<1> QED BY <1>1, <1>2, <1>3, <1>4, QuietStep

PassStep(p) == Pass(p) \/ Kill(p)

\* What no step of a pass touches, and what it does to its own process.
LEMMA PassFrame ==
  ASSUME TypeOK, NEW p \in Process, PassStep(p)
  PROVE  /\ UNCHANGED <<now, log, segs, late>> /\ seen \subseteq seen'
         /\ \A q \in Process \ {p} :
              /\ pc'[q] = pc[q] /\ mine'[q] = mine[q] /\ day'[q] = day[q]
              /\ from'[q] = from[q] /\ todo'[q] = todo[q] /\ batch'[q] = batch[q]
              /\ next'[q] = next[q] /\ pairs'[q] = pairs[q]
         /\ ~ Writes(p)'
<1>1. CASE EndPass(p) /\ (SkipPass(p) \/ HoldBatch(p) \/ StoreJournalOffset(p) \/ PassFails(p) \/ Kill(p))
  BY <1>1 DEF EndPass, EndAppend, Goto, SkipPass, HoldBatch, StoreJournalOffset, PassFails, Kill,
              Writes, TypeOK
<1>2. CASE LoadJournalOffset(p) \/ ListJournalSegments(p) \/ PairFlagCorrections(p) \/ DeriveCandidate(p)
  BY <1>2 DEF Goto, LoadJournalOffset, ListJournalSegments, PairFlagCorrections, DeriveCandidate,
              Writes, TypeOK
<1>3. CASE ReadSegment(p)
  BY <1>3, ReadIs DEF Writes, TypeOK
<1> QED
  BY <1>1, <1>2, <1>3 DEF PassStep, Pass, SkipPass, HoldBatch, StoreJournalOffset, PassFails, Kill

LEMMA PassOwn ==
  ASSUME TypeOK, TypeOK', JournalInv, NEW p \in Process, PassStep(p), Kept
  PROVE  ScanOK(p)' /\ BatchOK(p)' /\ PairsOK(p)'
<1>0. DiskOK /\ ScanOK(p) /\ BatchOK(p) /\ PairsOK(p) /\ \A q \in Process : WriterOK(q)
  BY DEF JournalInv
<1>1. CASE EndPass(p)
  BY <1>1, PassEnded
<1>2. CASE LoadJournalOffset(p)
  <2>1. pairs'[p] \subseteq pairs[p]
    BY <1>2 DEF LoadJournalOffset
  <2> QED BY <1>0, <1>2, <2>1, LoadOK, PairsKept
<1>3. CASE ListJournalSegments(p)
  <2>1. pairs'[p] \subseteq pairs[p]
    BY <1>3 DEF ListJournalSegments
  <2> QED BY <1>0, <1>3, <2>1, ListOK, PairsKept
<1>4. CASE ReadSegment(p)
  <2>1. pairs'[p] \subseteq pairs[p]
    BY <1>4, ReadIs
  <2> QED BY <1>0, <1>4, <2>1, ReadOK, PairsKept
<1>5. CASE PairFlagCorrections(p)
  <2>1. /\ from'[p] = from[p] /\ todo'[p] = todo[p] /\ batch'[p] = batch[p] /\ next'[p] = next[p]
        /\ todo[p] = {} /\ pc'[p] = "derive"
    BY <1>5 DEF PairFlagCorrections, Goto, TypeOK
  <2> QED BY <1>0, <1>5, <2>1, PairOK, ScanKept, BatchKept
<1>6. CASE DeriveCandidate(p)
  <2>1. /\ from'[p] = from[p] /\ todo'[p] = todo[p] /\ batch'[p] = batch[p] /\ next'[p] = next[p]
        /\ pc'[p] = pc[p] /\ pairs'[p] \subseteq pairs[p]
    BY <1>6 DEF DeriveCandidate, TypeOK
  <2>2. (pc'[p] # "read" => todo[p] = {}) /\ (pc'[p] = "list" => batch[p] = {})
    BY <1>0, <2>1 DEF ScanOK
  <2> QED BY <1>0, <2>1, <2>2, ScanKept, BatchKept, PairsKept
<1> QED
  BY <1>1, <1>2, <1>3, <1>4, <1>5, <1>6
     DEF PassStep, Pass, SkipPass, HoldBatch, StoreJournalOffset, PassFails, Kill

LEMMA ReadOnDisk ==
  ASSUME NEW o, NEW d \in DOMAIN segs, NEW x \in EntriesFrom(o, d), TypeOK, o \in JournalOffset
  PROVE  x \in OnDisk
<1>1. PICK n \in Consumed(o, d) + 1 .. Complete(segs[d]) :
        segs[d][n] \in DOMAIN log /\ x = <<d, n, segs[d][n]>>
  BY DEF EntriesFrom
<1>2. Consumed(o, d) \in Nat
  BY ReadLines
<1>3. DiskTypeOK /\ Len(log) \in Nat /\ DOMAIN log = 1 .. Len(log)
  BY TypeParts, LogFacts DEF DiskTypeOK
<1>4. segs[d] \in Lines(Len(log))
  BY <1>3 DEF DiskTypeOK, Segments
<1>5. Len(segs[d]) \in Nat /\ Complete(segs[d]) \in Nat /\ Complete(segs[d]) <= Len(segs[d])
  BY <1>3, <1>4, LineFacts
<1>6. n \in 1 .. Len(segs[d]) /\ segs[d][n] >= 1
  BY <1>1, <1>2, <1>3, <1>5
<1>7. Place(segs, x)
  BY <1>1, <1>6 DEF Place
<1> QED BY <1>7, OnDiskIs

\* Only the recording of a pair counts, and a batch holds what is on disk.
LEMMA PassCounts ==
  ASSUME TypeOK, NEW p \in Process, PassStep(p)
  PROVE  /\ \A i \in EntryNo : counted'[i] # counted[i] => i \in pairs[p]
         /\ EntriesOf(batch'[p]) \union pairs'[p] \subseteq
              EntriesOf(batch[p]) \union pairs[p] \union EntriesOf(OnDisk)
<1>1. CASE EndPass(p) /\ UNCHANGED counted
  BY <1>1 DEF EndPass, EntriesOf, TypeOK
<1>2. CASE LoadJournalOffset(p) \/ ListJournalSegments(p)
  BY <1>2 DEF LoadJournalOffset, ListJournalSegments, EntriesOf, TypeOK
<1>3. CASE ReadSegment(p)
  <2>1. counted' = counted /\ pairs'[p] = pairs[p]
    BY <1>3, ReadIs
  <2>2. ASSUME NEW x \in batch'[p], x \notin batch[p] PROVE x \in OnDisk
    <3> DEFINE d == Oldest(p)
    <3>1. d \in DOMAIN segs /\ x \in EntriesFrom(from[p], d)
      BY <1>3, <2>2, ReadIs DEF TypeOK
    <3>2. from[p] \in JournalOffset
      BY DEF TypeOK
    <3> QED BY <3>1, <3>2, ReadOnDisk
  <2> QED BY <2>1, <2>2 DEF EntriesOf
<1>4. CASE PairFlagCorrections(p)
  BY <1>4 DEF PairFlagCorrections, Corrections, EntriesOf, TypeOK
<1>5. CASE DeriveCandidate(p)
  BY <1>5 DEF DeriveCandidate, EntriesOf, TypeOK
<1> QED
  BY <1>1, <1>2, <1>3, <1>4, <1>5
     DEF PassStep, Pass, SkipPass, HoldBatch, StoreJournalOffset, PassFails, Kill

LEMMA PassInvStep ==
  ASSUME TypeOK, TypeOK', JournalInv, NEW p \in Process, PassStep(p)
  PROVE  JournalInv'
<1>1. /\ UNCHANGED <<now, log, segs, late>> /\ seen \subseteq seen' /\ now <= now'
      /\ \A q \in Process \ {p} :
           /\ pc'[q] = pc[q] /\ mine'[q] = mine[q] /\ day'[q] = day[q]
           /\ from'[q] = from[q] /\ todo'[q] = todo[q] /\ batch'[q] = batch[q]
           /\ next'[q] = next[q] /\ pairs'[q] = pairs[q]
      /\ ~ Writes(p)'
  BY PassFrame DEF TypeOK
<1>2. OnDisk' = OnDisk /\ Kept
  BY <1>1, SegmentsAlone
<1>3. /\ \A i \in EntryNo : counted'[i] # counted[i] => i \in pairs[p]
      /\ EntriesOf(batch'[p]) \union pairs'[p] \subseteq
           EntriesOf(batch[p]) \union pairs[p] \union EntriesOf(OnDisk)
  BY PassCounts
<1>4. ASSUME NEW q \in Process PROVE ScanOK(q)' /\ BatchOK(q)' /\ PairsOK(q)'
  <2>1. CASE q = p
    BY <1>2, <2>1, PassOwn
  <2>2. CASE q # p
    BY <1>1, <1>2, <2>2, ScansKept
  <2> QED BY <2>1, <2>2
<1>5. DiskOK /\ OnlyCorrections /\ \A q \in Process : WriterOK(q) /\ PairsOK(q)
  BY DEF JournalInv
<1>6. \A q \in Process : WriterOK(q)'
  <2>1. \A q \in Process : Writes(q)' => Writes(q) /\ mine'[q] = mine[q] /\ day'[q] = day[q]
    BY <1>1 DEF Writes
  <2>2. \A q \in Process : EntriesOf(batch'[q]) \union pairs'[q] \subseteq
          EntriesOf(batch[q]) \union pairs[q] \union EntriesOf(OnDisk)
    BY <1>1, <1>3
  <2> QED BY <1>2, <1>3, <1>5, <2>1, <2>2, WritersKept
<1>7. DiskOK'
  BY <1>1, <1>2, <1>3, <1>5, DiskKept
<1>8. OnlyCorrections'
  BY <1>2, <1>3, <1>5, SightingsKept
<1>9. Within(offset)' /\ PrefixConsumed'
  <2>1. CASE offset' = offset
    BY <1>2, <2>1, PrefixKept DEF JournalInv
  <2>2. CASE StoreJournalOffset(p)
    BY <2>2, StoreOK
  <2> QED
    BY <2>1, <2>2 DEF PassStep, Pass, Kill, SkipPass, LoadJournalOffset, ListJournalSegments,
                      ReadSegment, HoldBatch, PairFlagCorrections, DeriveCandidate, PassFails
<1> QED BY <1>4, <1>6, <1>7, <1>8, <1>9 DEF JournalInv

LEMMA JournalStep ==
  TypeOK /\ JournalInv /\ TypeOK' /\ [Next]_vars => JournalInv'
<1> SUFFICES ASSUME TypeOK, JournalInv, TypeOK', [Next]_vars PROVE JournalInv'
  OBVIOUS
<1>1. CASE Tick \/ UNCHANGED vars
  BY <1>1, ClockStep
<1>2. ASSUME NEW p \in Process, Journal(p) PROVE JournalInv'
  BY <1>2, InvokeStep, AppendStep DEF Journal, Appends
<1>3. ASSUME NEW p \in Process, Pass(p) \/ Kill(p) PROVE JournalInv'
  BY <1>3, PassInvStep DEF PassStep
<1> QED BY <1>1, <1>2, <1>3 DEF Next

LEMMA JournalInvariant == Spec => []JournalInv
<1>1. TypeOK /\ JournalInv /\ TypeOK' /\ [Next]_vars => JournalInv'
  BY JournalStep
<1> QED BY <1>1, JournalInit, JournalTypeOK, PTL DEF Spec

\* The stored offset marks a consumed prefix: whatever processes run at once,
\* fail, die or move the offset back, and however the clock passes midnight and
\* old segments go, no entry before it was in no batch of a finished pass, but
\* one that was written after the day of its segment.
THEOREM OffsetMarksConsumed == Spec => []PrefixConsumed
<1>1. JournalInv => PrefixConsumed
  BY DEF JournalInv
<1> QED BY <1>1, JournalInvariant, PTL

\* A sighting is only ever recorded for a failure that the next invocation of
\* its command corrected in time.
THEOREM SightingsAreCorrections == Spec => []OnlyCorrections
<1>1. JournalInv => OnlyCorrections
  BY DEF JournalInv
<1> QED BY <1>1, JournalInvariant, PTL

-----------------------------------------------------------------------------
(* Invocations that do not overlap                                         *)

\* The last day that p may still write to, and an offset that it cannot slip under.
Horizon(p) == IF Writes(p) THEN day[p] ELSE Today
Reaches(o, d) ==
  /\ o.segment <= d
  /\ o.segment = d => d \in DOMAIN segs /\ o.line <= Complete(segs[d])

InPass(p) == pc[p] \in {"list", "read", "derive"}

\* The one process is ahead of the disk and of the offset.
AheadOK(p) ==
  /\ \A d \in DOMAIN segs : d <= Horizon(p)
  /\ Reaches(offset, Horizon(p))
  /\ Writes(p) => mine[p] \notin seen

\* A pass reads all that lies after the offset, and nothing moves meanwhile.
WholeOK(p) ==
  /\ InPass(p) => from[p] = offset
  /\ ~ InPass(p) => from[p] = ZeroOffset /\ next[p] = ZeroOffset /\ batch[p] = {}
  /\ pc[p] = "list" => next[p] = from[p]
  /\ pc[p] # "derive" => pairs[p] = {}
  /\ batch[p] \subseteq OnDisk
  /\ \A d \in todo[p] : next[p].segment <= d
  /\ \A x \in OnDisk : Passed(next[p], x) => x \in batch[p] \/ Passed(from[p], x)
  /\ \A x \in OnDisk : Passed(from[p], x) => Passed(next[p], x)
  /\ pc[p] \in {"read", "derive"} => \A x \in OnDisk : x[1] \notin todo[p] => Passed(next[p], x)

\* What is consumed lies before the offset: it is not read again.
SeenOK == \A x \in OnDisk : x[3] \in seen => Passed(offset, x)

\* The entries whose next sighting would be a second one.
Sighted(p) == seen \union (IF pc[p] = "derive" THEN EntriesOf(batch[p]) \ pairs[p] ELSE {})
CountOK(p) ==
  /\ pairs[p] \subseteq Corrections(batch[p])
  /\ \A i \in EntryNo : counted[i] <= aborts + (IF i \in Sighted(p) THEN 1 ELSE 0)
  /\ pc[p] = "derive" => \A i \in Corrections(batch[p]) \ pairs[p] : counted[i] > 0

\* x is a failure with no invocation of its command on disk that offset o passed.
Waits(o, x) ==
  /\ log[x[3]].kind = "failed"
  /\ ~ \E z \in OnDisk : Passed(o, z) /\ Precedes(x, z) /\ SameCommand(x, z)

\* No failure that was given up still has a correction to come.
GivenUpOK(p) ==
  /\ \A x \in OnDisk : Passed(offset, x) /\ Waits(offset, x) =>
       /\ now - log[x[3]].ts > Window
       /\ \A y \in OnDisk : ~ Passed(offset, y) => log[y[3]].ts - log[x[3]].ts > Window
       /\ Writes(p) => log[mine[p]].ts - log[x[3]].ts > Window
  /\ pc[p] = "derive" => \A x \in OnDisk : Waits(next[p], x) => now - log[x[3]].ts > Window

AloneInv ==
  /\ SeenOK
  /\ CorrectionsCounted
  /\ \A p \in Process : AheadOK(p) /\ WholeOK(p) /\ CountOK(p) /\ GivenUpOK(p)

LEMMA HorizonIs ==
  ASSUME TypeOK, NEW p \in Process, WriterOK(p)
  PROVE  /\ Horizon(p) \in Nat /\ Today \in Nat /\ Horizon(p) <= Today
         /\ DOMAIN segs \subseteq Nat /\ offset.segment \in Int /\ offset.line \in Nat
         /\ \A d \in DOMAIN segs : /\ Complete(segs[d]) \in Nat /\ Len(segs[d]) \in Nat
                                   /\ Complete(segs[d]) <= Len(segs[d])
<1>1. Today \in Day /\ day[p] \in Day /\ Day \subseteq Nat
  BY TodayIsADay DEF TypeOK, Today, Day
<1>2. Horizon(p) \in Nat /\ Today \in Nat /\ Horizon(p) <= Today
  <2>1. Writes(p) => day[p] <= Today
    BY DEF WriterOK
  <2>2. Today \in Nat /\ day[p] \in Nat
    BY <1>1
  <2> QED BY <2>1, <2>2 DEF Horizon
<1>3. DiskTypeOK /\ Len(log) \in Nat
  BY TypeParts, LogFacts DEF DiskTypeOK
<1>4. \A d \in DOMAIN segs : segs[d] \in Lines(Len(log))
  BY <1>3 DEF DiskTypeOK, Segments
<1>5. \A d \in DOMAIN segs : /\ Complete(segs[d]) \in Nat /\ Len(segs[d]) \in Nat
                             /\ Complete(segs[d]) <= Len(segs[d])
  BY <1>3, <1>4, LineFacts
<1>6. DOMAIN segs \subseteq Nat /\ offset.segment \in Int /\ offset.line \in Nat
  <2>1. offset \in JournalOffset /\ DOMAIN segs \subseteq Day
    BY <1>3 DEF DiskTypeOK, Segments
  <2> QED BY <1>1, <2>1 DEF JournalOffset, Day
<1> QED BY <1>2, <1>5, <1>6

\* The disk after a step of the one process that is not in a pass.
AloneKept(p) ==
  /\ \A x \in OnDisk' \ OnDisk :
       /\ x[3] = mine[p] /\ Writes(p) /\ ~ Passed(offset, x)
       /\ \A y \in OnDisk : ~ Precedes(x, y)
  /\ \A x, y \in OnDisk : x \in OnDisk' /\ x[1] <= y[1] => y \in OnDisk'
  /\ \A i \in DOMAIN log : i \in DOMAIN log' /\ log'[i] = log[i]
  /\ now <= now'

LEMMA AppendAlone ==
  ASSUME TypeOK, TypeOK', JournalInv, JournalInv', NEW p \in Process, AheadOK(p), Appends(p)
  PROVE  AloneKept(p) /\ AheadOK(p)'
<1>1. DiskOK /\ WriterOK(p) /\ WriterOK(p)'
  BY DEF JournalInv
<1>2. /\ Kept
      /\ \A x \in OnDisk' \ OnDisk :
           /\ pc[p] = "write" /\ ~ Writes(p)' /\ day[p] \in DOMAIN segs
           /\ x[1] = day[p] /\ x[2] = Len(segs[day[p]]) + 1 /\ x[3] = mine[p]
           /\ \A y \in OnDisk' \ OnDisk : y = x
      /\ \A d \in DOMAIN segs' : d \in DOMAIN segs \/ (d = day[p] /\ Writes(p) /\ Writes(p)')
      /\ \A d \in DOMAIN segs : \/ d \in DOMAIN segs' /\ Complete(segs[d]) <= Complete(segs'[d])
                                \/ ~ Writes(p) /\ \E e \in DOMAIN segs : e > d
  BY <1>1, AppendKept
<1>3. /\ Horizon(p) \in Nat /\ Today \in Nat /\ Horizon(p) <= Today
      /\ DOMAIN segs \subseteq Nat /\ offset.segment \in Int /\ offset.line \in Nat
      /\ \A d \in DOMAIN segs : /\ Complete(segs[d]) \in Nat /\ Len(segs[d]) \in Nat
                                /\ Complete(segs[d]) <= Len(segs[d])
  BY <1>1, HorizonIs
<1>4. UNCHANGED <<offset, now, log, seen>> /\ Today' = Today
  BY DEF Appends, InvokeUnjournaled, RepairJournalSegmentTail, OpenSegment, WriteEntry, AppendFails,
         CleanupJournalSegments, Today
<1>5. Writes(p)' => Writes(p) /\ mine'[p] = mine[p] /\ day'[p] = day[p]
  BY DEF Appends, InvokeUnjournaled, RepairJournalSegmentTail, OpenSegment, WriteEntry, AppendFails,
         CleanupJournalSegments, EndAppend, Goto, TypeOK, Writes
<1>6. AloneKept(p)
  <2>1. ASSUME NEW x \in OnDisk' \ OnDisk
        PROVE  /\ x[3] = mine[p] /\ Writes(p) /\ ~ Passed(offset, x)
               /\ \A y \in OnDisk : ~ Precedes(x, y)
    <3>1. /\ x[3] = mine[p] /\ Writes(p) /\ Horizon(p) = day[p] /\ day[p] \in DOMAIN segs
          /\ x[1] = day[p] /\ x[2] = Len(segs[day[p]]) + 1
      BY <1>2 DEF Writes, Horizon
    <3>2. ~ Passed(offset, x)
      BY <1>3, <3>1 DEF AheadOK, Reaches, Passed
    <3>3. ASSUME NEW y \in OnDisk, Precedes(x, y) PROVE FALSE
      <4>1. y[1] \in DOMAIN segs /\ y[2] \in Nat /\ y[2] <= Complete(segs[y[1]])
        BY DiskPlaces DEF AllLocated, Located
      <4>2. y[1] <= day[p] /\ y[1] \in Nat
        BY <1>3, <3>1, <4>1 DEF AheadOK
      <4> QED BY <1>3, <3>1, <3>3, <4>1, <4>2 DEF Precedes
    <3> QED BY <3>1, <3>2, <3>3
  <2>2. now <= now'
    BY <1>4 DEF TypeOK
  <2> QED BY <1>2, <2>1, <2>2 DEF AloneKept, Kept
<1>7. AheadOK(p)'
  <2> DEFINE h == Horizon(p)
             g == Horizon(p)'
  <2>1. h <= g /\ g \in Nat /\ (g = h \/ g = Today)
    BY <1>1, <1>3, <1>4, <1>5, HorizonIs DEF Horizon
  <2>2. \A d \in DOMAIN segs' : d <= g
    <3>1. \A d \in DOMAIN segs : d <= h
      BY DEF AheadOK
    <3>2. Writes(p) /\ Writes(p)' => g = day[p]
      BY <1>5 DEF Horizon
    <3> QED BY <1>2, <1>3, <2>1, <3>1, <3>2
  <2>3. Reaches(offset, Horizon(p))'
    <3>1. h \in DOMAIN segs => h \in DOMAIN segs' /\ Complete(segs[h]) <= Complete(segs'[h])
      BY <1>2, <1>3 DEF AheadOK
    <3>2. Reaches(offset, h)
      BY DEF AheadOK
    <3>3. h \in DOMAIN segs' => Complete(segs'[h]) \in Nat
      <4>1. (DiskTypeOK /\ Len(log) \in Nat)'
        <5>1. DiskTypeOK'
          BY TypeParts, PTL
        <5> QED BY <5>1, LogFacts DEF DiskTypeOK
      <4> QED BY <4>1, LineFacts DEF DiskTypeOK, Segments
    <3>4. CASE g = h
      <4>1. offset'.segment <= g
        BY <1>4, <3>2, <3>4 DEF Reaches
      <4>2. ASSUME offset'.segment = g PROVE g \in DOMAIN segs' /\ offset'.line <= Complete(segs'[g])
        <5>1. h \in DOMAIN segs /\ offset.line <= Complete(segs[h])
          BY <1>4, <3>2, <3>4, <4>2 DEF Reaches
        <5> QED BY <1>3, <1>4, <3>1, <3>3, <3>4, <5>1
      <4> QED BY <4>1, <4>2 DEF Reaches
    <3>5. CASE h < g
      BY <1>3, <1>4, <2>1, <3>2, <3>5 DEF Reaches
    <3> QED BY <1>3, <2>1, <3>4, <3>5
  <2>4. Writes(p)' => mine'[p] \notin seen'
    BY <1>4, <1>5 DEF AheadOK
  <2> QED BY <2>2, <2>3, <2>4 DEF AheadOK
<1> QED BY <1>6, <1>7

LEMMA DiskTimes ==
  ASSUME TypeOK
  PROVE  /\ \A x \in OnDisk : x[3] \in DOMAIN log /\ log[x[3]].ts \in Nat
         /\ now \in Nat /\ Window \in Nat
<1>1. log \in Seq(JournalEntry) /\ now \in Nat /\ Window \in Nat
  BY LearnJournalAssumption DEF TypeOK
<1>2. \A i \in DOMAIN log : log[i] \in JournalEntry
  BY <1>1, LogFacts
<1> QED BY <1>1, <1>2, DiskPlaces DEF AllLocated, Located, JournalEntry

\* What the one process does outside its pass, and the clock.
LEMMA OutsidePass ==
  ASSUME TypeOK, TypeOK', JournalInv, JournalInv', NEW p \in Process, AloneInv,
         AloneKept(p), AheadOK(p)',
         UNCHANGED <<offset, counted, seen, aborts, passVars>>,
         \/ pc'[p] = pc[p] /\ OnDisk' = OnDisk /\ log' = log
         \/ ~ InPass(p) /\ ~ InPass(p)',
         Writes(p)' => \/ Writes(p) /\ mine'[p] = mine[p]
                       \/ ~ Writes(p) /\ log'[mine'[p]].ts = now
  PROVE  /\ SeenOK' /\ CorrectionsCounted'
         /\ WholeOK(p)' /\ CountOK(p)' /\ GivenUpOK(p)'
<1>0. /\ from'[p] = from[p] /\ todo'[p] = todo[p] /\ batch'[p] = batch[p] /\ next'[p] = next[p]
      /\ pairs'[p] = pairs[p]
  BY DEF passVars
<1>1. /\ SeenOK /\ CorrectionsCounted
      /\ AheadOK(p) /\ WholeOK(p) /\ CountOK(p) /\ GivenUpOK(p) /\ ScanOK(p)' /\ WriterOK(p)
  BY DEF AloneInv, JournalInv
<1>2. \A x \in OnDisk' \ OnDisk :
        /\ x[3] = mine[p] /\ Writes(p) /\ ~ Passed(offset, x)
        /\ \A y \in OnDisk : ~ Precedes(x, y)
  BY DEF AloneKept
<1>3. \A x \in OnDisk : x[3] \in DOMAIN log /\ log'[x[3]] = log[x[3]] /\ log[x[3]].ts \in Nat
  BY DiskTimes DEF AloneKept
<1>4. \A x, y \in OnDisk : x \in OnDisk' /\ Precedes(x, y) => y \in OnDisk'
  <2>1. \A x \in OnDisk : x[1] \in Nat
    BY DiskPlaces DEF AllLocated, Located, Day
  <2> QED BY <2>1 DEF AloneKept, Precedes
<1>5. SeenOK'
  BY <1>1, <1>2 DEF SeenOK, AheadOK, Passed
<1>6. CorrectionsCounted'
  <2> SUFFICES ASSUME NEW x \in OnDisk', NEW y \in OnDisk', Passed(offset, y), Corrects(y, x, {})'
               PROVE  counted[x[3]] > 0
    BY DEF CorrectionsCounted, BeforeOffset, Passed
  <2>1. y \in OnDisk
    BY <1>2
  <2>2. x \in OnDisk
    BY <1>2, <2>1 DEF Corrects
  <2>3. ASSUME NEW z \in OnDisk, Precedes(x, z), Precedes(z, y), SameCommand(x, z) PROVE FALSE
    <3>1. z \in OnDisk' /\ SameCommand(x, z)'
      BY <1>3, <1>4, <2>2, <2>3 DEF SameCommand
    <3> QED BY <2>3, <3>1 DEF Corrects
  <2>4. Corrects(y, x, {})
    BY <1>3, <2>1, <2>2, <2>3 DEF Corrects, SameCommand, InTime
  <2> QED BY <1>1, <2>1, <2>2, <2>4 DEF CorrectionsCounted, BeforeOffset, Passed
<1>7. WholeOK(p)'
  <2>1. CASE pc'[p] = pc[p] /\ OnDisk' = OnDisk
    BY <1>0, <1>1, <2>1 DEF WholeOK, InPass, Passed
  <2>2. CASE ~ InPass(p) /\ ~ InPass(p)'
    <3>1. todo'[p] = {}
      BY <1>1, <2>2 DEF ScanOK, InPass
    <3> QED BY <1>0, <1>1, <2>2, <3>1 DEF WholeOK, InPass, Passed
  <2> QED BY <2>1, <2>2
<1>8. CountOK(p)'
  <2>1. CASE pc'[p] = pc[p] /\ log' = log
    <3>1. Corrections(batch[p])' = Corrections(batch[p])
      BY <1>0, <2>1 DEF Corrections, IsNext, SameCommand, InTime
    <3>2. Sighted(p)' = Sighted(p)
      BY <1>0, <2>1 DEF Sighted
    <3> QED BY <1>0, <1>1, <2>1, <3>1, <3>2 DEF CountOK
  <2>2. CASE ~ InPass(p) /\ ~ InPass(p)'
    <3>1. pairs'[p] = {} /\ Sighted(p)' = seen /\ Sighted(p) = seen /\ pc'[p] # "derive"
      BY <1>0, <1>1, <2>2 DEF WholeOK, InPass, Sighted
    <3> QED BY <1>1, <3>1 DEF CountOK
  <2> QED BY <2>1, <2>2
<1>9. GivenUpOK(p)'
  <2>0. now \in Nat /\ now' \in Nat /\ Window \in Nat /\ now <= now'
    <3>1. now' \in Nat
      BY DEF TypeOK
    <3> QED BY <3>1, DiskTimes DEF AloneKept
  <2>1. ASSUME NEW x \in OnDisk', Passed(offset, x), Waits(offset, x)'
        PROVE  /\ now' - log'[x[3]].ts > Window
               /\ \A y \in OnDisk' : ~ Passed(offset, y) => log'[y[3]].ts - log'[x[3]].ts > Window
               /\ Writes(p)' => log'[mine'[p]].ts - log'[x[3]].ts > Window
    <3>1. x \in OnDisk
      BY <1>2, <2>1
    <3>2. ASSUME NEW z \in OnDisk, Passed(offset, z), Precedes(x, z), SameCommand(x, z) PROVE FALSE
      <4>1. z \in OnDisk' /\ SameCommand(x, z)'
        BY <1>3, <1>4, <3>1, <3>2 DEF SameCommand
      <4> QED BY <2>1, <3>2, <4>1 DEF Waits, Passed
    <3>3. Waits(offset, x)
      BY <1>3, <2>1, <3>1, <3>2 DEF Waits
    <3>4. /\ now - log[x[3]].ts > Window
          /\ \A y \in OnDisk : ~ Passed(offset, y) => log[y[3]].ts - log[x[3]].ts > Window
          /\ Writes(p) => log[mine[p]].ts - log[x[3]].ts > Window
      BY <1>1, <2>1, <3>1, <3>3 DEF GivenUpOK
    <3>5. Writes(p) => mine[p] \in DOMAIN log /\ log'[mine[p]] = log[mine[p]]
      BY <1>1 DEF WriterOK, AloneKept
    <3>6. log'[x[3]].ts = log[x[3]].ts /\ log[x[3]].ts \in Nat
      BY <1>3, <3>1
    <3>7. now' - log'[x[3]].ts > Window
      BY <2>0, <3>4, <3>6
    <3>8. ASSUME NEW y \in OnDisk', ~ Passed(offset, y)
          PROVE  log'[y[3]].ts - log'[x[3]].ts > Window
      BY <1>2, <1>3, <3>4, <3>5, <3>6, <3>8
    <3>9. Writes(p)' => log'[mine'[p]].ts - log'[x[3]].ts > Window
      BY <3>4, <3>5, <3>6
    <3> QED BY <3>7, <3>8, <3>9
  <2>2. ASSUME pc'[p] = "derive", NEW x \in OnDisk', Waits(next[p], x)'
        PROVE  now' - log'[x[3]].ts > Window
    <3>1. pc[p] = "derive" /\ OnDisk' = OnDisk /\ log' = log
      BY <2>2 DEF InPass
    <3>2. Waits(next[p], x)
      BY <1>0, <2>2, <3>1 DEF Waits, SameCommand, Passed
    <3>3. now - log[x[3]].ts > Window
      BY <1>1, <2>2, <3>1, <3>2 DEF GivenUpOK
    <3> QED BY <1>3, <2>0, <2>2, <3>1, <3>3
  <2>3. \A x : Passed(offset, x)' <=> Passed(offset, x)
    BY DEF Passed
  <2> QED BY <2>1, <2>2, <2>3 DEF GivenUpOK
<1> QED BY <1>5, <1>6, <1>7, <1>8, <1>9

LEMMA OutsideStep ==
  ASSUME TypeOK, TypeOK', JournalInv, JournalInv', NEW p \in Process, AloneInv,
         Invoke(p) \/ Appends(p)
  PROVE  /\ SeenOK' /\ CorrectionsCounted'
         /\ AheadOK(p)' /\ WholeOK(p)' /\ CountOK(p)' /\ GivenUpOK(p)'
<1>1. AheadOK(p)
  BY DEF AloneInv
<1>2. UNCHANGED <<offset, counted, seen, aborts, passVars>>
  BY DEF Invoke, Appends, InvokeUnjournaled, RepairJournalSegmentTail, OpenSegment, WriteEntry,
         AppendFails, CleanupJournalSegments
<1>3. ~ InPass(p) /\ ~ InPass(p)'
  BY DEF Invoke, Appends, InvokeUnjournaled, RepairJournalSegmentTail, OpenSegment, WriteEntry,
         AppendFails, CleanupJournalSegments, Goto, InPass, TypeOK
<1>4. CASE Appends(p)
  <2>1. AloneKept(p) /\ AheadOK(p)'
    BY <1>1, <1>4, AppendAlone
  <2>2. Writes(p)' => Writes(p) /\ mine'[p] = mine[p]
    BY <1>4 DEF Appends, InvokeUnjournaled, RepairJournalSegmentTail, OpenSegment, WriteEntry,
                AppendFails, CleanupJournalSegments, EndAppend, Goto, TypeOK, Writes
  <2> QED BY <1>2, <1>3, <2>1, <2>2, OutsidePass
<1>5. CASE Invoke(p)
  <2>1. PICK key \in Key, kind \in Kind :
          log' = Append(log, [key |-> key, kind |-> kind, ts |-> now])
    BY <1>5 DEF Invoke
  <2>2. DiskTypeOK /\ now \in Nat
    BY TypeParts, DiskTimes
  <2>3. [key |-> key, kind |-> kind, ts |-> now] \in JournalEntry
    BY <2>2 DEF JournalEntry, DiskTypeOK
  <2>4. /\ Len(log) \in Nat /\ DOMAIN log = 1 .. Len(log)
        /\ \A i \in DOMAIN log : i \in DOMAIN log' /\ log'[i] = log[i]
        /\ log'[Len(log) + 1] = [key |-> key, kind |-> kind, ts |-> now]
    BY <2>1, <2>2, <2>3, LogFacts DEF DiskTypeOK
  <2>5. /\ UNCHANGED <<now, segs, late>> /\ now <= now'
        /\ mine'[p] = Len(log) + 1 /\ day'[p] = Today /\ ~ Writes(p) /\ Writes(p)'
    BY <1>5, <2>2 DEF Invoke, Goto, Writes, TypeOK
  <2>6. OnDisk' = OnDisk
    BY <1>2, <2>4, <2>5, SegmentsAlone
  <2>7. AloneKept(p)
    BY <2>4, <2>5, <2>6 DEF AloneKept
  <2>8. AheadOK(p)'
    <3>1. Horizon(p) = Today /\ Horizon(p)' = Today
      BY <2>5 DEF Horizon
    <3>2. mine'[p] \notin seen'
      <4>1. seen \subseteq DOMAIN log
        BY <2>2 DEF DiskTypeOK
      <4> QED BY <1>2, <2>4, <2>5, <4>1
    <3> QED BY <1>1, <1>2, <2>5, <3>1, <3>2 DEF AheadOK, Reaches
  <2>9. log'[mine'[p]].ts = now
    BY <2>4, <2>5
  <2> QED BY <1>2, <1>3, <2>5, <2>7, <2>8, <2>9, OutsidePass
<1> QED BY <1>4, <1>5

LEMMA TimePasses ==
  ASSUME TypeOK, TypeOK', JournalInv, JournalInv', NEW p \in Process, AloneInv,
         Tick \/ UNCHANGED vars
  PROVE  /\ SeenOK' /\ CorrectionsCounted'
         /\ AheadOK(p)' /\ WholeOK(p)' /\ CountOK(p)' /\ GivenUpOK(p)'
<1>1. AheadOK(p) /\ WriterOK(p)
  BY DEF AloneInv, JournalInv
<1>2. /\ UNCHANGED <<log, segs, offset, counted, seen, late, aborts, pc, mine, day, passVars>>
      /\ now <= now'
  BY DiskTimes DEF Tick, vars, passVars
<1>3. OnDisk' = OnDisk /\ Kept
  BY <1>2, SegmentsAlone
<1>4. AloneKept(p)
  BY <1>2, <1>3 DEF AloneKept
<1>5. AheadOK(p)'
  <2>1. Writes(p)' <=> Writes(p)
    BY <1>2 DEF Writes
  <2>2. CASE Writes(p)
    BY <1>1, <1>2, <2>1, <2>2 DEF AheadOK, Reaches, Horizon
  <2>3. CASE ~ Writes(p)
    <3>1. /\ Today \in Nat /\ DOMAIN segs \subseteq Nat
          /\ offset.segment \in Int /\ offset.line \in Nat
      BY <1>1, HorizonIs
    <3>2. Today' \in Nat /\ Today <= Today'
      BY <1>3, TodayIsADay DEF Kept, TypeOK, Today, Day
    <3>3. \A d \in DOMAIN segs : d <= Today'
      BY <1>1, <2>3, <3>1, <3>2 DEF AheadOK, Horizon
    <3>4. Within(offset)'
      BY DEF JournalInv
    <3> QED BY <1>2, <2>1, <2>3, <3>3, <3>4 DEF AheadOK, Reaches, Horizon, Within
  <2> QED BY <2>2, <2>3
<1>6. Writes(p)' => Writes(p) /\ mine'[p] = mine[p]
  BY <1>2 DEF Writes
<1> QED BY <1>2, <1>3, <1>4, <1>5, <1>6, OutsidePass

\* The scan of the one process.
LEMMA ReadWhole ==
  ASSUME TypeOK, TypeOK', JournalInv, NEW p \in Process, WholeOK(p), ReadSegment(p)
  PROVE  WholeOK(p)'
<1> DEFINE d == Oldest(p)
           o == from[p]
<1>1. /\ pc[p] = "read" /\ pc' = pc /\ from' = from /\ todo'[p] = todo[p] \ {d} /\ pairs' = pairs
      /\ UNCHANGED <<log, segs, offset>>
  BY ReadIs DEF TypeOK
<1>2. d \in todo[p] /\ (\A e \in todo[p] : d <= e) /\ todo[p] \subseteq Nat
  <2>1. todo[p] # {}
    BY ReadIs
  <2>2. d \in todo[p] /\ \A e \in todo[p] : d <= e
    BY <2>1, OldestIs
  <2>3. todo[p] \subseteq Nat
    BY TypeParts DEF PassTypeOK, Day
  <2> QED BY <2>2, <2>3
<1>3. /\ from[p] = offset /\ batch[p] \subseteq OnDisk /\ next[p].segment <= d
      /\ \A x \in OnDisk : Passed(next[p], x) => x \in batch[p] \/ Passed(from[p], x)
      /\ \A x \in OnDisk : Passed(from[p], x) => Passed(next[p], x)
      /\ \A x \in OnDisk : x[1] \notin todo[p] => Passed(next[p], x)
  BY <1>1, <1>2 DEF WholeOK, InPass
<1>4. OnDisk' = OnDisk
  BY <1>1 DEF OnDisk
<1>5. /\ o \in JournalOffset /\ next[p] \in JournalOffset /\ o.segment <= d
      /\ o.segment \in Int /\ next[p].segment \in Int
  BY <1>2 DEF JournalInv, ScanOK, TypeOK, JournalOffset, Day
<1>6. \A x \in OnDisk : x[1] \in Nat /\ x[1] \in DOMAIN segs
  BY DiskPlaces DEF AllLocated, Located, Day
<1>7. InPass(p)' /\ pc'[p] # "list" /\ pc'[p] # "derive" /\ pairs'[p] = {} /\ from'[p] = offset'
  BY <1>1, <1>3 DEF InPass, WholeOK
<1>8. CASE d \notin DOMAIN segs
  <2>1. batch' = batch /\ next' = next
    BY <1>8, ReadIs
  <2>2. \A x \in OnDisk : x[1] \notin todo'[p] => x[1] \notin todo[p]
    BY <1>1, <1>6, <1>8
  <2>3. \A e \in todo'[p] : next'[p].segment <= e
    BY <1>1, <2>1 DEF WholeOK
  <2> QED BY <1>1, <1>3, <1>4, <1>7, <2>1, <2>2, <2>3 DEF WholeOK, Passed
<1>9. CASE d \in DOMAIN segs
  <2> DEFINE n == [segment |-> d, line |-> LineAfter(o, d)]
  <2>1. batch'[p] = batch[p] \union EntriesFrom(o, d) /\ next'[p] = n
    BY <1>9, ReadIs DEF TypeOK
  <2>2. /\ \A x : x \in EntriesFrom(o, d) <=> x \in OnDisk /\ x[1] = d /\ ~ Passed(o, x)
        /\ \A x \in OnDisk : x[1] = d => x[2] <= LineAfter(o, d)
    BY <1>5, <1>9, ReadEntries
  <2>3. batch'[p] \subseteq OnDisk'
    BY <1>3, <1>4, <2>1, <2>2
  <2>4. \A e \in todo'[p] : next'[p].segment <= e
    BY <1>1, <1>2, <2>1
  <2>5. \A x \in OnDisk : x[1] < d => Passed(next[p], x)
    BY <1>2, <1>3, <1>6
  <2>6. ASSUME NEW x \in OnDisk, Passed(n, x) PROVE x \in batch'[p] \/ Passed(o, x)
    <3>1. CASE x[1] < d
      BY <1>3, <2>1, <2>5, <3>1
    <3>2. CASE x[1] = d
      BY <2>1, <2>2, <3>2
    <3> QED BY <2>6, <3>1, <3>2 DEF Passed
  <2>7. ASSUME NEW x \in OnDisk, Passed(o, x) PROVE Passed(n, x)
    BY <1>2, <1>5, <1>6, <2>2, <2>7 DEF Passed
  <2>8. ASSUME NEW x \in OnDisk, x[1] \notin todo'[p] PROVE Passed(n, x)
    <3>1. CASE x[1] = d
      BY <2>2, <3>1 DEF Passed
    <3>2. CASE x[1] # d
      <4>1. Passed(next[p], x)
        BY <1>1, <1>3, <2>8, <3>2
      <4>2. x[1] <= next[p].segment
        BY <1>5, <1>6, <4>1 DEF Passed
      <4> QED BY <1>2, <1>3, <1>5, <1>6, <3>2, <4>2 DEF Passed
    <3> QED BY <3>1, <3>2
  <2>9. \A x : Passed(next[p], x)' <=> Passed(n, x)
    BY <2>1 DEF Passed
  <2>10. \A x : Passed(from[p], x)' <=> Passed(o, x)
    BY <1>1 DEF Passed
  <2> QED BY <1>1, <1>4, <1>7, <2>3, <2>4, <2>6, <2>7, <2>8, <2>9, <2>10 DEF WholeOK
<1> QED BY <1>8, <1>9

LEMMA PassWhole ==
  ASSUME TypeOK, TypeOK', JournalInv, JournalInv', NEW p \in Process, WholeOK(p), PassStep(p)
  PROVE  WholeOK(p)'
<1>1. OnDisk' = OnDisk /\ ScanOK(p)'
  BY PassFrame DEF OnDisk, JournalInv
<1>2. CASE EndPass(p)
  <2>1. /\ from'[p] = ZeroOffset /\ next'[p] = ZeroOffset /\ todo'[p] = {} /\ batch'[p] = {}
        /\ pairs'[p] = {} /\ pc'[p] = "idle"
    BY <1>2 DEF EndPass, Goto, TypeOK
  <2> QED BY <2>1 DEF WholeOK, InPass, Passed
<1>3. CASE LoadJournalOffset(p)
  <2>1. /\ from'[p] = offset /\ next'[p] = offset /\ batch'[p] = {} /\ pc'[p] = "list"
        /\ pairs'[p] = pairs[p] /\ pc[p] = "load" /\ offset' = offset
    BY <1>3 DEF LoadJournalOffset, Goto, TypeOK
  <2>2. todo'[p] = {} /\ pairs[p] = {}
    BY <1>1, <2>1 DEF ScanOK, WholeOK
  <2> QED BY <2>1, <2>2 DEF WholeOK, InPass, Passed
<1>4. CASE ListJournalSegments(p)
  <2>1. /\ from'[p] = from[p] /\ next'[p] = next[p] /\ batch'[p] = batch[p] /\ pc'[p] = "read"
        /\ pairs'[p] = pairs[p] /\ offset' = offset
        /\ todo'[p] = {d \in DOMAIN segs : d >= from[p].segment} /\ pc[p] = "list"
    BY <1>4 DEF ListJournalSegments, Goto, TypeOK
  <2>2. /\ next[p] = from[p] /\ from[p] = offset /\ pairs[p] = {} /\ batch[p] \subseteq OnDisk
    BY <2>1 DEF WholeOK, InPass
  <2>3. from[p].segment \in Int /\ DOMAIN segs \subseteq Nat
    BY DEF TypeOK, JournalOffset, Day
  <2>4. \A x \in OnDisk : x[1] \in DOMAIN segs
    BY DiskPlaces DEF AllLocated, Located
  <2>5. \A e \in todo'[p] : next'[p].segment <= e
    BY <2>1, <2>2, <2>3
  <2>6. \A x \in OnDisk : x[1] \notin todo'[p] => Passed(next[p], x)
    BY <2>1, <2>2, <2>3, <2>4 DEF Passed
  <2> QED BY <1>1, <2>1, <2>2, <2>5, <2>6 DEF WholeOK, InPass, Passed
<1>5. CASE ReadSegment(p)
  BY <1>5, ReadWhole
<1>6. CASE PairFlagCorrections(p) \/ DeriveCandidate(p)
  <2>1. /\ from'[p] = from[p] /\ next'[p] = next[p] /\ batch'[p] = batch[p] /\ todo'[p] = todo[p]
        /\ pc'[p] = "derive" /\ pc[p] \in {"read", "derive"} /\ offset' = offset
    BY <1>6 DEF PairFlagCorrections, DeriveCandidate, Goto, TypeOK
  <2> QED BY <1>1, <2>1 DEF WholeOK, InPass, Passed
<1> QED
  BY <1>2, <1>3, <1>4, <1>5, <1>6
     DEF PassStep, Pass, SkipPass, HoldBatch, StoreJournalOffset, PassFails, Kill

LEMMA PassSightings ==
  ASSUME TypeOK, TypeOK', JournalInv, NEW p \in Process, SeenOK, WholeOK(p), CountOK(p), PassStep(p)
  PROVE  CountOK(p)'
<1>0. /\ pairs[p] \subseteq Corrections(batch[p])
      /\ \A i \in EntryNo : counted[i] <= aborts + (IF i \in Sighted(p) THEN 1 ELSE 0)
      /\ pc[p] = "derive" => \A i \in Corrections(batch[p]) \ pairs[p] : counted[i] > 0
      /\ pc[p] # "derive" => pairs[p] = {}
      /\ counted \in [EntryNo -> Nat] /\ aborts \in Nat
  BY DEF CountOK, WholeOK, TypeOK
<1>1. log' = log
  BY PassFrame
<1>2. CASE EndPass(p) /\ (SkipPass(p) \/ HoldBatch(p))
  <2>1. /\ pairs'[p] = {} /\ pc'[p] = "idle" /\ pc[p] # "derive"
        /\ UNCHANGED <<seen, counted, aborts>>
    BY <1>2 DEF EndPass, Goto, SkipPass, HoldBatch, TypeOK
  <2>2. Sighted(p)' = Sighted(p)
    BY <2>1 DEF Sighted
  <2> QED BY <1>0, <2>1, <2>2 DEF CountOK
<1>3. CASE EndPass(p) /\ (PassFails(p) \/ Kill(p))
  <2>1. /\ pairs'[p] = {} /\ pc'[p] = "idle" /\ UNCHANGED <<seen, counted>> /\ aborts' = aborts + 1
    BY <1>3 DEF EndPass, Goto, PassFails, Kill, TypeOK
  <2>2. ASSUME NEW i \in EntryNo
        PROVE  counted'[i] <= aborts' + (IF i \in Sighted(p)' THEN 1 ELSE 0)
    <3>1. counted[i] <= aborts + 1
      BY <1>0
    <3> QED BY <1>0, <2>1, <3>1
  <2> QED BY <2>1, <2>2 DEF CountOK
<1>4. CASE EndPass(p) /\ StoreJournalOffset(p)
  <2>1. /\ pairs'[p] = {} /\ pc'[p] = "idle" /\ UNCHANGED <<counted, aborts>>
        /\ seen' = seen \union EntriesOf(batch[p]) /\ pc[p] = "derive" /\ pairs[p] = {}
    BY <1>4 DEF EndPass, Goto, StoreJournalOffset, TypeOK
  <2>2. Sighted(p)' = Sighted(p)
    BY <2>1 DEF Sighted
  <2> QED BY <1>0, <2>1, <2>2 DEF CountOK
<1>5. CASE LoadJournalOffset(p) \/ ListJournalSegments(p) \/ ReadSegment(p)
  <2>1. /\ pairs'[p] = pairs[p] /\ UNCHANGED <<seen, counted, aborts>>
        /\ pc'[p] # "derive" /\ pc[p] # "derive"
    BY <1>5, ReadIs DEF LoadJournalOffset, ListJournalSegments, ReadSegment, Goto, TypeOK
  <2>2. Sighted(p)' = Sighted(p)
    BY <2>1 DEF Sighted
  <2> QED BY <1>0, <2>1, <2>2 DEF CountOK
<1>6. CASE PairFlagCorrections(p)
  <2>1. /\ pairs'[p] = Corrections(batch[p]) /\ UNCHANGED <<seen, counted, aborts>>
        /\ batch'[p] = batch[p] /\ pc[p] # "derive"
    BY <1>6 DEF PairFlagCorrections, Goto, TypeOK
  <2>2. Corrections(batch[p])' = Corrections(batch[p])
    BY <1>1, <2>1 DEF Corrections, IsNext, SameCommand, InTime
  <2>3. Sighted(p) \subseteq Sighted(p)'
    BY <2>1 DEF Sighted
  <2>4. \A i \in EntryNo : counted[i] <= aborts + (IF i \in Sighted(p)' THEN 1 ELSE 0)
    BY <1>0, <2>3
  <2> QED BY <2>1, <2>2, <2>4 DEF CountOK
<1>7. CASE DeriveCandidate(p)
  <2>1. PICK f \in pairs[p] : /\ counted' = [counted EXCEPT ![f] = @ + 1]
                              /\ pairs' = [pairs EXCEPT ![p] = @ \ {f}]
    BY <1>7 DEF DeriveCandidate
  <2>2. /\ UNCHANGED <<seen, aborts, batch, pc, offset>> /\ pc[p] = "derive"
        /\ pairs'[p] = pairs[p] \ {f}
    BY <1>7, <2>1 DEF DeriveCandidate, TypeOK
  <2>3. Corrections(batch[p])' = Corrections(batch[p])
    BY <1>1, <2>2 DEF Corrections, IsNext, SameCommand, InTime
  <2>4. PICK t \in batch[p] : t[3] = f
    BY <1>0 DEF Corrections, EntriesOf
  <2>5. t \in OnDisk /\ ~ Passed(offset, t)
    BY <2>2 DEF WholeOK, InPass, JournalInv, BatchOK
  <2>6. f \notin Sighted(p)
    BY <2>4, <2>5 DEF SeenOK, Sighted
  <2>7. f \in Sighted(p)' /\ Sighted(p) \subseteq Sighted(p)'
    BY <2>2, <2>4 DEF Sighted, EntriesOf
  <2>8. f \in EntryNo
    <3>1. f \in DOMAIN log /\ Len(log) \in Nat /\ DOMAIN log = 1 .. Len(log) /\ Len(log) <= MaxEntries
      <4>1. pairs[p] \subseteq DOMAIN log
        BY DEF TypeOK
      <4> QED BY <4>1, LogFacts DEF TypeOK
    <3>2. MaxEntries \in Nat
      BY LearnJournalAssumption
    <3> QED BY <3>1, <3>2 DEF EntryNo
  <2>9. \A i \in EntryNo : counted'[i] = IF i = f THEN counted[f] + 1 ELSE counted[i]
    BY <1>0, <2>1
  <2>10. ASSUME NEW i \in EntryNo
         PROVE  counted'[i] <= aborts + (IF i \in Sighted(p)' THEN 1 ELSE 0)
    <3>1. CASE i = f
      <4>1. counted[f] <= aborts
        BY <1>0, <2>6, <2>8
      <4> QED BY <1>0, <2>7, <2>9, <3>1, <4>1
    <3>2. CASE i # f
      BY <1>0, <2>7, <2>9, <3>2
    <3> QED BY <3>1, <3>2
  <2>11. ASSUME NEW i \in Corrections(batch[p]) \ pairs'[p] PROVE counted'[i] > 0
    <3>1. CASE i = f
      BY <1>0, <2>8, <2>9, <3>1
    <3>2. CASE i # f
      <4>1. counted[i] > 0
        BY <1>0, <2>2, <3>2
      <4> QED BY <1>0, <2>1, <3>2, <4>1
    <3> QED BY <3>1, <3>2
  <2> QED BY <1>0, <2>2, <2>3, <2>10, <2>11 DEF CountOK
<1> QED
  BY <1>2, <1>3, <1>4, <1>5, <1>6, <1>7
     DEF PassStep, Pass, SkipPass, HoldBatch, StoreJournalOffset, PassFails, Kill

\* A scan that holds no fresh failure: nobody waits but those out of the window.
LEMMA PairGivesUp ==
  ASSUME TypeOK, JournalInv, NEW p \in Process, WholeOK(p), GivenUpOK(p), PairFlagCorrections(p),
         NEW x \in OnDisk, Waits(next[p], x)
  PROVE  now - log[x[3]].ts > Window
<1>1. pc[p] = "read" /\ todo[p] = {} /\ ~ Pending(batch[p])
  BY DEF PairFlagCorrections
<1>2. /\ from[p] = offset /\ batch[p] \subseteq OnDisk
      /\ \A z \in OnDisk : Passed(next[p], z) => z \in batch[p] \/ Passed(offset, z)
      /\ \A z \in OnDisk : Passed(offset, z) => Passed(next[p], z)
      /\ \A z \in OnDisk : Passed(next[p], z)
  BY <1>1 DEF WholeOK, InPass
<1>3. log[x[3]].ts \in Nat /\ now \in Nat /\ Window \in Nat
  BY DiskTimes
<1>4. CASE x \in batch[p]
  <2>1. ~ \E y \in batch[p] : IsNext(batch[p], x, y)
    BY <1>2 DEF Waits, IsNext
  <2>2. x \in Unpaired(batch[p])
    BY <1>4, <2>1 DEF Unpaired, Waits
  <2>3. ~ (now - log[x[3]].ts <= Window)
    BY <1>1, <2>2 DEF Pending
  <2> QED BY <1>3, <2>3
<1>5. CASE Passed(offset, x)
  <2>1. Waits(offset, x)
    BY <1>2 DEF Waits
  <2> QED BY <1>5, <2>1 DEF GivenUpOK
<1> QED BY <1>2, <1>4, <1>5

LEMMA PassGivesUp ==
  ASSUME TypeOK, TypeOK', JournalInv, NEW p \in Process, WholeOK(p), GivenUpOK(p), PassStep(p)
  PROVE  GivenUpOK(p)'
<1>1. /\ UNCHANGED <<now, log, segs>> /\ ~ Writes(p)'
  BY PassFrame
<1>2. OnDisk' = OnDisk
  BY <1>1 DEF OnDisk
<1>3. \A o, x : Waits(o, x)' <=> Waits(o, x)
  <2>1. UNCHANGED <<log, OnDisk>>
    BY <1>1, <1>2
  <2> QED BY <2>1 DEF Waits, SameCommand, Precedes, Passed
<1>4. CASE offset' = offset
  <2>1. \A x \in OnDisk' : Passed(offset', x) /\ Waits(offset, x)' =>
          /\ now' - log'[x[3]].ts > Window
          /\ \A y \in OnDisk' : ~ Passed(offset', y) => log'[y[3]].ts - log'[x[3]].ts > Window
    BY <1>1, <1>2, <1>3, <1>4 DEF GivenUpOK
  <2>2. pc'[p] = "derive" =>
          \A x \in OnDisk' : Waits(next[p], x)' => now' - log'[x[3]].ts > Window
    <3> SUFFICES ASSUME pc'[p] = "derive", NEW x \in OnDisk, Waits(next'[p], x)
                 PROVE  now - log[x[3]].ts > Window
      BY <1>1, <1>2, <1>3 DEF Waits, Passed, SameCommand
    <3>1. CASE PairFlagCorrections(p)
      <4>1. next'[p] = next[p]
        BY <3>1 DEF PairFlagCorrections
      <4> QED BY <3>1, <4>1, PairGivesUp
    <3>2. CASE DeriveCandidate(p)
      <4>1. next'[p] = next[p] /\ pc[p] = "derive"
        BY <3>2 DEF DeriveCandidate
      <4> QED BY <4>1 DEF GivenUpOK
    <3>3. CASE pc'[p] # "derive"
      BY <3>3
    <3>4. EndPass(p) \/ LoadJournalOffset(p) \/ ListJournalSegments(p) \/ ReadSegment(p) => pc'[p] # "derive"
      BY ReadIs DEF EndPass, Goto, LoadJournalOffset, ListJournalSegments, TypeOK
    <3> QED
      BY <3>1, <3>2, <3>3, <3>4
         DEF PassStep, Pass, SkipPass, HoldBatch, StoreJournalOffset, PassFails, Kill
  <2> QED BY <1>1, <1>4, <2>1, <2>2 DEF GivenUpOK, Waits
<1>5. CASE StoreJournalOffset(p)
  <2>1. offset' = next[p] /\ pc[p] = "derive" /\ pc'[p] = "idle"
    BY <1>5 DEF StoreJournalOffset, EndPass, Goto, TypeOK
  <2>2. todo[p] = {}
    BY <2>1 DEF JournalInv, ScanOK
  <2>3. \A y \in OnDisk : Passed(next[p], y)
    BY <2>1, <2>2 DEF WholeOK
  <2>4. \A x \in OnDisk : Waits(next[p], x) => now - log[x[3]].ts > Window
    BY <2>1 DEF GivenUpOK
  <2>5. ASSUME NEW x \in OnDisk', Passed(offset', x), Waits(offset, x)'
        PROVE  /\ now' - log'[x[3]].ts > Window
               /\ \A y \in OnDisk' : ~ Passed(offset', y) => log'[y[3]].ts - log'[x[3]].ts > Window
    <3>1. Waits(next[p], x)
      BY <1>1, <1>2, <2>1, <2>5 DEF Waits, Passed, SameCommand
    <3> QED BY <1>1, <1>2, <2>1, <2>3, <2>4, <2>5, <3>1
  <2> QED BY <1>1, <2>1, <2>5 DEF GivenUpOK
<1> QED
  BY <1>4, <1>5 DEF PassStep, Pass, Kill, SkipPass, LoadJournalOffset, ListJournalSegments,
                    ReadSegment, HoldBatch, PairFlagCorrections, DeriveCandidate, PassFails

\* A pass that ends has consumed what it read, each correction with a sighting.
LEMMA PassConsumes ==
  ASSUME TypeOK, TypeOK', JournalInv, NEW p \in Process, SeenOK, CorrectionsCounted,
         WholeOK(p), CountOK(p), GivenUpOK(p), PassStep(p)
  PROVE  SeenOK' /\ CorrectionsCounted'
<1>1. UNCHANGED <<now, log, segs>>
  BY PassFrame
<1>2. OnDisk' = OnDisk
  BY <1>1 DEF OnDisk
<1>3. \A x, y : Corrects(y, x, {})' <=> Corrects(y, x, {})
  <2>1. UNCHANGED <<log, OnDisk>>
    BY <1>1, <1>2
  <2> QED BY <2>1 DEF Corrects, SameCommand, InTime
<1>4. \A x \in OnDisk : counted[x[3]] > 0 => counted'[x[3]] > 0
  <2>1. CASE counted' = counted
    BY <2>1
  <2>2. CASE DeriveCandidate(p)
    <3>1. PICK f \in pairs[p] : counted' = [counted EXCEPT ![f] = @ + 1]
      BY <2>2 DEF DeriveCandidate
    <3>2. counted \in [EntryNo -> Nat]
      BY DEF TypeOK
    <3>3. \A x \in OnDisk : x[3] \in EntryNo
      <4>1. DiskTypeOK /\ MaxEntries \in Nat
        BY TypeParts, LearnJournalAssumption
      <4>2. Len(log) \in Nat /\ DOMAIN log = 1 .. Len(log) /\ Len(log) <= MaxEntries
        BY <4>1, LogFacts DEF DiskTypeOK
      <4> QED BY <4>1, <4>2, DiskTimes DEF EntryNo
    <3> QED BY <3>1, <3>2, <3>3
  <2> QED
    BY <2>1, <2>2 DEF PassStep, Pass, Kill, SkipPass, LoadJournalOffset, ListJournalSegments,
                      ReadSegment, HoldBatch, PairFlagCorrections, StoreJournalOffset, PassFails
<1>5. CASE UNCHANGED <<offset, seen>>
  BY <1>2, <1>3, <1>4, <1>5 DEF SeenOK, CorrectionsCounted, Passed, BeforeOffset
<1>6. CASE StoreJournalOffset(p)
  <2>1. /\ offset' = next[p] /\ seen' = seen \union EntriesOf(batch[p]) /\ counted' = counted
        /\ pc[p] = "derive" /\ pairs[p] = {}
    BY <1>6 DEF StoreJournalOffset
  <2>2. /\ from[p] = offset /\ batch[p] \subseteq OnDisk
        /\ \A x \in OnDisk : Passed(next[p], x) => x \in batch[p] \/ Passed(offset, x)
        /\ \A x \in OnDisk : Passed(offset, x) => Passed(next[p], x)
    BY <2>1 DEF WholeOK, InPass
  <2>3. BatchOK(p)
    BY DEF JournalInv
  <2>4. ASSUME NEW x \in OnDisk, x[3] \in seen' PROVE Passed(next[p], x)
    <3>1. CASE x[3] \in seen
      BY <2>2, <3>1 DEF SeenOK
    <3>2. CASE x[3] \in EntriesOf(batch[p])
      BY <2>3, <2>4, <3>2 DEF BatchOK, EntriesOf
    <3> QED BY <2>1, <2>4, <3>1, <3>2
  <2>5. ASSUME NEW x \in OnDisk, NEW y \in OnDisk, Passed(next[p], y), Corrects(y, x, {})
        PROVE  counted[x[3]] > 0
    <3>1. CASE Passed(offset, y)
      BY <2>5, <3>1 DEF CorrectionsCounted, BeforeOffset, Passed
    <3>2. CASE ~ Passed(offset, y) /\ x \in batch[p]
      <4>1. y \in batch[p]
        BY <2>2, <2>5, <3>2
      <4>2. IsNext(batch[p], x, y)
        BY <2>2, <2>5 DEF Corrects, IsNext
      <4>3. x[3] \in Corrections(batch[p])
        BY <2>5, <3>2, <4>1, <4>2 DEF Corrections, EntriesOf, Corrects
      <4> QED BY <2>1, <4>3 DEF CountOK
    <3>3. CASE ~ Passed(offset, y) /\ Passed(offset, x)
      <4>1. ASSUME NEW z \in OnDisk, Passed(offset, z), Precedes(x, z), SameCommand(x, z)
            PROVE  FALSE
        <5>1. z[1] \in Nat /\ z[2] \in Nat /\ y[1] \in Nat /\ y[2] \in Nat
          BY DiskPlaces DEF AllLocated, Located, Day
        <5>2. offset.segment \in Int /\ offset.line \in Nat
          BY DEF TypeOK, JournalOffset, Day
        <5>3. Precedes(z, y)
          BY <3>3, <4>1, <5>1, <5>2 DEF Passed, Precedes
        <5> QED BY <2>5, <4>1, <5>3 DEF Corrects
      <4>2. Waits(offset, x)
        BY <2>5, <4>1 DEF Waits, Corrects
      <4>3. log[y[3]].ts - log[x[3]].ts > Window
        BY <3>3, <4>2 DEF GivenUpOK
      <4>4. log[y[3]].ts - log[x[3]].ts <= Window
        BY <2>5 DEF Corrects, InTime
      <4>5. log[y[3]].ts \in Nat /\ log[x[3]].ts \in Nat /\ Window \in Nat
        BY DiskTimes
      <4> QED BY <4>3, <4>4, <4>5
    <3>4. x \in batch[p] \/ Passed(offset, x)
      <4>1. x[1] \in Nat /\ x[2] \in Nat /\ y[1] \in Nat /\ y[2] \in Nat
        BY DiskPlaces DEF AllLocated, Located, Day
      <4>2. next[p].segment \in Int /\ next[p].line \in Nat
        <5>1. next[p] \in JournalOffset
          BY DEF TypeOK
        <5> QED BY <5>1 DEF JournalOffset, Day
      <4>3. Precedes(x, y)
        BY <2>5 DEF Corrects
      <4>4. Passed(next[p], x)
        BY <2>5, <4>1, <4>2, <4>3 DEF Passed, Precedes
      <4> QED BY <2>2, <4>4
    <3> QED BY <3>1, <3>2, <3>3, <3>4
  <2>6. SeenOK'
    BY <1>2, <2>1, <2>4 DEF SeenOK, Passed
  <2>7. CorrectionsCounted'
    BY <1>2, <1>3, <2>1, <2>5 DEF CorrectionsCounted, BeforeOffset, Passed
  <2> QED BY <2>6, <2>7
<1> QED
  BY <1>5, <1>6 DEF PassStep, Pass, Kill, SkipPass, LoadJournalOffset, ListJournalSegments,
                    ReadSegment, HoldBatch, PairFlagCorrections, DeriveCandidate, PassFails

LEMMA PassAhead ==
  ASSUME TypeOK, JournalInv', NEW p \in Process, PassStep(p)
  PROVE  AheadOK(p)'
<1>1. ~ Writes(p)'
  BY PassFrame
<1> QED BY <1>1 DEF JournalInv, DiskOK, Within, AheadOK, Reaches, Horizon

LEMMA AloneInit == Init => AloneInv
<1> SUFFICES ASSUME Init PROVE AloneInv
  OBVIOUS
<1>1. OnDisk = {} /\ DOMAIN segs = {}
  BY DEF Init, OnDisk
<1>2. Today \in Nat
  BY LearnJournalAssumption, TodayIsADay DEF Init, Today, Day
<1>3. SeenOK /\ CorrectionsCounted
  BY <1>1 DEF SeenOK, CorrectionsCounted
<1>4. ASSUME NEW p \in Process PROVE AheadOK(p) /\ WholeOK(p) /\ CountOK(p) /\ GivenUpOK(p)
  <2>1. pc[p] = "idle" /\ todo[p] = {} /\ batch[p] = {} /\ pairs[p] = {}
        /\ from[p] = ZeroOffset /\ next[p] = ZeroOffset
    BY DEF Init
  <2>2. AheadOK(p)
    BY <1>1, <1>2, <2>1 DEF Init, AheadOK, Horizon, Reaches, ZeroOffset, Writes
  <2>3. WholeOK(p) /\ GivenUpOK(p)
    BY <1>1, <2>1 DEF WholeOK, InPass, GivenUpOK
  <2>4. CountOK(p)
    BY <2>1 DEF Init, CountOK, Sighted
  <2> QED BY <2>2, <2>3, <2>4
<1> QED BY <1>3, <1>4 DEF AloneInv

LEMMA AloneStep ==
  ASSUME NEW P, Process = {P}
  PROVE  TypeOK /\ TypeOK' /\ JournalInv /\ JournalInv' /\ AloneInv /\ [Next]_vars => AloneInv'
<1> SUFFICES ASSUME TypeOK, TypeOK', JournalInv, JournalInv', AloneInv, [Next]_vars
             PROVE  AloneInv'
  OBVIOUS
<1>1. P \in Process
  OBVIOUS
<1> SUFFICES /\ SeenOK' /\ CorrectionsCounted'
             /\ AheadOK(P)' /\ WholeOK(P)' /\ CountOK(P)' /\ GivenUpOK(P)'
  BY DEF AloneInv
<1>2. CASE Tick \/ UNCHANGED vars
  BY <1>1, <1>2, TimePasses
<1>3. CASE Journal(P)
  BY <1>1, <1>3, OutsideStep DEF Journal, Appends
<1>4. CASE PassStep(P)
  <2>1. SeenOK /\ CorrectionsCounted /\ WholeOK(P) /\ CountOK(P) /\ GivenUpOK(P)
    BY DEF AloneInv
  <2>2. WholeOK(P)' /\ AheadOK(P)'
    BY <1>1, <1>4, <2>1, PassWhole, PassAhead
  <2>3. CountOK(P)' /\ GivenUpOK(P)'
    BY <1>1, <1>4, <2>1, PassSightings, PassGivesUp
  <2>4. SeenOK' /\ CorrectionsCounted'
    BY <1>1, <1>4, <2>1, PassConsumes
  <2> QED BY <2>2, <2>3, <2>4
<1> QED BY <1>2, <1>3, <1>4 DEF Next, PassStep

LEMMA AloneInvariant ==
  ASSUME NEW P, Process = {P}
  PROVE  Spec => []AloneInv
<1>1. TypeOK /\ TypeOK' /\ JournalInv /\ JournalInv' /\ AloneInv /\ [Next]_vars => AloneInv'
  BY AloneStep
<1> QED BY <1>1, AloneInit, JournalInvariant, JournalTypeOK, PTL DEF Spec

\* Invocations that do not overlap lose no correction: once the offset is past a
\* failure and its correction, a sighting is recorded, though passes fail or die,
\* and a pass gives up waiting for the correction when the window is over.
THEOREM NoCorrectionLost ==
  ASSUME NEW P, Process = {P}
  PROVE  Spec => []CorrectionsCounted
<1>1. AloneInv => CorrectionsCounted
  BY DEF AloneInv
<1> QED BY <1>1, AloneInvariant, PTL

\* Invocations that do not overlap record a correction once, and once more for
\* each pass that failed or died before it stored its offset.
THEOREM SightingsBounded ==
  ASSUME NEW P, Process = {P}
  PROVE  Spec => []ReplayBounded
<1>1. TypeOK /\ AloneInv => ReplayBounded
  <2> SUFFICES ASSUME TypeOK, AloneInv, NEW i \in EntryNo PROVE counted[i] <= 1 + aborts
    BY DEF ReplayBounded
  <2>1. counted[i] <= aborts + (IF i \in Sighted(P) THEN 1 ELSE 0)
    BY DEF AloneInv, CountOK
  <2> QED BY <2>1 DEF TypeOK
<1> QED BY <1>1, AloneInvariant, JournalTypeOK, PTL

=============================================================================
