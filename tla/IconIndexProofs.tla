--------------------------- MODULE IconIndexProofs ---------------------------
(***************************************************************************)
(* Theorems about IconIndex, for every number of processes and sets, every *)
(* mix of build options and every bound.                                   *)
(***************************************************************************)
EXTENDS IconIndex, FiniteSetTheorems, TLAPS

LEMMA ConstantFacts ==
  /\ Live \subseteq Prefix
  /\ Browsed \subseteq Live
  /\ MaxVersion \in Nat \ {0}
  /\ TTL \in Nat
BY IconIndexAssumption, TTLAssumption

\* An aged or a rewritten cache entry is a cache entry.
LEMMA AgedType ==
  ASSUME NEW Body, NEW e \in Entry(Body)
  PROVE  Aged(e) \in Entry(Body)
BY ConstantFacts DEF Aged, Entry

LEMMA WrittenType ==
  ASSUME NEW Body, NEW body \in Body
  PROVE  Written(body) \in Entry(Body) /\ Absent(body) \in Entry(Body)
BY ConstantFacts DEF Written, Absent, Entry

LEMMA UpstreamType == TypeOK => Upstream \in [Prefix -> 0 .. MaxVersion]
BY ConstantFacts DEF TypeOK, Upstream, Version

LEMMA TypeInit == Init => TypeOK
<1> SUFFICES ASSUME Init PROVE TypeOK
  OBVIOUS
<1> USE ConstantFacts
<1>1. NoVersions \in [Prefix -> 0 .. MaxVersion]
  BY DEF NoVersions
<1>2. lmCache \in Entry([Prefix -> 0 .. MaxVersion])
  BY <1>1, WrittenType DEF Init
<1>3. iconCache \in [Live -> Entry(0 .. MaxVersion)]
  BY WrittenType DEF Init
<1> QED
  BY <1>1, <1>2, <1>3 DEF Init, TypeOK, Version

\* The steps of the world keep every variable in its range.
LEMMA TypeWorld == TypeOK /\ World => TypeOK'
<1> SUFFICES ASSUME TypeOK, World PROVE TypeOK'
  OBVIOUS
<1> USE ConstantFacts
<1>1. ASSUME NEW p \in Live, Publish(p) PROVE TypeOK'
  BY <1>1 DEF TypeOK, Publish, Version, cacheVars, dbVars, buildVars
<1>2. ASSUME NEW p \in Browsed, Browse(p) PROVE TypeOK'
  BY <1>2 DEF TypeOK, Browse, Version, upstreamVars, dbVars, buildVars
<1>3. ASSUME NEW p \in Browsed, CacheBrowsed(p) PROVE TypeOK'
  <2>1. Written(browsing[p]) \in Entry(0 .. MaxVersion)
    BY WrittenType DEF TypeOK
  <2> QED
    BY <1>3, <2>1 DEF TypeOK, CacheBrowsed, upstreamVars, dbVars, buildVars
<1>4. CASE CachedGetLastModified
  <2>1. Written(Upstream) \in Entry([Prefix -> 0 .. MaxVersion])
    BY WrittenType, UpstreamType
  <2> QED
    BY <1>4, <2>1 DEF TypeOK, CachedGetLastModified, upstreamVars, dbVars, buildVars
<1>5. CASE Tick
  <2>1. lmCache' \in Entry([Prefix -> 0 .. MaxVersion])
    BY <1>5, AgedType DEF TypeOK, Tick
  <2>2. iconCache' \in [Live -> Entry(0 .. MaxVersion)]
    BY <1>5, AgedType DEF TypeOK, Tick
  <2> QED
    BY <1>5, <2>1, <2>2 DEF TypeOK, Tick, upstreamVars, dbVars, buildVars
<1> QED
  BY <1>1, <1>2, <1>3, <1>4, <1>5 DEF World

\* So do the steps of a build.
LEMMA TypeBuild ==
  ASSUME NEW b \in Process, TypeOK, BuildStep(b)
  PROVE  TypeOK'
<1> USE ConstantFacts DEF upstreamVars, cacheVars, dbVars, Goto, Returns
<1>1. CASE FetchCollections(b)
  <2>1. Matched(opts[b].only) \in SUBSET Live
    BY DEF Matched
  <2> QED
    BY <1>1, <2>1 DEF TypeOK, FetchCollections
<1>2. CASE FetchLastModified(b)
  <2>1. lmCache.body \in [Prefix -> 0 .. MaxVersion]
    BY DEF TypeOK, Entry
  <2>2. lm' \in [Process -> [Prefix -> 0 .. MaxVersion]]
    BY <1>2, <2>1, UpstreamType DEF TypeOK, FetchLastModified
  <2> QED
    BY <1>2, <2>2 DEF TypeOK, FetchLastModified
<1>3. CASE CacheLastModified(b)
  <2>1. Written(lm[b]) \in Entry([Prefix -> 0 .. MaxVersion])
    BY WrittenType DEF TypeOK
  <2> QED
    BY <1>3, <2>1 DEF TypeOK, CacheLastModified
<1>4. CASE LastModifiedFails(b)
  <2>1. NoVersions \in [Prefix -> 0 .. MaxVersion]
    BY DEF NoVersions
  <2> QED
    BY <1>4, <2>1 DEF TypeOK, LastModifiedFails
<1>5. CASE Plan(b)
  BY <1>5 DEF TypeOK, Plan
<1>6. CASE UpsertSets(b)
  BY <1>6 DEF TypeOK, UpsertSets, InsertedStamp
<1>7. CASE BuildFails(b)
  BY <1>7 DEF TypeOK, BuildFails
<1>8. ASSUME NEW p \in Live, FetchIcons(b, p) PROVE TypeOK'
  <2>1. iconCache[p].body \in 0 .. MaxVersion /\ up[p] \in 0 .. MaxVersion
    BY DEF TypeOK, Entry, Version
  <2>2. got' \in [Process -> [Prefix -> 0 .. MaxVersion]]
    BY <1>8, <2>1 DEF TypeOK, FetchIcons
  <2>3. caching' \in [Process -> SUBSET Live] /\ todo' \in [Process -> SUBSET Live]
    BY <1>8 DEF TypeOK, FetchIcons
  <2> QED
    BY <1>8, <2>2, <2>3 DEF TypeOK, FetchIcons
<1>9. ASSUME NEW p \in Live, CacheIcons(b, p) PROVE TypeOK'
  <2>1. Written(got[b][p]) \in Entry(0 .. MaxVersion)
    BY WrittenType DEF TypeOK
  <2> QED
    BY <1>9, <2>1 DEF TypeOK, CacheIcons
<1>10. ASSUME NEW p \in Live, FetchIconsFails(b, p) PROVE TypeOK'
  BY <1>10 DEF TypeOK, FetchIconsFails, Fails
<1>11. ASSUME NEW p \in Live, ReplaceIcons(b, p) PROVE TypeOK'
  BY <1>11 DEF TypeOK, ReplaceIcons, RecordedStamp
<1>12. ASSUME NEW p \in Live, ReplaceIconsFails(b, p) PROVE TypeOK'
  BY <1>12 DEF TypeOK, ReplaceIconsFails, Fails
<1>13. CASE FinishBuild(b)
  BY <1>13 DEF TypeOK, FinishBuild
<1> QED
  BY <1>1, <1>2, <1>3, <1>4, <1>5, <1>6, <1>7, <1>8, <1>9, <1>10, <1>11, <1>12, <1>13
     DEF BuildStep

\* And the start and the end of a process.
LEMMA TypeProcess ==
  ASSUME NEW b \in Process, TypeOK, (\E r \in Request : Start(b, r)) \/ Exit(b) \/ Crash(b)
  PROVE  TypeOK'
<1> USE ConstantFacts DEF upstreamVars, cacheVars, dbVars, Goto
<1>1. ASSUME NEW r \in Request, Start(b, r) PROVE TypeOK'
  BY <1>1 DEF TypeOK, Start
<1>2. CASE Exit(b) \/ Crash(b)
  <2>1. Forget(b) /\ UNCHANGED <<upstreamVars, cacheVars, dbVars>>
    BY <1>2 DEF Exit, Crash
  <2>2. NoVersions \in [Prefix -> 0 .. MaxVersion]
    BY DEF NoVersions
  <2> QED
    BY <2>1, <2>2 DEF TypeOK, Forget
<1> QED
  BY <1>1, <1>2

LEMMA TypeNext == TypeOK /\ [Next]_vars => TypeOK'
<1> SUFFICES ASSUME TypeOK, [Next]_vars PROVE TypeOK'
  OBVIOUS
<1>1. CASE UNCHANGED vars
  BY <1>1 DEF TypeOK, vars, upstreamVars, cacheVars, dbVars, buildVars
<1> QED
  BY <1>1, TypeWorld, TypeBuild, TypeProcess DEF Next

\* Every variable keeps to its range, whatever the builds do.
THEOREM TypeCorrect == Spec => []TypeOK
BY TypeInit, TypeNext, PTL DEF Spec

-----------------------------------------------------------------------------
(* What every build leaves behind, whether it uses the response cache or not. *)

OutcomeOf(b) == pc[b] # "returned" <=> outcome[b] = "none"

\* From the plan on, a matched set is on its way, has failed or has rows.
InHandOf(b) ==
  pc[b] \in {"upsert", "fetch"}
    => \A p \in sets[b] : p \in todo[b] \/ got[b][p] # 0 \/ p \in failed[b] \/ rows[p] # 0

\* When a build has reported success, few of its sets failed and the rest have rows.
SettledOf(b) ==
  pc[b] = "returned" /\ outcome[b] = "ok"
    => /\ \A p \in sets[b] : p \in failed[b] \/ rows[p] # 0
       /\ ~TooManyFailed(b)

\* A response that is about to be cached has rows in it ...
CachingOf(b) == \A p \in caching[b] : got[b][p] # 0

\* ... and so has a cached one that is still trusted.
CacheFilled == \A p \in Live : Fresh(iconCache[p]) => iconCache[p].body # 0

ProcessInv(b) == OutcomeOf(b) /\ InHandOf(b) /\ SettledOf(b) /\ CachingOf(b)

BuildInv == TypeOK /\ StampedHasRows /\ CacheFilled /\ \A b \in Process : ProcessInv(b)

LEMMA BuildInvInit == Init => BuildInv
<1> SUFFICES ASSUME Init PROVE BuildInv
  OBVIOUS
<1>1. TypeOK
  BY TypeInit
<1>2. StampedHasRows /\ CacheFilled
  BY ConstantFacts DEF Init, StampedHasRows, CacheFilled, NoVersions, Absent, Fresh
<1>3. \A b \in Process : ProcessInv(b)
  BY DEF Init, ProcessInv, OutcomeOf, InHandOf, SettledOf, CachingOf
<1> QED
  BY <1>1, <1>2, <1>3 DEF BuildInv

ProcessStep(b) ==
  BuildStep(b) \/ (\E r \in Request : Start(b, r)) \/ Exit(b) \/ Crash(b)

\* The world touches neither the database nor what a build holds.
LEMMA WorldKeeps == World => UNCHANGED <<dbVars, buildVars>>
BY DEF World, Publish, Browse, CacheBrowsed, CachedGetLastModified, Tick, dbVars, buildVars

\* Only ReplaceIcons changes rows.
LEMMA RowsChange ==
  ASSUME NEW b \in Process, ProcessStep(b), rows' # rows
  PROVE  \E p \in Live : ReplaceIcons(b, p)
BY DEF ProcessStep, BuildStep, FetchCollections, FetchLastModified, CacheLastModified,
     LastModifiedFails, Plan, UpsertSets, BuildFails, FetchIcons, CacheIcons,
     FetchIconsFails, ReplaceIconsFails, FinishBuild, Start, Exit, Crash, dbVars

\* A set that has rows keeps having rows.
LEMMA RowsStay ==
  ASSUME TypeOK, [Next]_vars, NEW p \in Prefix, rows[p] # 0
  PROVE  rows'[p] # 0
<1>1. CASE rows' = rows
  BY <1>1
<1>2. ASSUME NEW b \in Process, NEW q \in Live, ReplaceIcons(b, q) PROVE rows'[p] # 0
  BY <1>2, ConstantFacts DEF ReplaceIcons, TypeOK
<1>3. World \/ UNCHANGED vars => rows' = rows
  BY WorldKeeps DEF vars, dbVars
<1>4. (\E b \in Process : ProcessStep(b)) => rows' = rows \/ rows'[p] # 0
  BY <1>2, RowsChange
<1> QED
  BY <1>1, <1>3, <1>4 DEF Next, ProcessStep

\* A step of one process leaves what another holds alone.
LEMMA OthersKeep ==
  ASSUME TypeOK, NEW b \in Process, ProcessStep(b), NEW c \in Process, c # b
  PROVE  /\ pc'[c] = pc[c] /\ opts'[c] = opts[c] /\ sets'[c] = sets[c] /\ lm'[c] = lm[c]
         /\ todo'[c] = todo[c] /\ got'[c] = got[c] /\ failed'[c] = failed[c]
         /\ outcome'[c] = outcome[c]
<1> DEFINE Kept == /\ pc'[c] = pc[c] /\ opts'[c] = opts[c] /\ sets'[c] = sets[c]
                   /\ lm'[c] = lm[c] /\ todo'[c] = todo[c] /\ got'[c] = got[c]
                   /\ failed'[c] = failed[c] /\ outcome'[c] = outcome[c]
<1> USE DEF TypeOK, Goto, Returns
<1>1. CASE FetchCollections(b)
  BY <1>1 DEF FetchCollections
<1>2. CASE FetchLastModified(b) \/ CacheLastModified(b) \/ LastModifiedFails(b)
  BY <1>2 DEF FetchLastModified, CacheLastModified, LastModifiedFails
<1>3. CASE Plan(b) \/ UpsertSets(b) \/ BuildFails(b)
  BY <1>3 DEF Plan, UpsertSets, BuildFails
<1>4. ASSUME NEW p \in Live, FetchIcons(b, p) \/ CacheIcons(b, p) \/ FetchIconsFails(b, p)
      PROVE  Kept
  BY <1>4 DEF FetchIcons, CacheIcons, FetchIconsFails, Fails
<1>5. ASSUME NEW p \in Live, ReplaceIcons(b, p) \/ ReplaceIconsFails(b, p)
      PROVE  Kept
  BY <1>5 DEF ReplaceIcons, ReplaceIconsFails, Fails
<1>6. CASE FinishBuild(b)
  BY <1>6 DEF FinishBuild
<1>7. ASSUME NEW r \in Request, Start(b, r) PROVE Kept
  BY <1>7 DEF Start
<1>8. CASE Exit(b) \/ Crash(b)
  BY <1>8 DEF Exit, Crash, Forget
<1> QED
  BY <1>1, <1>2, <1>3, <1>4, <1>5, <1>6, <1>7, <1>8 DEF ProcessStep, BuildStep

\* A recorded timestamp comes with rows.
LEMMA StampedNext ==
  ASSUME TypeOK, StampedHasRows, [Next]_vars
  PROVE  StampedHasRows'
<1>1. World \/ UNCHANGED vars => StampedHasRows'
  BY WorldKeeps DEF vars, dbVars, StampedHasRows
<1>2. ASSUME NEW b \in Process, ProcessStep(b) PROVE StampedHasRows'
  <2>1. CASE UpsertSets(b)
    BY <2>1 DEF UpsertSets, InsertedStamp, StampedHasRows, TypeOK
  <2>2. ASSUME NEW p \in Live, ReplaceIcons(b, p) PROVE StampedHasRows'
    BY <2>2, ConstantFacts DEF ReplaceIcons, StampedHasRows, TypeOK
  <2>3. ASSUME ~UpsertSets(b), \A p \in Live : ~ReplaceIcons(b, p) PROVE UNCHANGED dbVars
    BY <1>2, <2>3 DEF ProcessStep, BuildStep, FetchCollections, FetchLastModified,
         CacheLastModified, LastModifiedFails, Plan, BuildFails, FetchIcons, CacheIcons,
         FetchIconsFails, ReplaceIconsFails, FinishBuild, Start, Exit, Crash
  <2> QED
    BY <2>1, <2>2, <2>3 DEF dbVars, StampedHasRows
<1> QED
  BY <1>1, <1>2 DEF Next, ProcessStep

LEMMA OutcomeStep ==
  ASSUME TypeOK, NEW b \in Process, ProcessStep(b), OutcomeOf(b)
  PROVE  OutcomeOf(b)'
BY DEF ProcessStep, BuildStep, FetchCollections, FetchLastModified, CacheLastModified,
     LastModifiedFails, Plan, UpsertSets, BuildFails, FetchIcons, CacheIcons,
     FetchIconsFails, ReplaceIcons, ReplaceIconsFails, FinishBuild, Start, Exit, Crash,
     Forget, Goto, Returns, TypeOK, OutcomeOf

LEMMA FetchedNotEmpty ==
  ASSUME TypeOK, CacheFilled, NEW b \in Process, NEW p \in Live, FetchIcons(b, p)
  PROVE  /\ got'[b][p] # 0
         /\ \A q \in Prefix \ {p} : got'[b][q] = got[b][q]
<1> DEFINE hit  == UsesCache(b) /\ Fresh(iconCache[p])
           body == IF hit THEN iconCache[p].body ELSE up[p]
<1>1. body # 0
  BY ConstantFacts DEF TypeOK, CacheFilled, Version
<1>2. got' = [got EXCEPT ![b][p] = body]
  BY DEF FetchIcons
<1>3. got \in [Process -> [Prefix -> 0 .. MaxVersion]] /\ p \in Prefix
  BY ConstantFacts DEF TypeOK
<1> HIDE DEF body
<1> QED
  BY <1>1, <1>2, <1>3

LEMMA CachingStep ==
  ASSUME TypeOK, CacheFilled, NEW b \in Process, ProcessStep(b), CachingOf(b)
  PROVE  CachingOf(b)'
<1> USE ConstantFacts DEF TypeOK, Goto, Returns, CachingOf
<1>1. ASSUME NEW p \in Live, FetchIcons(b, p) PROVE CachingOf(b)'
  <2>1. caching'[b] \subseteq caching[b] \union {p}
    BY <1>1 DEF FetchIcons
  <2>2. got'[b][p] # 0 /\ \A q \in Prefix \ {p} : got'[b][q] = got[b][q]
    BY <1>1, FetchedNotEmpty
  <2> QED
    BY <2>1, <2>2
<1>2. ASSUME NEW p \in Live, CacheIcons(b, p) PROVE CachingOf(b)'
  BY <1>2 DEF CacheIcons
<1>3. ASSUME NEW p \in Live, ReplaceIcons(b, p) \/ ReplaceIconsFails(b, p)
      PROVE  CachingOf(b)'
  BY <1>3 DEF ReplaceIcons, ReplaceIconsFails
<1>4. CASE Exit(b) \/ Crash(b)
  BY <1>4 DEF Exit, Crash, Forget
<1>5. ASSUME NEW p \in Live, FetchIconsFails(b, p) PROVE CachingOf(b)'
  BY <1>5 DEF FetchIconsFails
<1>6. CASE \/ FetchCollections(b) \/ FetchLastModified(b) \/ CacheLastModified(b)
           \/ LastModifiedFails(b) \/ Plan(b) \/ UpsertSets(b) \/ BuildFails(b)
           \/ FinishBuild(b) \/ \E r \in Request : Start(b, r)
  BY <1>6 DEF FetchCollections, FetchLastModified, CacheLastModified, LastModifiedFails,
       Plan, UpsertSets, BuildFails, FinishBuild, Start
<1> QED
  BY <1>1, <1>2, <1>3, <1>4, <1>5, <1>6 DEF ProcessStep, BuildStep

LEMMA InHandStep ==
  ASSUME TypeOK, StampedHasRows, CacheFilled, NEW b \in Process, ProcessStep(b), InHandOf(b)
  PROVE  InHandOf(b)'
<1> USE ConstantFacts DEF TypeOK, Goto, Returns, InHandOf
<1>1. CASE Plan(b)
  \* a set that is not fetched carries upstream's timestamp, and so has rows
  <2>1. \A p \in sets[b] : UpToDate(b, p) => rows[p] # 0
    BY DEF UpToDate, StampedHasRows
  <2> QED
    BY <1>1, <2>1 DEF Plan, dbVars
<1>2. CASE UpsertSets(b)
  BY <1>2 DEF UpsertSets
<1>3. ASSUME NEW p \in Live, FetchIcons(b, p) PROVE InHandOf(b)'
  BY <1>3, FetchedNotEmpty DEF FetchIcons, dbVars
<1>4. ASSUME NEW p \in Live, FetchIconsFails(b, p) \/ CacheIcons(b, p)
      PROVE  InHandOf(b)'
  BY <1>4 DEF FetchIconsFails, CacheIcons, Fails, dbVars
<1>5. ASSUME NEW p \in Live, ReplaceIcons(b, p) PROVE InHandOf(b)'
  BY <1>5 DEF ReplaceIcons
<1>6. ASSUME NEW p \in Live, ReplaceIconsFails(b, p) PROVE InHandOf(b)'
  BY <1>6 DEF ReplaceIconsFails, Fails, dbVars
<1>7. CASE \/ FetchCollections(b) \/ FetchLastModified(b) \/ CacheLastModified(b)
           \/ LastModifiedFails(b) \/ BuildFails(b) \/ FinishBuild(b)
           \/ Exit(b) \/ Crash(b) \/ \E r \in Request : Start(b, r)
  BY <1>7 DEF FetchCollections, FetchLastModified, CacheLastModified, LastModifiedFails,
       BuildFails, FinishBuild, Start, Exit, Crash, Forget
<1> QED
  BY <1>1, <1>2, <1>3, <1>4, <1>5, <1>6, <1>7 DEF ProcessStep, BuildStep

LEMMA SettledStep ==
  ASSUME TypeOK, NEW b \in Process, ProcessStep(b),
         OutcomeOf(b), InHandOf(b), SettledOf(b), OutcomeOf(b)'
  PROVE  SettledOf(b)'
<1> USE DEF TypeOK, Goto, Returns
<1>1. CASE FinishBuild(b)
  <2>1. \A p \in sets[b] : p \in failed[b] \/ rows[p] # 0
    BY <1>1, ConstantFacts DEF FinishBuild, Drained, InHandOf, NoVersions
  <2>2. TooManyFailed(b)' <=> TooManyFailed(b)
    BY <1>1 DEF FinishBuild, TooManyFailed
  <2> QED
    BY <1>1, <2>1, <2>2 DEF FinishBuild, SettledOf, dbVars
<1>2. CASE FetchCollections(b) \/ BuildFails(b)
  BY <1>2 DEF FetchCollections, BuildFails, SettledOf, OutcomeOf
<1>3. CASE \/ FetchLastModified(b) \/ CacheLastModified(b) \/ LastModifiedFails(b)
           \/ Plan(b) \/ UpsertSets(b) \/ Exit(b) \/ Crash(b)
           \/ \E r \in Request : Start(b, r)
  BY <1>3 DEF FetchLastModified, CacheLastModified, LastModifiedFails, Plan, UpsertSets,
       Start, Exit, Crash, Forget, SettledOf
<1>4. ASSUME NEW p \in Live, \/ FetchIcons(b, p) \/ CacheIcons(b, p) \/ FetchIconsFails(b, p)
                             \/ ReplaceIcons(b, p) \/ ReplaceIconsFails(b, p)
      PROVE  pc' = pc /\ pc[b] = "fetch"
  BY <1>4 DEF FetchIcons, CacheIcons, FetchIconsFails, ReplaceIcons, ReplaceIconsFails
<1> QED
  BY <1>1, <1>2, <1>3, <1>4 DEF ProcessStep, BuildStep, SettledOf

LEMMA CacheFilledNext ==
  ASSUME TypeOK, CacheFilled, \A b \in Process : CachingOf(b), [Next]_vars
  PROVE  CacheFilled'
<1> USE ConstantFacts DEF TypeOK, CacheFilled, Entry, Fresh
<1>1. CASE World
  <2>1. CASE Tick
    BY <2>1 DEF Tick, Aged
  <2>2. ASSUME NEW p \in Browsed, CacheBrowsed(p) PROVE CacheFilled'
    BY <2>2 DEF CacheBrowsed, Written
  <2>3. ASSUME ~Tick, \A p \in Browsed : ~CacheBrowsed(p) PROVE iconCache' = iconCache
    BY <1>1, <2>3 DEF World, Publish, Browse, CachedGetLastModified, cacheVars
  <2> QED
    BY <2>1, <2>2, <2>3
<1>2. ASSUME NEW b \in Process, ProcessStep(b) PROVE CacheFilled'
  <2>1. ASSUME NEW p \in Live, CacheIcons(b, p) PROVE CacheFilled'
    BY <2>1 DEF CacheIcons, CachingOf, Written
  <2>2. ASSUME \A p \in Live : ~CacheIcons(b, p) PROVE iconCache' = iconCache
    BY <1>2, <2>2 DEF ProcessStep, BuildStep, FetchCollections, FetchLastModified,
         CacheLastModified, LastModifiedFails, Plan, UpsertSets, BuildFails, FetchIcons,
         FetchIconsFails, ReplaceIcons, ReplaceIconsFails, FinishBuild, Start, Exit, Crash,
         cacheVars
  <2> QED
    BY <2>1, <2>2
<1>3. CASE UNCHANGED vars
  BY <1>3 DEF vars, cacheVars
<1> QED
  BY <1>1, <1>2, <1>3 DEF Next, ProcessStep

LEMMA BuildInvNext == BuildInv /\ [Next]_vars => BuildInv'
<1> SUFFICES ASSUME BuildInv, [Next]_vars PROVE BuildInv'
  OBVIOUS
<1> USE DEF BuildInv
<1>1. TypeOK' /\ StampedHasRows'
  BY TypeNext, StampedNext
<1>2. CacheFilled'
  BY CacheFilledNext DEF ProcessInv
<1>3. ASSUME World \/ UNCHANGED vars, NEW c \in Process PROVE ProcessInv(c)'
  <2>1. UNCHANGED <<dbVars, buildVars>>
    BY <1>3, WorldKeeps DEF vars
  <2> QED
    BY <2>1 DEF dbVars, buildVars, ProcessInv, OutcomeOf, InHandOf, SettledOf, CachingOf,
         TooManyFailed
<1>4. ASSUME NEW b \in Process, ProcessStep(b), NEW c \in Process PROVE ProcessInv(c)'
  <2>1. CASE c = b
    BY <1>4, <2>1, OutcomeStep, CachingStep, InHandStep, SettledStep DEF ProcessInv
  <2>2. CASE c # b
    <3>1. \A p \in Prefix : rows[p] # 0 => rows'[p] # 0
      BY RowsStay
    <3>2. sets[c] \subseteq Prefix
      BY ConstantFacts DEF TypeOK
    <3>3. caching'[c] = caching[c]
      BY <1>4, <2>2 DEF ProcessStep, BuildStep, FetchCollections, FetchLastModified,
           CacheLastModified, LastModifiedFails, Plan, UpsertSets, BuildFails, FetchIcons,
           CacheIcons, FetchIconsFails, ReplaceIcons, ReplaceIconsFails, FinishBuild, Start,
           Exit, Crash, Forget, TypeOK
    <3> QED
      BY <1>4, <2>2, <3>1, <3>2, <3>3, OthersKeep
         DEF ProcessInv, OutcomeOf, InHandOf, SettledOf, CachingOf, TooManyFailed
  <2> QED
    BY <2>1, <2>2
<1> QED
  BY <1>1, <1>2, <1>3, <1>4 DEF Next, ProcessStep

THEOREM BuildInvariant == Spec => []BuildInv
BY BuildInvInit, BuildInvNext, PTL DEF Spec

\* No crash, failed request or rolled back transaction, of any number of builds,
\* leaves a set with a timestamp and without rows (IconIndex!StampedHasRows).
THEOREM StampedHasRowsCorrect == Spec => []StampedHasRows
<1>1. BuildInv => StampedHasRows
  BY DEF BuildInv
<1> QED
  BY <1>1, BuildInvariant, PTL

\* Every matched set of a build that has not failed is to fetch, to write, listed
\* as failed, or has rows (IconIndex!Accounted).
THEOREM AccountedCorrect == Spec => []Accounted
<1>1. BuildInv => Accounted
  BY DEF BuildInv, ProcessInv, OutcomeOf, InHandOf, SettledOf, Accounted, TypeOK
<1> QED
  BY <1>1, BuildInvariant, PTL

\* A build that reports success leaves few of its sets without rows
\* (IconIndex!OkMeansIndexed).
THEOREM OkMeansIndexedCorrect == Spec => []OkMeansIndexed
<1>1. ASSUME BuildInv, NEW b \in Process, pc[b] = "returned", outcome[b] = "ok"
      PROVE  Cardinality({p \in sets[b] : rows[p] = 0}) <= Cardinality(sets[b]) \div Tolerance
  <2> DEFINE bare == {p \in sets[b] : rows[p] = 0}
  <2>1. bare \subseteq failed[b] /\ ~TooManyFailed(b)
    BY <1>1 DEF BuildInv, ProcessInv, SettledOf
  <2>2. IsFiniteSet(failed[b]) /\ IsFiniteSet(sets[b])
    BY <1>1, IconIndexAssumption, ConstantFacts, FS_Subset DEF BuildInv, TypeOK
  <2>3. Cardinality(bare) <= Cardinality(failed[b]) /\ IsFiniteSet(bare)
    BY <2>1, <2>2, FS_Subset
  <2>4. /\ Cardinality(bare) \in Nat /\ Cardinality(failed[b]) \in Nat
        /\ Cardinality(sets[b]) \in Nat
    BY <2>2, <2>3, FS_CardinalityType
  <2>5. Cardinality(sets[b]) \div Tolerance \in Int
    BY <2>4, IconIndexAssumption
  <2> QED
    BY <2>1, <2>3, <2>4, <2>5 DEF TooManyFailed
<1>2. BuildInv => OkMeansIndexed
  BY <1>1 DEF OkMeansIndexed
<1> QED
  BY <1>2, BuildInvariant, PTL

-----------------------------------------------------------------------------
(* Builds that bypass the response cache: they implement IndexMirror.      *)

Uncached == \A r \in Request : r.noCache

\* What b fetched was upstream's, the timestamps before the rows.
FetchOrder(b) ==
  /\ pc[b] # "idle" => opts[b].noCache
  /\ pc[b] \notin {"fetch", "returned"} => got[b] = NoVersions
  /\ \A p \in Live : /\ lm[b][p] <= up[p]
                     /\ got[b][p] # 0 => lm[b][p] <= got[b][p] /\ got[b][p] <= up[p]

\* A timestamp is no newer than the rows, and a set without a row has none.
DatabaseOrder ==
  \A p \in Prefix : stamp[p] <= rows[p] /\ (p \notin known => stamp[p] = 0)

MirrorInv == TypeOK /\ DatabaseOrder /\ \A b \in Process : FetchOrder(b)

LEMMA MirrorInvInit == Init => MirrorInv
<1> SUFFICES ASSUME Init PROVE MirrorInv
  OBVIOUS
<1>1. TypeOK
  BY TypeInit
<1>2. DatabaseOrder
  BY DEF Init, DatabaseOrder, NoVersions
<1>3. \A b \in Process : FetchOrder(b)
  BY ConstantFacts DEF Init, FetchOrder, NoVersions
<1> QED
  BY <1>1, <1>2, <1>3 DEF MirrorInv

LEMMA UpGrows ==
  ASSUME TypeOK, [Next]_vars
  PROVE  \A p \in Live : up[p] <= up'[p]
<1> USE DEF TypeOK, Version
<1>1. CASE World
  <2>1. ASSUME NEW p \in Live, Publish(p) PROVE \A q \in Live : up[q] <= up'[q]
    BY <2>1, ConstantFacts DEF Publish
  <2>2. ASSUME \A p \in Live : ~Publish(p) PROVE up' = up
    BY <1>1, <2>2 DEF World, Browse, CacheBrowsed, CachedGetLastModified, Tick, upstreamVars
  <2> QED
    BY <2>1, <2>2, ConstantFacts
<1>2. ASSUME NEW b \in Process, ProcessStep(b) PROVE up' = up
  BY <1>2 DEF ProcessStep, BuildStep, FetchCollections, FetchLastModified,
       CacheLastModified, LastModifiedFails, Plan, UpsertSets, BuildFails, FetchIcons,
       CacheIcons, FetchIconsFails, ReplaceIcons, ReplaceIconsFails, FinishBuild, Start,
       Exit, Crash, upstreamVars
<1>3. UNCHANGED vars => up' = up
  BY DEF vars, upstreamVars
<1> QED
  BY <1>1, <1>2, <1>3, ConstantFacts DEF Next, ProcessStep

LEMMA FetchOrderStep ==
  ASSUME Uncached, TypeOK, NEW b \in Process, ProcessStep(b), FetchOrder(b), up' = up
  PROVE  FetchOrder(b)'
<1> USE ConstantFacts DEF TypeOK, Goto, Returns, FetchOrder, Version
<1>1. ASSUME NEW r \in Request, Start(b, r) PROVE FetchOrder(b)'
  BY <1>1 DEF Start, Uncached
<1>2. CASE Exit(b) \/ Crash(b)
  BY <1>2 DEF Exit, Crash, Forget, NoVersions
<1>3. CASE FetchLastModified(b)
  <2>1. lm'[b] = Upstream
    BY <1>3 DEF FetchLastModified, UsesCache
  <2>2. \A p \in Live : lm'[b][p] <= up[p] /\ got[b][p] = 0
    BY <1>3, <2>1 DEF FetchLastModified, Upstream, NoVersions
  <2> QED
    BY <1>3, <2>2 DEF FetchLastModified
<1>4. CASE LastModifiedFails(b)
  BY <1>4 DEF LastModifiedFails, NoVersions
<1>5. ASSUME NEW p \in Live, FetchIcons(b, p) PROVE FetchOrder(b)'
  <2>1. got' = [got EXCEPT ![b][p] = up[p]]
    BY <1>5 DEF FetchIcons, UsesCache
  <2> QED
    BY <1>5, <2>1 DEF FetchIcons
<1>6. ASSUME NEW p \in Live, ReplaceIcons(b, p) \/ ReplaceIconsFails(b, p)
      PROVE  FetchOrder(b)'
  <2>1. /\ got' = [got EXCEPT ![b][p] = 0] /\ pc[b] = "fetch"
        /\ pc' = pc /\ lm' = lm /\ opts' = opts
    BY <1>6 DEF ReplaceIcons, ReplaceIconsFails
  <2>2. \A q \in Live : got'[b][q] = 0 \/ got'[b][q] = got[b][q]
    BY <2>1
  <2> QED
    BY <2>1, <2>2
<1>7. ASSUME NEW p \in Live, CacheIcons(b, p) \/ FetchIconsFails(b, p)
      PROVE  FetchOrder(b)'
  BY <1>7 DEF CacheIcons, FetchIconsFails
<1>8. CASE \/ FetchCollections(b) \/ CacheLastModified(b) \/ Plan(b) \/ UpsertSets(b)
           \/ BuildFails(b) \/ FinishBuild(b)
  BY <1>8 DEF FetchCollections, CacheLastModified, Plan, UpsertSets, BuildFails, FinishBuild
<1> QED
  BY <1>1, <1>2, <1>3, <1>4, <1>5, <1>6, <1>7, <1>8 DEF ProcessStep, BuildStep

LEMMA DatabaseOrderStep ==
  ASSUME TypeOK, NEW b \in Process, ProcessStep(b), FetchOrder(b), DatabaseOrder
  PROVE  DatabaseOrder'
<1> USE ConstantFacts DEF TypeOK, DatabaseOrder
<1>1. CASE UpsertSets(b)
  BY <1>1 DEF UpsertSets, InsertedStamp
<1>2. ASSUME NEW p \in Live, ReplaceIcons(b, p) PROVE DatabaseOrder'
  BY <1>2 DEF ReplaceIcons, RecordedStamp, FetchOrder
<1>3. ASSUME ~UpsertSets(b), \A p \in Live : ~ReplaceIcons(b, p) PROVE UNCHANGED dbVars
  BY <1>3 DEF ProcessStep, BuildStep, FetchCollections, FetchLastModified,
       CacheLastModified, LastModifiedFails, Plan, BuildFails, FetchIcons, CacheIcons,
       FetchIconsFails, ReplaceIconsFails, FinishBuild, Start, Exit, Crash
<1> QED
  BY <1>1, <1>2, <1>3 DEF dbVars

LEMMA MirrorInvNext == Uncached /\ MirrorInv /\ [Next]_vars => MirrorInv'
<1> SUFFICES ASSUME Uncached, MirrorInv, [Next]_vars PROVE MirrorInv'
  OBVIOUS
<1> USE DEF MirrorInv
<1>1. TypeOK'
  BY TypeNext
<1>2. CASE World \/ UNCHANGED vars
  <2>1. UNCHANGED <<dbVars, buildVars>>
    BY <1>2, WorldKeeps DEF vars
  <2>2. \A b \in Process : FetchOrder(b)'
    <3> SUFFICES ASSUME NEW b \in Process PROVE FetchOrder(b)'
      OBVIOUS
    <3>1. lm' = lm /\ got' = got /\ pc' = pc /\ opts' = opts
      BY <2>1 DEF buildVars
    <3>2. \A p \in Live : up[p] <= up'[p]
      BY UpGrows
    <3>3. \A p \in Live : /\ lm[b][p] \in Int /\ got[b][p] \in Int
                         /\ up[p] \in Int /\ up'[p] \in Int
      BY <1>1, ConstantFacts DEF TypeOK, Version
    <3> QED
      BY <3>1, <3>2, <3>3 DEF FetchOrder
  <2> QED
    BY <1>1, <2>1, <2>2 DEF dbVars, DatabaseOrder
<1>3. ASSUME NEW b \in Process, ProcessStep(b) PROVE MirrorInv'
  <2>1. up' = up
    BY <1>3 DEF ProcessStep, BuildStep, FetchCollections, FetchLastModified,
         CacheLastModified, LastModifiedFails, Plan, UpsertSets, BuildFails, FetchIcons,
         CacheIcons, FetchIconsFails, ReplaceIcons, ReplaceIconsFails, FinishBuild, Start,
         Exit, Crash, upstreamVars
  <2>2. FetchOrder(b)'
    BY <1>3, <2>1, FetchOrderStep
  <2>3. ASSUME NEW c \in Process, c # b PROVE FetchOrder(c)'
    BY <1>3, <2>1, <2>3, OthersKeep DEF FetchOrder
  <2> QED
    BY <1>1, <1>3, <2>2, <2>3, DatabaseOrderStep
<1> QED
  BY <1>2, <1>3 DEF Next, ProcessStep

\* Without the response cache the rows of a set are at least as new as their
\* timestamp, so a set that a build skips as unchanged is current
\* (IconIndex!StampHonest).
THEOREM StampHonestCorrect ==
  ASSUME Uncached
  PROVE  Spec => []StampHonest
<1>1. Init => MirrorInv
  BY MirrorInvInit
<1>2. MirrorInv /\ [Next]_vars => MirrorInv'
  BY MirrorInvNext
<1>3. MirrorInv => StampHonest
  BY DEF MirrorInv, DatabaseOrder, StampHonest
<1> QED
  BY <1>1, <1>2, <1>3, PTL DEF Spec

\* One step of the builds is a step of the abstract mirror, or none.
LEMMA MirrorStep ==
  MirrorInv /\ [Next]_vars => [Mirror!Next]_<<up, rows, stamp>>
<1> SUFFICES ASSUME MirrorInv, [Next]_vars PROVE [Mirror!Next]_<<up, rows, stamp>>
  OBVIOUS
<1> USE DEF MirrorInv
<1>1. CASE UNCHANGED vars
  BY <1>1 DEF vars, upstreamVars, dbVars
<1>2. ASSUME NEW p \in Live, Publish(p) PROVE Mirror!Next
  BY <1>2 DEF Publish, dbVars, Mirror!Next, Mirror!Publish
<1>3. ASSUME World, \A p \in Live : ~Publish(p) PROVE UNCHANGED <<up, rows, stamp>>
  BY <1>3 DEF World, Browse, CacheBrowsed, CachedGetLastModified, Tick, upstreamVars, dbVars
<1>4. ASSUME NEW b \in Process, NEW p \in Live, ReplaceIcons(b, p) PROVE Mirror!Next
  <2>1. got[b][p] \in 1 .. up[p] /\ lm[b][p] \in 0 .. got[b][p]
    BY <1>4, ConstantFacts DEF ReplaceIcons, FetchOrder, TypeOK, Version
  <2>2. rows' = [rows EXCEPT ![p] = got[b][p]] /\ up' = up
    BY <1>4 DEF ReplaceIcons, upstreamVars
  <2>3. \E s \in 0 .. got[b][p] : stamp' = [stamp EXCEPT ![p] = s]
    <3>1. CASE p \in known
      BY <1>4, <2>1, <3>1 DEF ReplaceIcons, RecordedStamp
    <3>2. CASE p \notin known
      <4>1. stamp[p] = 0
        BY <3>2, ConstantFacts DEF DatabaseOrder
      <4>2. stamp' = [stamp EXCEPT ![p] = 0]
        BY <1>4, <3>2, <4>1 DEF ReplaceIcons
      <4>3. 0 \in 0 .. got[b][p]
        BY <2>1, ConstantFacts DEF TypeOK, Version
      <4> QED
        BY <4>2, <4>3
    <3> QED
      BY <3>1, <3>2
  <2> QED
    BY <2>1, <2>2, <2>3 DEF Mirror!Next, Mirror!Refresh
<1>5. ASSUME NEW b \in Process, UpsertSets(b) PROVE UNCHANGED <<up, rows, stamp>>
  <2>1. \A p \in sets[b] \ known : stamp[p] = 0
    BY ConstantFacts DEF DatabaseOrder, TypeOK
  <2>2. stamp' = stamp
    BY <1>5, <2>1 DEF UpsertSets, InsertedStamp, TypeOK
  <2> QED
    BY <1>5, <2>2 DEF UpsertSets, upstreamVars
<1>6. ASSUME NEW b \in Process, ProcessStep(b), ~UpsertSets(b),
             \A p \in Live : ~ReplaceIcons(b, p)
      PROVE  UNCHANGED <<up, rows, stamp>>
  BY <1>6 DEF ProcessStep, BuildStep, FetchCollections, FetchLastModified,
       CacheLastModified, LastModifiedFails, Plan, BuildFails, FetchIcons, CacheIcons,
       FetchIconsFails, ReplaceIconsFails, FinishBuild, Start, Exit, Crash, upstreamVars,
       dbVars
<1> QED
  BY <1>1, <1>2, <1>3, <1>4, <1>5, <1>6 DEF Next, ProcessStep

\* Without the response cache the builds implement IndexMirror, with up, rows and
\* stamp for its variables (IconIndex!MirrorSpec).
THEOREM ImplementsMirror ==
  ASSUME Uncached
  PROVE  Spec => MirrorSpec
<1>1. Init => Mirror!Init
  BY DEF Init, Mirror!Init, NoVersions
<1>2. Init => MirrorInv
  BY MirrorInvInit
<1>3. MirrorInv /\ [Next]_vars => MirrorInv'
  BY MirrorInvNext
<1> QED
  BY <1>1, <1>2, <1>3, MirrorStep, PTL DEF Spec, MirrorSpec, Mirror!Spec
=============================================================================
