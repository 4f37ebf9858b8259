------------------------- MODULE IndexCommandsProofs -------------------------
(***************************************************************************)
(* No command answers from a mirror that lacks what the answer is about,   *)
(* for any processes, commands, sets and build options: IndexCommands      *)
(* stands on what IconIndexProofs says of the builds.                      *)
(***************************************************************************)
EXTENDS IndexCommands, IconIndexProofs

\* A build that is past /collections, and has not failed, has the sets that it was
\* asked for and that exist, and there are some.
MatchedOf(b) ==
  pc[b] \in {"lastModified", "cacheLM", "plan", "upsert", "fetch"}
    \/ (pc[b] = "returned" /\ outcome[b] = "ok")
  => sets[b] = Matched(opts[b].only) /\ sets[b] # {}

\* icon_sets has rows of sets that exist only.
KnownLive == known \subseteq Live

\* Which commands are at a stage.
StageOf(b) ==
  /\ stage[b] = "filter" => cmd[b].kind = "audit"
  /\ stage[b] = "divide" => cmd[b].kind = "shadcn"
  /\ stage[b] = "verify" => cmd[b].kind = "swap"
  /\ stage[b] = "ensure" => cmd[b].kind \in {"set-pick", "swap", "audit"}
  /\ stage[b] = "building" => cmd[b].kind \in {"index", "set-pick", "swap", "audit"}

\* What a command needs: swap its sets, audit sets that exist.
NeedsOf(b) ==
  /\ cmd[b].kind = "swap" => needed[b] = cmd[b].sets
  /\ cmd[b].kind = "audit" => needed[b] \subseteq Live

\* The build of an audit is of all it needs that was not there.
AuditBuildOf(b) ==
  stage[b] = "building" /\ cmd[b].kind = "audit"
    => /\ opts[b].only # {} /\ opts[b].only \subseteq needed[b]
       /\ \A p \in needed[b] \ opts[b].only : rows[p] # 0

\* A command about to answer has what the answer is about.
ReadyOf(b) ==
  stage[b] = "read"
    => /\ cmd[b].kind \in {"swap", "shadcn"} => Unindexed(needed[b]) = {}
       /\ cmd[b].kind = "set-pick" => \E p \in Prefix : rows[p] # 0
       /\ cmd[b].kind = "audit" /\ Cardinality(needed[b]) < Tolerance
            => Unindexed(needed[b]) = {}

CommandTypeOK ==
  /\ cmd \in [Process -> Command \union {NoCommand}]
  /\ stage \in [Process -> {"none", "filter", "divide", "ensure", "building", "verify",
                            "read", "answered", "withheld", "failed"}]
  /\ needed \in [Process -> SUBSET Prefix]

CommandOf(b) == StageOf(b) /\ NeedsOf(b) /\ AuditBuildOf(b) /\ ReadyOf(b)

CommandInv ==
  /\ BuildInv /\ KnownLive /\ CommandTypeOK
  /\ \A b \in Process : MatchedOf(b) /\ CommandOf(b)

-----------------------------------------------------------------------------
(* The builds                                                              *)

LEMMA MatchedStep ==
  ASSUME TypeOK, NEW b \in Process, ProcessStep(b), MatchedOf(b), OutcomeOf(b)
  PROVE  MatchedOf(b)'
<1> USE DEF TypeOK, Goto, Returns, MatchedOf, OutcomeOf
<1>1. CASE FetchCollections(b)
  BY <1>1 DEF FetchCollections
<1>2. CASE \/ FetchLastModified(b) \/ CacheLastModified(b) \/ LastModifiedFails(b)
           \/ Plan(b) \/ UpsertSets(b) \/ BuildFails(b) \/ FinishBuild(b)
  BY <1>2 DEF FetchLastModified, CacheLastModified, LastModifiedFails, Plan, UpsertSets,
       BuildFails, FinishBuild
<1>3. ASSUME NEW p \in Live, \/ FetchIcons(b, p) \/ CacheIcons(b, p) \/ FetchIconsFails(b, p)
                             \/ ReplaceIcons(b, p) \/ ReplaceIconsFails(b, p)
      PROVE  MatchedOf(b)'
  <2>1. pc' = pc /\ opts' = opts /\ sets' = sets /\ outcome' = outcome
    BY <1>3 DEF FetchIcons, CacheIcons, FetchIconsFails, ReplaceIcons, ReplaceIconsFails
  <2> QED
    BY <2>1
<1>4. CASE Exit(b) \/ Crash(b)
  BY <1>4 DEF Exit, Crash, Forget
<1>5. ASSUME NEW r \in Request, Start(b, r) PROVE MatchedOf(b)'
  BY <1>5 DEF Start
<1> QED
  BY <1>1, <1>2, <1>3, <1>4, <1>5 DEF ProcessStep, BuildStep

\* Only UpsertSets lists sets in icon_sets, those it matched.
LEMMA KnownLiveNext == TypeOK /\ KnownLive /\ [Next]_vars => KnownLive'
<1> SUFFICES ASSUME TypeOK, KnownLive, [Next]_vars PROVE KnownLive'
  OBVIOUS
<1>1. World \/ UNCHANGED vars => KnownLive'
  BY WorldKeeps DEF vars, dbVars, KnownLive
<1>2. ASSUME NEW b \in Process, ProcessStep(b) PROVE KnownLive'
  <2>1. CASE UpsertSets(b)
    BY <2>1 DEF UpsertSets, KnownLive, TypeOK
  <2>2. ASSUME ~UpsertSets(b) PROVE known' = known
    BY <1>2, <2>2 DEF ProcessStep, BuildStep, FetchCollections, FetchLastModified,
         CacheLastModified, LastModifiedFails, Plan, BuildFails, FetchIcons, CacheIcons,
         FetchIconsFails, ReplaceIcons, ReplaceIconsFails, FinishBuild, Start, Exit, Crash,
         dbVars
  <2> QED
    BY <2>1, <2>2 DEF KnownLive
<1> QED
  BY <1>1, <1>2 DEF Next, ProcessStep

\* A running build keeps its options, and only a start or an end begins or leaves it.
LEMMA BuildKeepsOptions ==
  ASSUME NEW b \in Process, BuildStep(b)
  PROVE  opts' = opts
BY DEF BuildStep, FetchCollections, FetchLastModified, CacheLastModified, LastModifiedFails,
     Plan, UpsertSets, BuildFails, FetchIcons, CacheIcons, FetchIconsFails, ReplaceIcons,
     ReplaceIconsFails, FinishBuild

\* A build that has succeeded has left rows in one of its sets ...
LEMMA BuiltSome ==
  ASSUME BuildInv, NEW b \in Process, MatchedOf(b), pc[b] = "returned", outcome[b] = "ok"
  PROVE  \E p \in sets[b] : rows[p] # 0
<1> SUFFICES ASSUME \A p \in sets[b] : rows[p] = 0 PROVE FALSE
  OBVIOUS
<1>1. sets[b] \subseteq failed[b] /\ ~TooManyFailed(b)
  BY DEF BuildInv, ProcessInv, SettledOf
<1>2. IsFiniteSet(failed[b]) /\ IsFiniteSet(sets[b])
  BY IconIndexAssumption, FS_Subset DEF BuildInv, TypeOK
<1>3. sets[b] # {}
  BY DEF MatchedOf
<1> DEFINE f == Cardinality(failed[b])
           s == Cardinality(sets[b])
<1>4. s <= f
  BY <1>1, <1>2, FS_Subset
<1>5. f \in Nat /\ s \in Nat /\ s # 0
  BY <1>2, <1>3, FS_CardinalityType, FS_EmptySet
<1>6. f <= s \div Tolerance
  <2>1. ~(f > s \div Tolerance)
    BY <1>1 DEF TooManyFailed
  <2>2. s \div Tolerance \in Int
    BY <1>5, IconIndexAssumption
  <2> HIDE DEF f, s
  <2> QED
    BY <1>5, <2>1, <2>2
<1> HIDE DEF f, s
<1>7. s \div Tolerance < s
  BY <1>5, IconIndexAssumption, IndexCommandsAssumption
<1> QED
  BY <1>4, <1>5, <1>6, <1>7, IconIndexAssumption

\* ... and, if they are fewer than Tolerance, in all of them.
LEMMA BuiltAll ==
  ASSUME BuildInv, NEW b \in Process, pc[b] = "returned", outcome[b] = "ok",
         Cardinality(sets[b]) < Tolerance
  PROVE  \A p \in sets[b] : rows[p] # 0
<1>1. /\ \A p \in sets[b] : p \in failed[b] \/ rows[p] # 0
      /\ ~TooManyFailed(b)
  BY DEF BuildInv, ProcessInv, SettledOf
<1>2. IsFiniteSet(failed[b]) /\ IsFiniteSet(sets[b])
  BY IconIndexAssumption, FS_Subset DEF BuildInv, TypeOK
<1> DEFINE f == Cardinality(failed[b])
           s == Cardinality(sets[b])
<1>3. f \in Nat /\ s \in Nat
  BY <1>2, FS_CardinalityType
<1>4. ~(f > s \div Tolerance) /\ s < Tolerance
  BY <1>1 DEF TooManyFailed
<1>5. f = 0
  <2> HIDE DEF f, s
  <2>1. s \div Tolerance = 0
    BY <1>3, <1>4, IconIndexAssumption
  <2> QED
    BY <1>3, <1>4, <2>1
<1>6. failed[b] = {}
  BY <1>2, <1>5, FS_EmptySet
<1> QED
  BY <1>1, <1>6

-----------------------------------------------------------------------------
(* The commands                                                            *)

\* What the process b does by itself: all but what its build does.
CommandStep(b) ==
  \/ \E c \in Command : Invoke(b, c)
  \/ Filter(b) \/ FilterFails(b) \/ Divide(b)
  \/ EnsureIndexed(b)
  \/ BuildReturned(b)
  \/ Verify(b)
  \/ Answer(b)
  \/ End(b)
  \/ Kill(b)

LEMMA CommandSteps ==
  CommandNext <=> \/ World /\ UNCHANGED commandVars
                  \/ \E b \in Process : \/ BuildStep(b) /\ UNCHANGED commandVars
                                        \/ CommandStep(b)
BY DEF CommandNext, CommandStep

\* A command starts a build with options in use.
LEMMA StartsOnRequest ==
  ASSUME TypeOK, NEW b \in Process, NEW only \in SUBSET Prefix, StartBuild(b, only)
  PROVE  (\E r \in Request : Start(b, r)) /\ opts'[b].only = only /\ rows' = rows
<1>1. [only |-> only, force |-> FALSE, noCache |-> NoCache] \in Request
  BY IndexCommandsAssumption
<1> QED
  BY <1>1 DEF StartBuild, Start, TypeOK, dbVars

LEMMA NamesPrefixes ==
  ASSUME NEW c \in Command
  PROVE  c.sets \in SUBSET Prefix
         /\ c.kind \in {"index", "set-pick", "swap", "audit", "shadcn"}
BY IndexCommandsAssumption

\* What ensureIndexed builds.
Wanted(b) == IF cmd[b].kind = "set-pick"
             THEN IF IndexEmpty THEN Bootstrap ELSE {}
             ELSE Unindexed(needed[b])

LEMMA EnsureWants ==
  ASSUME CommandTypeOK, NEW b \in Process, EnsureIndexed(b)
  PROVE  /\ Wanted(b) \in SUBSET Prefix
         /\ stage[b] = "ensure" /\ cmd' = cmd /\ needed' = needed
         /\ Wanted(b) = {} => MoveTo(b, Answering(b)) /\ UNCHANGED vars
         /\ Wanted(b) # {} => StartBuild(b, Wanted(b))
<1>1. Unindexed(needed[b]) \in SUBSET Prefix
  BY DEF CommandTypeOK, Unindexed
<1>2. Wanted(b) \in SUBSET Prefix
  BY <1>1, IndexCommandsAssumption DEF Wanted
<1> QED
  BY <1>2 DEF EnsureIndexed, Wanted

\* Whatever commands do to the mirror, the builds do.
LEMMA CommandsBuild ==
  ASSUME TypeOK, CommandTypeOK, NEW b \in Process, CommandStep(b)
  PROVE  ProcessStep(b) \/ UNCHANGED vars
<1>1. ASSUME NEW c \in Command, Invoke(b, c) PROVE ProcessStep(b) \/ UNCHANGED vars
  <2>1. CASE c.kind = "index"
    <3>1. StartBuild(b, c.sets)
      BY <1>1, <2>1 DEF Invoke
    <3> QED
      BY <3>1, StartsOnRequest, NamesPrefixes DEF ProcessStep
  <2>2. CASE c.kind # "index"
    BY <1>1, <2>2 DEF Invoke
  <2> QED
    BY <2>1, <2>2
<1>2. CASE EnsureIndexed(b)
  <2>1. CASE Wanted(b) = {}
    BY <1>2, <2>1, EnsureWants
  <2>2. CASE Wanted(b) # {}
    <3>1. Wanted(b) \in SUBSET Prefix /\ StartBuild(b, Wanted(b))
      BY <1>2, <2>2, EnsureWants
    <3> QED
      BY <3>1, StartsOnRequest DEF ProcessStep
  <2> QED
    BY <2>1, <2>2
<1>3. CASE Filter(b) \/ FilterFails(b) \/ Divide(b) \/ Verify(b) \/ Answer(b) \/ End(b)
  BY <1>3 DEF Filter, FilterFails, Divide, Verify, Answer, End
<1>4. CASE BuildReturned(b) \/ Kill(b)
  BY <1>4 DEF BuildReturned, Kill, ProcessStep
<1> QED
  BY <1>1, <1>2, <1>3, <1>4 DEF CommandStep

LEMMA CommandsAreBuilds ==
  ASSUME TypeOK, CommandTypeOK, [CommandNext]_allVars
  PROVE  [Next]_vars
<1>1. UNCHANGED allVars => UNCHANGED vars
  BY DEF allVars
<1> QED
  BY <1>1, CommandsBuild, CommandSteps DEF Next, ProcessStep

LEMMA MatchedNext ==
  ASSUME BuildInv, \A b \in Process : MatchedOf(b), [Next]_vars
  PROVE  \A b \in Process : MatchedOf(b)'
<1>1. CASE World \/ UNCHANGED vars
  <2>1. UNCHANGED buildVars
    BY <1>1, WorldKeeps DEF vars
  <2> QED
    BY <2>1 DEF buildVars, MatchedOf
<1>2. ASSUME NEW b \in Process, ProcessStep(b), NEW c \in Process PROVE MatchedOf(c)'
  <2>1. CASE c = b
    BY <1>2, <2>1, MatchedStep DEF BuildInv, ProcessInv
  <2>2. CASE c # b
    BY <1>2, <2>2, OthersKeep DEF BuildInv, MatchedOf
  <2> QED
    BY <2>1, <2>2
<1> QED
  BY <1>1, <1>2 DEF Next, ProcessStep

\* A command that does nothing itself loses nothing it relies on: rows stay.
LEMMA CommandKeeps ==
  ASSUME TypeOK, CommandTypeOK, [Next]_vars, NEW c \in Process, CommandOf(c),
         cmd'[c] = cmd[c], stage'[c] = stage[c], needed'[c] = needed[c], opts'[c] = opts[c]
  PROVE  CommandOf(c)'
<1>1. \A p \in Prefix : rows[p] # 0 => rows'[p] # 0
  BY RowsStay
<1>2. needed[c] \subseteq Prefix
  BY DEF CommandTypeOK
<1>3. StageOf(c)' /\ NeedsOf(c)'
  BY DEF CommandOf, StageOf, NeedsOf
<1>4. AuditBuildOf(c)'
  BY <1>1, <1>2 DEF CommandOf, AuditBuildOf
<1>5. ReadyOf(c)'
  BY <1>1, <1>2 DEF CommandOf, ReadyOf, Unindexed
<1> QED
  BY <1>3, <1>4, <1>5 DEF CommandOf

\* A command step is of one process.
LEMMA CommandsOfOthers ==
  ASSUME TypeOK, CommandTypeOK, NEW b \in Process, CommandStep(b), NEW c \in Process, c # b
  PROVE  /\ cmd'[c] = cmd[c] /\ stage'[c] = stage[c] /\ needed'[c] = needed[c]
         /\ opts'[c] = opts[c]
<1> DEFINE Kept == cmd'[c] = cmd[c] /\ stage'[c] = stage[c] /\ needed'[c] = needed[c]
<1> USE DEF CommandTypeOK, MoveTo
<1>1. ASSUME NEW d \in Command, Invoke(b, d) PROVE Kept
  BY <1>1 DEF Invoke, StartBuild
<1>2. ASSUME Filter(b) \/ FilterFails(b) \/ Divide(b) \/ Verify(b) \/ Answer(b) PROVE Kept
  BY <1>2 DEF Filter, FilterFails, Divide, Verify, Answer
<1>3. ASSUME EnsureIndexed(b) PROVE Kept
  BY <1>3 DEF EnsureIndexed, StartBuild
<1>4. ASSUME BuildReturned(b) PROVE Kept
  BY <1>4 DEF BuildReturned
<1>5. ASSUME End(b) \/ Kill(b) PROVE Kept
  BY <1>5 DEF End, Kill, Leave
<1>6. Kept
  BY <1>1, <1>2, <1>3, <1>4, <1>5 DEF CommandStep
<1>7. opts'[c] = opts[c]
  BY CommandsBuild, OthersKeep DEF vars, buildVars
<1> QED
  BY <1>6, <1>7

LEMMA CommandTypeNext ==
  ASSUME CommandTypeOK, CommandNext
  PROVE  CommandTypeOK'
<1> USE DEF CommandTypeOK, MoveTo
<1>1. UNCHANGED commandVars => CommandTypeOK'
  BY DEF commandVars
<1>2. ASSUME NEW b \in Process, NEW c \in Command, Invoke(b, c) PROVE CommandTypeOK'
  <2>1. (IF c.kind = "swap" THEN c.sets ELSE {}) \in SUBSET Prefix
    BY NamesPrefixes
  <2>2. \E s \in {"building", "filter", "read", "ensure", "divide"} :
          stage' = [stage EXCEPT ![b] = s]
    BY <1>2 DEF Invoke, StartBuild
  <2> QED
    BY <1>2, <2>1, <2>2 DEF Invoke
<1>3. ASSUME NEW b \in Process, Filter(b) PROVE CommandTypeOK'
  BY <1>3, ConstantFacts, IndexCommandsAssumption DEF Filter, NoCommand
<1>4. ASSUME NEW b \in Process, Divide(b) PROVE CommandTypeOK'
  BY <1>4, NamesPrefixes DEF Divide, NoCommand
<1>5. ASSUME NEW b \in Process, FilterFails(b) \/ Verify(b) \/ Answer(b) PROVE CommandTypeOK'
  BY <1>5 DEF FilterFails, Verify, Answer
<1>6. ASSUME NEW b \in Process, EnsureIndexed(b) PROVE CommandTypeOK'
  BY <1>6 DEF EnsureIndexed, StartBuild, Answering
<1>7. ASSUME NEW b \in Process, BuildReturned(b) PROVE CommandTypeOK'
  BY <1>7 DEF BuildReturned, Answering
<1>8. ASSUME NEW b \in Process, End(b) \/ Kill(b) PROVE CommandTypeOK'
  BY <1>8 DEF End, Kill, Leave
<1> QED
  BY <1>1, <1>2, <1>3, <1>4, <1>5, <1>6, <1>7, <1>8, CommandSteps DEF CommandStep

\* A new command is at the stage it starts with, and needs nothing it lacks.
LEMMA InvokeStep ==
  ASSUME TypeOK, CommandTypeOK, NEW b \in Process, NEW c \in Command, Invoke(b, c)
  PROVE  CommandOf(b)'
<1> USE DEF CommandTypeOK, MoveTo
<1>1. c.kind \in {"index", "set-pick", "swap", "audit", "shadcn"}
  BY NamesPrefixes
<1>2. cmd'[b] = c /\ needed'[b] = (IF c.kind = "swap" THEN c.sets ELSE {})
  BY DEF Invoke
<1>3. c.kind = "index" => stage'[b] = "building"
  BY DEF Invoke, StartBuild
<1>4. c.kind # "index"
        => /\ stage'[b] = CASE c.kind = "audit" -> "filter"
                            [] c.kind = "set-pick" /\ ~IndexEmpty -> "read"
                            [] c.kind = "shadcn" -> IF IndexEmpty THEN "read" ELSE "divide"
                            [] OTHER -> "ensure"
           /\ rows' = rows
  BY DEF Invoke, vars, dbVars
<1>5. StageOf(b)' /\ NeedsOf(b)' /\ AuditBuildOf(b)'
  BY <1>1, <1>2, <1>3, <1>4 DEF StageOf, NeedsOf, AuditBuildOf
<1>6. ReadyOf(b)'
  <2> SUFFICES ASSUME stage'[b] = "read" PROVE ReadyOf(b)'
    BY DEF ReadyOf
  <2>1. c.kind = "shadcn" \/ (c.kind = "set-pick" /\ ~IndexEmpty /\ rows' = rows)
    BY <1>1, <1>3, <1>4
  <2>2. ~IndexEmpty => \E p \in Prefix : rows[p] # 0
    BY DEF IndexEmpty
  <2> QED
    BY <1>2, <2>1, <2>2 DEF ReadyOf, Unindexed
<1> QED
  BY <1>5, <1>6 DEF CommandOf

\* Divide and Filter settle what the answer is about.
LEMMA SettleStep ==
  ASSUME TypeOK, KnownLive, CommandTypeOK, NEW b \in Process, CommandOf(b),
         Filter(b) \/ FilterFails(b) \/ Divide(b)
  PROVE  CommandOf(b)'
<1> USE DEF CommandTypeOK, MoveTo, CommandOf
<1>1. cmd' = cmd /\ rows' = rows
  BY DEF Filter, FilterFails, Divide, vars, dbVars
<1>2. CASE Filter(b)
  <2>1. cmd[b].kind = "audit"
    BY <1>2 DEF Filter, StageOf
  <2>2. needed'[b] \subseteq Live /\ stage'[b] = IF needed'[b] = {} THEN "read" ELSE "ensure"
    BY <1>2 DEF Filter, KnownLive
  <2> QED
    BY <1>1, <2>1, <2>2 DEF StageOf, NeedsOf, AuditBuildOf, ReadyOf, Unindexed
<1>3. CASE FilterFails(b)
  <2>1. stage'[b] = "failed" /\ needed' = needed
    BY <1>3 DEF FilterFails
  <2> QED
    BY <1>1, <2>1 DEF StageOf, NeedsOf, AuditBuildOf, ReadyOf
<1>4. CASE Divide(b)
  <2>1. cmd[b].kind = "shadcn" /\ stage'[b] = "read"
    BY <1>4 DEF Divide, StageOf
  <2>2. needed'[b] = cmd[b].sets \ Unindexed(cmd[b].sets)
    BY <1>4 DEF Divide
  <2>3. \A p \in needed'[b] : rows[p] # 0
    BY <2>2 DEF Unindexed
  <2> QED
    BY <1>1, <2>1, <2>3 DEF StageOf, NeedsOf, AuditBuildOf, ReadyOf, Unindexed
<1> QED
  BY <1>2, <1>3, <1>4

\* A command that misses nothing goes on, and one that does builds just that.
LEMMA EnsureStep ==
  ASSUME TypeOK, CommandTypeOK, NEW b \in Process, CommandOf(b), EnsureIndexed(b)
  PROVE  CommandOf(b)'
<1> USE DEF CommandTypeOK, MoveTo, CommandOf
<1>1. /\ cmd' = cmd /\ needed' = needed
      /\ cmd[b].kind \in {"set-pick", "swap", "audit"}
  BY EnsureWants DEF StageOf
<1>2. CASE Wanted(b) = {}
  <2>1. stage'[b] = Answering(b) /\ rows' = rows
    BY <1>2, EnsureWants DEF vars, dbVars
  <2>2. cmd[b].kind = "set-pick" => \E p \in Prefix : rows[p] # 0
    BY <1>2, IndexCommandsAssumption DEF Wanted, IndexEmpty
  <2>3. cmd[b].kind # "set-pick" => Unindexed(needed[b]) = {}
    BY <1>2 DEF Wanted
  <2> QED
    BY <1>1, <2>1, <2>2, <2>3
       DEF Answering, StageOf, NeedsOf, AuditBuildOf, ReadyOf, Unindexed
<1>3. CASE Wanted(b) # {}
  <2>1. StartBuild(b, Wanted(b)) /\ Wanted(b) \in SUBSET Prefix
    BY <1>3, EnsureWants
  <2>2. opts'[b].only = Wanted(b) /\ rows' = rows
    BY <2>1, StartsOnRequest
  <2>3. stage'[b] = "building"
    BY <2>1 DEF StartBuild
  <2>4. cmd[b].kind = "audit" => Wanted(b) = {p \in needed[b] : rows[p] = 0}
    BY DEF Wanted, Unindexed
  <2> QED
    BY <1>1, <1>3, <2>2, <2>3, <2>4 DEF StageOf, NeedsOf, AuditBuildOf, ReadyOf
<1> QED
  BY <1>2, <1>3

\* A build that an audit waited for, of fewer than Tolerance sets, left rows in all.
LEMMA AuditBuilt ==
  ASSUME BuildInv, CommandTypeOK, NEW b \in Process, CommandOf(b), MatchedOf(b),
         stage[b] = "building", cmd[b].kind = "audit", pc[b] = "returned",
         outcome[b] = "ok", Cardinality(needed[b]) < Tolerance
  PROVE  Unindexed(needed[b]) = {}
<1>1. /\ needed[b] \subseteq Live /\ opts[b].only \subseteq needed[b] /\ opts[b].only # {}
      /\ \A p \in needed[b] \ opts[b].only : rows[p] # 0
  BY DEF CommandOf, NeedsOf, AuditBuildOf
<1>2. sets[b] = opts[b].only
  BY <1>1 DEF MatchedOf, Matched
<1>3. IsFiniteSet(needed[b])
  BY <1>1, IconIndexAssumption, FS_Subset
<1>4. Cardinality(sets[b]) <= Cardinality(needed[b]) /\ IsFiniteSet(sets[b])
  BY <1>1, <1>2, <1>3, FS_Subset
<1>5. Cardinality(sets[b]) \in Nat /\ Cardinality(needed[b]) \in Nat
  BY <1>3, <1>4, FS_CardinalityType
<1>6. Cardinality(sets[b]) < Tolerance
  BY <1>4, <1>5, IconIndexAssumption
<1>7. \A p \in sets[b] : rows[p] # 0
  BY <1>6, BuiltAll
<1> QED
  BY <1>1, <1>2, <1>7 DEF Unindexed

\* After a build of its own a command has what it waited for, or fails.
LEMMA ReturnStep ==
  ASSUME BuildInv, CommandTypeOK, NEW b \in Process, CommandOf(b), MatchedOf(b),
         BuildReturned(b)
  PROVE  CommandOf(b)'
<1> USE DEF CommandTypeOK, MoveTo, BuildInv
<1>1. /\ cmd' = cmd /\ needed' = needed /\ rows' = rows
      /\ stage[b] = "building" /\ pc[b] = "returned"
      /\ stage'[b] \in {"failed", "answered", "verify", "read"}
  BY DEF BuildReturned, Exit, dbVars, Answering
<1>2. cmd[b].kind \in {"index", "set-pick", "swap", "audit"}
  BY <1>1 DEF CommandOf, StageOf
<1>3. stage'[b] = "verify" => cmd[b].kind = "swap"
  BY DEF BuildReturned, Answering
<1>4. stage'[b] = "read" => outcome[b] = "ok" /\ cmd[b].kind \in {"set-pick", "audit"}
  <2>1. stage'[b] = "read" => outcome[b] # "error" /\ cmd[b].kind \in {"set-pick", "audit"}
    BY <1>2 DEF BuildReturned, Answering
  <2>2. outcome[b] # "none" /\ outcome[b] \in {"none", "ok", "error"}
    BY <1>1 DEF ProcessInv, OutcomeOf, TypeOK
  <2> QED
    BY <2>1, <2>2
<1>5. StageOf(b)' /\ NeedsOf(b)' /\ AuditBuildOf(b)'
  BY <1>1, <1>3 DEF CommandOf, StageOf, NeedsOf, AuditBuildOf
<1>6. ReadyOf(b)'
  <2>1. ASSUME stage'[b] = "read", cmd[b].kind = "set-pick"
        PROVE  \E p \in Prefix : rows[p] # 0
    BY <1>1, <1>4, <2>1, BuiltSome, ConstantFacts DEF TypeOK
  <2>2. ASSUME stage'[b] = "read", cmd[b].kind = "audit", Cardinality(needed[b]) < Tolerance
        PROVE  Unindexed(needed[b]) = {}
    BY <1>1, <1>4, <2>2, AuditBuilt
  <2> QED
    BY <1>1, <1>4, <2>1, <2>2 DEF ReadyOf, Unindexed
<1> QED
  BY <1>5, <1>6 DEF CommandOf

LEMMA EndStep ==
  ASSUME TypeOK, CommandTypeOK, NEW b \in Process, CommandOf(b),
         Verify(b) \/ Answer(b) \/ End(b) \/ Kill(b)
  PROVE  CommandOf(b)'
<1> USE DEF CommandTypeOK, MoveTo, CommandOf
<1>1. CASE Verify(b)
  <2>1. cmd' = cmd /\ needed' = needed /\ rows' = rows /\ cmd[b].kind = "swap"
    BY <1>1 DEF Verify, StageOf, vars, dbVars
  <2>2. /\ stage'[b] \in {"withheld", "read"}
        /\ stage'[b] = "read" => Unindexed(needed[b]) = {}
    BY <1>1 DEF Verify, Withholds
  <2> QED
    BY <2>1, <2>2 DEF StageOf, NeedsOf, AuditBuildOf, ReadyOf, Unindexed
<1>2. CASE Answer(b)
  <2>1. cmd' = cmd /\ needed' = needed /\ stage'[b] = "answered"
    BY <1>2 DEF Answer
  <2> QED
    BY <2>1 DEF StageOf, NeedsOf, AuditBuildOf, ReadyOf
<1>3. CASE End(b) \/ Kill(b)
  <2>1. cmd'[b] = NoCommand /\ needed'[b] = {} /\ stage'[b] = "none"
    BY <1>3 DEF End, Kill, Leave
  <2> QED
    BY <2>1 DEF StageOf, NeedsOf, AuditBuildOf, ReadyOf, NoCommand
<1> QED
  BY <1>1, <1>2, <1>3

-----------------------------------------------------------------------------
(* The theorems                                                            *)

LEMMA CommandInvInit == CommandInit => CommandInv
<1> SUFFICES ASSUME CommandInit PROVE CommandInv
  OBVIOUS
<1>1. BuildInv
  BY BuildInvInit DEF CommandInit
<1>2. KnownLive /\ CommandTypeOK
  BY DEF CommandInit, Init, KnownLive, CommandTypeOK
<1>3. ASSUME NEW b \in Process PROVE MatchedOf(b) /\ CommandOf(b)
  BY DEF CommandInit, Init, MatchedOf, CommandOf, StageOf, NeedsOf, AuditBuildOf, ReadyOf,
     NoCommand
<1> QED
  BY <1>1, <1>2, <1>3 DEF CommandInv

LEMMA CommandInvNext == CommandInv /\ [CommandNext]_allVars => CommandInv'
<1> SUFFICES ASSUME CommandInv, [CommandNext]_allVars PROVE CommandInv'
  OBVIOUS
<1> USE DEF CommandInv
<1>1. TypeOK /\ [Next]_vars
  BY CommandsAreBuilds DEF BuildInv
<1>2. BuildInv' /\ KnownLive' /\ \A b \in Process : MatchedOf(b)'
  BY <1>1, BuildInvNext, KnownLiveNext, MatchedNext
<1>3. CASE UNCHANGED allVars \/ (World /\ UNCHANGED commandVars)
  <2>1. UNCHANGED commandVars /\ opts' = opts
    BY <1>3, WorldKeeps DEF allVars, vars, buildVars
  <2>2. CommandTypeOK'
    BY <2>1 DEF commandVars, CommandTypeOK
  <2>3. ASSUME NEW c \in Process PROVE CommandOf(c)'
    BY <1>1, <2>1, CommandKeeps DEF commandVars
  <2> QED
    BY <1>2, <2>2, <2>3
<1>4. ASSUME NEW b \in Process, BuildStep(b), UNCHANGED commandVars PROVE CommandInv'
  <2>1. opts' = opts
    BY <1>4, BuildKeepsOptions
  <2>2. CommandTypeOK'
    BY <1>4 DEF commandVars, CommandTypeOK
  <2>3. ASSUME NEW c \in Process PROVE CommandOf(c)'
    BY <1>1, <1>4, <2>1, CommandKeeps DEF commandVars
  <2> QED
    BY <1>2, <2>2, <2>3
<1>5. ASSUME NEW b \in Process, CommandStep(b) PROVE CommandInv'
  <2>1. CommandTypeOK'
    BY <1>5, CommandSteps, CommandTypeNext
  <2>2. CommandOf(b)'
    BY <1>1, <1>5, InvokeStep, SettleStep, EnsureStep, ReturnStep, EndStep DEF CommandStep
  <2>3. ASSUME NEW c \in Process, c # b PROVE CommandOf(c)'
    BY <1>1, <1>5, <2>3, CommandsOfOthers, CommandKeeps
  <2> QED
    BY <1>2, <2>1, <2>2, <2>3
<1> QED
  BY <1>3, <1>4, <1>5, CommandSteps

\* Commands, beside builds of their own and of others, keep to their stages, and one
\* about to answer has what the answer is about.
THEOREM CommandInvariant == CommandSpec => []CommandInv
BY CommandInvInit, CommandInvNext, PTL DEF CommandSpec

\* No command answers from a mirror that lacks what the answer is about, however
\* many processes fill it, fail and die (IndexCommands!AnswersLooked).
THEOREM AnswersLookedCorrect == CommandSpec => AnswersLooked
<1> DEFINE Looked(b) ==
      /\ AnswerOf(b, "swap") => Unindexed(cmd[b].sets) = {}
      /\ AnswerOf(b, "set-pick") => \E p \in Prefix : rows[p] # 0
      /\ AnswerOf(b, "audit") /\ Cardinality(needed[b]) < Tolerance
           => Unindexed(needed[b]) = {}
      /\ AnswerOf(b, "shadcn") => Unindexed(needed[b]) = {}
<1>1. CommandInv => \A b \in Process : Looked(b)
  BY DEF CommandInv, CommandOf, NeedsOf, ReadyOf, AnswerOf, Answer
<1>2. CommandInv /\ [CommandNext]_allVars => [\A b \in Process : Looked(b)]_allVars
  BY <1>1
<1> QED
  BY <1>2, CommandInvariant, PTL DEF CommandSpec, AnswersLooked

\* The commands start no step on the mirror that IconIndex does not have, so that
\* whatever is proved of its builds holds beside every command (IconIndex!Spec).
THEOREM CommandsImplementBuilds == CommandSpec => Spec
<1>1. CommandInit => Init
  BY DEF CommandInit
<1>2. CommandInv /\ [CommandNext]_allVars => [Next]_vars
  BY CommandsAreBuilds DEF CommandInv, BuildInv
<1> QED
  BY <1>1, <1>2, CommandInvariant, PTL DEF CommandSpec, Spec
=============================================================================
