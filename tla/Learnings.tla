------------------------------ MODULE Learnings ------------------------------
(***************************************************************************)
(* The learnings of the store and recall over them (learn/recall.go,       *)
(* promote.go, match.go, patterns, lookups; store/learnings.go; the teach, *)
(* recall, forget, teach-lookup and sync commands).                        *)
(*                                                                         *)
(* A word stands for its lower-case form; stopwords and synonyms are gone  *)
(* from every query.  A query marks the words the extractor takes for      *)
(* entities, by their capitals: the store keeps the words without marks.   *)
(* A resource id is the text around an entity: frame, the word it holds,   *)
(* tail; ids with the same frame differ in the other two.                  *)
(***************************************************************************)
EXTENDS Integers, FiniteSets

CONSTANTS
    Word,
    Part, Starts,   \* the words within each word, and those it begins with
    Query,          \* set of [words, marked]
    Resource,       \* resource ids: set of [frame, holds, tail]
    Names,          \* the words that name each resource in its data
    Seeds,          \* entity_lookups rows that every start inserts
    Taught,         \* rows teach-lookup may insert
    Patterns,       \* rows teach-pattern may insert
    Teacher,        \* processes that teach
    Syncer,         \* processes that sync
    SyncedCap,      \* PerKindCap
    Limit,          \* --limit
    Teaches         \* bound: teach commands

NoWord == "no word"

\* One contains the other: strings.Contains in both directions.
Kin(v, w) == v \in Part[w] \/ w \in Part[v]
AnyKin(mine, theirs) == \E v \in mine, w \in theirs : Kin(v, w)

ASSUME LearningsAssumption ==
    /\ {Part, Starts} \subseteq [Word -> SUBSET Word]
    /\ \A w \in Word : w \in Starts[w] /\ Starts[w] \subseteq Part[w]
    /\ \A q \in Query : /\ q.marked \subseteq q.words /\ q.words \subseteq Word
                        /\ IsFiniteSet(q.words)
    /\ \A r \in Resource : r.holds \in Word \cup {NoWord}
    /\ Names \in [Resource -> SUBSET Word] /\ \A r \in Resource : IsFiniteSet(Names[r])
    /\ \A l \in Seeds \cup Taught :
         {l.canonical, l.value} \subseteq Word /\ l.source # "synced"
    /\ IsFiniteSet(Syncer)
    /\ SyncedCap \in Nat /\ Limit \in Nat /\ Teaches \in Nat

VARIABLES
    rows,           \* search_learnings
    patterns,       \* search_patterns
    lookups,        \* entity_lookups
    misses,         \* learn_recall_misses
    local,          \* the resources in the store
    teach,          \* each teacher: its query, resource, entities, step
    refresh,        \* each syncer: what it has loaded and will insert
    teachesLeft

learnVars == <<rows, patterns, lookups, misses, local, teach, refresh, teachesLeft>>

Lookup(c, v, s) == [canonical |-> c, value |-> v, source |-> s]

\* lookups.Upsert: INSERT OR IGNORE, whatever the source.  The kind of a row is left
\* out: rows of one canonical and value are of one kind.
WithLookup(l) ==
    IF \E k \in lookups : k.canonical = l.canonical /\ k.value = l.value
    THEN lookups ELSE lookups \cup {l}

NoTeach == [step |-> "idle", query |-> [words |-> {}, marked |-> {}],
            id |-> [frame |-> "", holds |-> NoWord, tail |-> ""], entities |-> {},
            knew |-> {}]
NoRefresh == [step |-> "idle", missed |-> {}, resolvable |-> {}, room |-> 0,
              found |-> {}, insert |-> {}]

LearnInit ==
    /\ rows = {} /\ patterns = {} /\ lookups = Seeds /\ misses = {} /\ local = {}
    /\ teach = [p \in Teacher |-> NoTeach]
    /\ refresh = [p \in Syncer |-> NoRefresh]
    /\ teachesLeft = Teaches

-----------------------------------------------------------------------------
(* Normalising a query                                                     *)

\* CanonicalResolver.Resolve: by either column, over all kinds and sources.
Resolve(w) == {l.canonical : l \in {l \in lookups : w \in {l.value, l.canonical}}}
ResolveSet(words) == UNION {Resolve(w) : w \in words}

Known(words) == {w \in words : Resolve(w) # {}}

\* PromoteEntities: the words a lookup knows join the marked ones.
Entities(q) == q.marked \cup Known(q.words)

\* The entities and the other words of a stored row; a row without entities
\* has those of its words that resolve today.
RowEntities(row) == IF row.entities # {} THEN row.entities ELSE Known(row.words)

\* A score, as a fraction; 0 when either side is empty.
Jaccard(a, b) == IF a = {} \/ b = {} THEN <<0, 1>>
                 ELSE <<Cardinality(a \cap b), Cardinality(a \cup b)>>
NotBelow(s, t) == s[1] * t[2] >= t[1] * s[2]
Better(s, t) == IF NotBelow(s, t) THEN s ELSE t

JaccardMin == <<3, 5>>
CrossAliasJaccardMin == <<3, 10>>

-----------------------------------------------------------------------------
(* Recall over the learned rows                                            *)

Overlap(q, row) == ResolveSet(Entities(q)) \cap ResolveSet(RowEntities(row)) # {}

\* Broken: nothing stands in for words that are all entities.
DirectWordsOnly(q, row) == Jaccard(q.words \ Entities(q), row.words \ RowEntities(row))

\* The score under which a row counts, before any fallback.
Direct(q, row) ==
    LET words == q.words \ Entities(q)
        stored == row.words \ RowEntities(row)
        s == Jaccard(words, stored)
    IN  IF ~NotBelow(s, JaccardMin) /\ words = {} /\ stored = {}
        THEN Jaccard(Entities(q), RowEntities(row)) ELSE s

\* Another name for the same entity, or another entity in the same words.
CrossAlias(q, row) ==
    /\ Entities(q) \cap RowEntities(row) = {}
    /\ \/ Overlap(q, row)
            /\ NotBelow(Better(Direct(q, row),
                  Jaccard(ResolveSet(Entities(q)), ResolveSet(RowEntities(row)))),
                CrossAliasJaccardMin)
       \/ ~Overlap(q, row) /\ Entities(q) # {} /\ RowEntities(row) # {}
            /\ NotBelow(Direct(q, row), CrossAliasJaccardMin)

Admitted(q, row) == NotBelow(Direct(q, row), JaccardMin) \/ CrossAlias(q, row)

Score(q, row) ==
    IF NotBelow(Direct(q, row), JaccardMin) \/ ~Overlap(q, row) THEN Direct(q, row)
    ELSE Better(Direct(q, row), Jaccard(ResolveSet(Entities(q)), ResolveSet(RowEntities(row))))

\* ClassifyEntityMatch
Classify(mine, theirs) ==
    CASE mine = {} \/ theirs = {}     -> "partial"
      [] AnyKin(mine, theirs)         -> "exact"
      [] OTHER                        -> "mismatch"

\* Broken: whatever passed the scores is taken for the same entity.
VerdictTrusting(q, row) ==
    IF Entities(q) # {} THEN "exact" ELSE "partial"

\* validateResource: no command tells it which fields of a stored resource name
\* entities, so a resource in the store has none.  Rows of the same canonical
\* are then promoted.
Verdict(q, row) ==
    LET v == IF row.id \in local THEN Classify(Entities(q), {})
             ELSE IF Entities(q) = {} /\ RowEntities(row) = {} THEN "unknown"
             ELSE Classify(Entities(q), RowEntities(row))
    IN  IF Overlap(q, row) /\ v = "mismatch" THEN "exact" ELSE v

DirectHits(q) ==
    {[id |-> row.id, match |-> Verdict(q, row), source |-> "taught",
      confidence |-> row.confidence, score |-> Score(q, row)] :
       row \in {row \in rows : Admitted(q, row)}}

-----------------------------------------------------------------------------
(* Patterns                                                                *)

\* tryExactBinding and tryPrefixBinding over the computed kinds, which resolve
\* every entity to itself: members of one group that have one entity each, and
\* put it in the same place of their ids.
Binding(members) ==
    {[frame |-> m.id.frame, tail |-> m.id.tail, prefix |-> FALSE, kind |-> "computed"] : m \in
        {m \in members : \A n \in members : n.id.frame = m.id.frame /\ n.id.tail = m.id.tail}}
    \cup
    {[frame |-> m.id.frame, tail |-> "", prefix |-> TRUE, kind |-> "computed"] : m \in
        {m \in members : /\ \A n \in members : n.id.frame = m.id.frame /\ n.id.tail # ""
                         /\ \E n \in members : n.id.tail # m.id.tail}}

\* patterns.Extract
Groups == {{row \in rows : row.entities # {} /\ row.words \ row.entities = words} :
             words \in {row.words \ row.entities : row \in rows} \ {{}}}

\* patterns.Upsert: a pattern of the same templates keeps its kind; what observing
\* it again adds to its confidence is left out.
SameTemplates(pat, other) ==
    /\ pat.words = other.words /\ pat.frame = other.frame
    /\ pat.tail = other.tail /\ pat.prefix = other.prefix

WithPatterns(new) ==
    patterns \cup {pat \in new : \A other \in patterns : ~SameTemplates(pat, other)}

BindsEntity(members) == \A m \in members : m.entities = {m.id.holds}

\* What the members of a group have in common.
SharedWords(members) == UNION {m.words \ m.entities : m \in members}

Inferred ==
    UNION {{[words |-> SharedWords(g), frame |-> b.frame, tail |-> b.tail,
             prefix |-> b.prefix, kind |-> b.kind] : b \in Binding(g)} :
        g \in {g \in Groups : Cardinality(g) >= 2 /\ BindsEntity(g)}}

\* lookups.Lookup: what is put into the slot; of several rows any.
Values(pat, e) == IF pat.kind = "computed" THEN {e}
                  ELSE {l.value : l \in {l \in lookups : l.canonical = e}}

\* substituteCandidate and verifyCandidate: with a prefix, whatever the id goes on
\* with, be it the rest of a longer word.
Substituted(pat, e) ==
    {r \in local :
       /\ r.frame = pat.frame /\ r.holds \in Word
       /\ \/ pat.prefix /\ Starts[r.holds] \cap Values(pat, e) # {}
          \/ ~pat.prefix /\ r.holds \in Values(pat, e) /\ r.tail = pat.tail}

\* patterns.Apply, less what a direct hit shows already.
PatternHits(q) ==
    {[id |-> CHOOSE r \in UNION {Substituted(pat, e) : e \in Entities(q)} : TRUE,
      match |-> "exact", source |-> "pattern", confidence |-> 2,
      score |-> Jaccard(q.words \ Entities(q), pat.words)] :
       pat \in {pat \in patterns :
          /\ NotBelow(Jaccard(q.words \ Entities(q), pat.words), JaccardMin)
          /\ \E e \in Entities(q) : Substituted(pat, e) # {}}}

-----------------------------------------------------------------------------
(* The answer                                                              *)

Hits(q) ==
    LET direct == {h \in DirectHits(q) : h.match # "mismatch"}
    IN  direct \cup {h \in PatternHits(q) : \A d \in direct : d.id # h.id}

Priority(match) == CASE match = "exact" -> 0 [] match = "partial" -> 1 [] OTHER -> 2

\* sortHits, up to the time a hit was last observed.
Before(h, k) ==
    \/ Priority(h.match) < Priority(k.match)
    \/ /\ h.match = k.match
       /\ \/ h.source = "taught" /\ k.source = "pattern"
          \/ h.source = k.source /\ h.confidence > k.confidence
          \/ /\ h.source = k.source /\ h.confidence = k.confidence
             /\ NotBelow(h.score, k.score) /\ ~NotBelow(k.score, h.score)

MayShow(q) == {h \in Hits(q) : Cardinality({k \in Hits(q) : Before(k, h)}) < Limit}

Recall(q) ==
    /\ misses' = misses \cup {w \in Entities(q) : Resolve(w) = {}}
    /\ UNCHANGED <<rows, patterns, lookups, local, teach, refresh, teachesLeft>>

-----------------------------------------------------------------------------
(* Teaching and forgetting                                                 *)

InTeach(p, step) == teach[p].step = step

\* The teach command normalises its query, and later writes the row.
BeginTeach(p, q, r) ==
    /\ InTeach(p, "idle") /\ teachesLeft > 0
    /\ teachesLeft' = teachesLeft - 1
    /\ teach' = [teach EXCEPT ![p] = [step |-> "promoted", query |-> q, id |-> r,
                                      entities |-> Entities(q), knew |-> Known(q.words)]]
    /\ UNCHANGED <<rows, patterns, lookups, misses, local, refresh>>

Old(p) == {row \in rows : row.words = teach[p].query.words /\ row.id = teach[p].id}

\* What it was taught with, and what resolved then, is history.
NewRow(p) == [words |-> teach[p].query.words, id |-> teach[p].id,
              entities |-> teach[p].entities, confidence |-> 2,
              by |-> teach[p].query, knew |-> teach[p].knew]

Bumped(row) == [row EXCEPT !.confidence = @ + 1]

\* Broken: taught again, a row is written again.
UpsertedTwice(p) == rows \cup {NewRow(p)} \cup {Bumped(row) : row \in Old(p)}

Upserted(p) == IF Old(p) = {} THEN rows \cup {NewRow(p)}
               ELSE (rows \ Old(p)) \cup {Bumped(row) : row \in Old(p)}

\* A query of nothing but stopwords is refused, and its command fails.
UpsertLearning(p) ==
    /\ InTeach(p, "promoted") /\ teach[p].query.words # {}
    /\ rows' = Upserted(p)
    /\ teach' = [teach EXCEPT ![p].step = "taught"]
    /\ UNCHANGED <<patterns, lookups, misses, local, refresh, teachesLeft>>

Extract(p) ==
    /\ InTeach(p, "taught")
    /\ patterns' = WithPatterns(Inferred)
    /\ teach' = [teach EXCEPT ![p] = NoTeach]
    /\ UNCHANGED <<rows, lookups, misses, local, refresh, teachesLeft>>

TeachDies(p) ==
    /\ ~InTeach(p, "idle")
    /\ teach' = [teach EXCEPT ![p] = NoTeach]
    /\ UNCHANGED <<rows, patterns, lookups, misses, local, refresh, teachesLeft>>

\* ForgetLearnings with --resource, or with --all.
Forget(q, ids) ==
    /\ rows' = {row \in rows : row.words # q.words \/ row.id \notin ids}
    /\ UNCHANGED <<patterns, lookups, misses, local, teach, refresh, teachesLeft>>

TeachPattern(pat) ==
    /\ patterns' = WithPatterns({pat})
    /\ UNCHANGED <<rows, lookups, misses, local, teach, refresh, teachesLeft>>

TeachLookup(l) ==
    /\ lookups' = WithLookup(l)
    /\ UNCHANGED <<rows, patterns, misses, local, teach, refresh, teachesLeft>>

-----------------------------------------------------------------------------
(* Lookups from synced resources                                           *)

InRefresh(p, step) == refresh[p].step = step

StoreResource(r) ==
    /\ local' = local \cup {r}
    /\ UNCHANGED <<rows, patterns, lookups, misses, teach, refresh, teachesLeft>>

Synced == {l \in lookups : l.source = "synced"}

\* Broken: off by one.
RoomLessOne == SyncedCap - Cardinality(Synced) - 1

Room == IF SyncedCap > Cardinality(Synced) THEN SyncedCap - Cardinality(Synced) ELSE 0

\* RefreshFromSynced: the misses, the forms that resolve, the synced rows.
LoadRefresh(p) ==
    /\ InRefresh(p, "idle") /\ misses # {}
    /\ refresh' = [refresh EXCEPT ![p] =
         [NoRefresh EXCEPT !.step = "loaded", !.missed = misses,
            !.resolvable = {w \in Word : Resolve(w) # {}}, !.room = Room]]
    /\ UNCHANGED <<rows, patterns, lookups, misses, local, teach, teachesLeft>>

\* The names of stored resources that were missed, or contain or are within what
\* was (matchesRecordedMiss), and do not resolve.
StoredNames == UNION {Names[r] : r \in local}
Eligible(p) == {n \in StoredNames : AnyKin({n}, refresh[p].missed)} \ refresh[p].resolvable

\* collectSyncedCandidates, in the order of the ids, while there is room.
Collect(p) ==
    /\ InRefresh(p, "loaded")
    /\ \E chosen \in SUBSET Eligible(p) :
         /\ Cardinality(chosen) <= refresh[p].room
         /\ chosen = Eligible(p) \/ Cardinality(chosen) = refresh[p].room
         /\ refresh' = [refresh EXCEPT ![p].step = "insert", ![p].found = Eligible(p),
                                       ![p].insert = chosen]
    /\ UNCHANGED <<rows, patterns, lookups, misses, local, teach, teachesLeft>>

InsertSynced(p) ==
    /\ InRefresh(p, "insert")
    /\ \E w \in refresh[p].insert :
         /\ lookups' = WithLookup(Lookup(w, w, "synced"))
         /\ refresh' = [refresh EXCEPT ![p].insert = @ \ {w}]
    /\ UNCHANGED <<rows, patterns, misses, local, teach, teachesLeft>>

EndRefresh(p) ==
    /\ InRefresh(p, "insert") /\ refresh[p].insert = {}
    /\ refresh' = [refresh EXCEPT ![p] = NoRefresh]
    /\ UNCHANGED <<rows, patterns, lookups, misses, local, teach, teachesLeft>>

\* A failing statement is a warning; so is the death of the process.
RefreshFails(p) ==
    /\ ~InRefresh(p, "idle")
    /\ refresh' = [refresh EXCEPT ![p] = NoRefresh]
    /\ UNCHANGED <<rows, patterns, lookups, misses, local, teach, teachesLeft>>

\* What several processes do to the store besides.
DataNext ==
    \/ \E l \in Taught : TeachLookup(l)
    \/ \E r \in Resource : StoreResource(r)

TeachNext ==
    \/ \E q \in Query :
         \/ \E ids \in {{r} : r \in Resource} \cup {Resource} : Forget(q, ids)
         \/ \E p \in Teacher, r \in Resource : BeginTeach(p, q, r)
    \/ \E pat \in Patterns : TeachPattern(pat)
    \/ \E p \in Teacher : UpsertLearning(p) \/ Extract(p) \/ TeachDies(p)

RefreshNext ==
    \/ \E q \in Query : Recall(q)
    \/ \E p \in Syncer :
         LoadRefresh(p) \/ Collect(p) \/ InsertSynced(p) \/ EndRefresh(p) \/ RefreshFails(p)

LearnNext == TeachNext \/ RefreshNext \/ DataNext

LearnSpec == LearnInit /\ [][LearnNext]_learnVars

-----------------------------------------------------------------------------

LearnTypeOK ==
    /\ \A row \in rows : row.words \subseteq Word /\ row.entities \subseteq row.words
         /\ row.id \in Resource /\ row.confidence \in 2 .. 1 + Teaches
    /\ \A row, other \in rows : row.words = other.words /\ row.id = other.id => row = other
    /\ misses \subseteq Word /\ local \subseteq Resource
    /\ teachesLeft \in 0 .. Teaches

\* "If entity_match is exact the agent can skip discovery": an exact hit, in
\* whatever place, is about an entity of the query: the row it comes from has an
\* entity that is, contains or is within one of the query's, or a canonical both
\* have; or a pattern found a stored resource whose id holds one of them, what it
\* stands for, or a longer word that begins so.  The same entity it need not be:
\* containment is enough, and deliberately so (ClassifyEntityMatch).
ExactMeansSame ==
    \A q \in Query : \A h \in MayShow(q) :
        h.match = "exact" =>
            \/ /\ h.source = "pattern" /\ h.id \in local
               /\ \E e \in Entities(q), w \in Starts[h.id.holds] : e = w \/ e \in Resolve(w)
            \/ \E row \in rows : /\ row.id = h.id
                                 /\ AnyKin(Entities(q), RowEntities(row)) \/ Overlap(q, row)

\* A query that was taught is answered: as long as no more of its words resolve
\* than when it was, the same words find the row, or its mismatch.
StillFound ==
    \A row \in rows : Known(row.words) = row.knew => Admitted(row.by, row)

\* A refresh heals: when it has ended, every name in the store that it found to be
\* kin to what was missed resolves, unless the cap is reached or a lookup that
\* others inserted meanwhile took a place; and each refresh at work adds at most the cap.
RefreshHeals ==
    [][\A p \in Syncer : EndRefresh(p) =>
         /\ \A w \in refresh[p].found :
              \/ Resolve(w) # {}
              \/ Cardinality(Synced) >= SyncedCap
              \/ \E l \in lookups \ Synced :
                   l.canonical = l.value /\ l.value \in refresh[p].found
         /\ Cardinality(Synced) <= SyncedCap * Cardinality(Syncer)]_learnVars
=============================================================================
