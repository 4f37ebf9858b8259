---------------------------- MODULE LearningProofs ----------------------------
(***************************************************************************)
(* Learnings: an exact hit is about the entity asked for, what was taught  *)
(* is found, and a refresh heals within the cap, for any words, queries,   *)
(* resources, teachers and syncers.  Playbooks: amends are kept and a      *)
(* recorded release is shown whole, for any families and releases and for  *)
(* any number of processes that start, fail and die.  And what holds of    *)
(* both when they are put side by side (MCLearning).                       *)
(***************************************************************************)
EXTENDS MCLearning, FiniteSetTheorems, FunctionTheorems, TLAPS

-----------------------------------------------------------------------------
(* Learnings: the shape of what is stored.                                   *)

LearnRow ==
    [words : SUBSET Word, id : Resource, entities : SUBSET Word, confidence : Nat,
     by : Query, knew : SUBSET Word]

TeachState ==
    [step : {"idle", "promoted", "taught"}, query : Query \cup {NoTeach.query},
     id : Resource \cup {NoTeach.id}, entities : SUBSET Word, knew : SUBSET Word]

\* What a teach has in hand was normalized as its query was.
TeachInv(t) ==
    t.step # "idle" =>
        /\ t.query \in Query /\ t.id \in Resource
        /\ t.entities = t.query.marked \cup t.knew /\ t.knew \subseteq t.query.words

\* A row says what its query was taught with.
RowInv(row) ==
    /\ row.words = row.by.words /\ row.words # {}
    /\ row.entities = row.by.marked \cup row.knew /\ row.knew \subseteq row.words

SameKey(row, other) == row.words = other.words /\ row.id = other.id

Pending == {p \in Teacher : InTeach(p, "promoted")}

\* Every confidence was earned by a teach that has written.
ConfidenceInv ==
    /\ IsFiniteSet(Pending) /\ Cardinality(Pending) + teachesLeft <= Teaches
    /\ \A row \in rows :
         /\ row.confidence >= 2
         /\ row.confidence + Cardinality(Pending) + teachesLeft <= 1 + Teaches

LearnInv ==
    /\ teach \in [Teacher -> TeachState] /\ \A p \in Teacher : TeachInv(teach[p])
    /\ rows \subseteq LearnRow /\ \A row \in rows : RowInv(row)
    /\ \A row, other \in rows : SameKey(row, other) => row = other
    /\ misses \subseteq Word /\ local \subseteq Resource
    /\ teachesLeft \in 0 .. Teaches
    /\ ConfidenceInv

LEMMA QueryFacts ==
    ASSUME NEW q \in Query
    PROVE  /\ q.marked \subseteq q.words /\ q.words \subseteq Word /\ IsFiniteSet(q.words)
           /\ Known(q.words) \subseteq q.words /\ Entities(q) \subseteq q.words
           /\ Entities(q) = q.marked \cup Known(q.words)
  BY LearningsAssumption DEF Known, Entities

LEMMA NoTeachTyped == NoTeach \in TeachState /\ NoTeach.step = "idle"
  BY DEF NoTeach, TeachState

-----------------------------------------------------------------------------
(* An exact hit                                                              *)

LEMMA ExactDirect ==
    ASSUME NEW q, NEW row, Verdict(q, row) = "exact"
    PROVE  AnyKin(Entities(q), RowEntities(row)) \/ Overlap(q, row)
<1>1. CASE row.id \in local
  <2>1. Classify(Entities(q), {}) = "partial"
    BY DEF Classify, AnyKin
  <2> QED
    BY <1>1, <2>1 DEF Verdict
<1>2. CASE row.id \notin local
  <2>1. Overlap(q, row) \/ Classify(Entities(q), RowEntities(row)) = "exact"
    BY <1>2 DEF Verdict
  <2> QED
    BY <2>1 DEF Classify, AnyKin
<1> QED
  BY <1>1, <1>2

LEMMA PatternHolds ==
    ASSUME NEW q, NEW pat, NEW e \in Entities(q), NEW r \in Substituted(pat, e)
    PROVE  r \in local /\ \E w \in Starts[r.holds] : e = w \/ e \in Resolve(w)
<1>1. PICK w \in Starts[r.holds] : w \in Values(pat, e)
  BY LearningsAssumption DEF Substituted
<1>2. e = w \/ e \in Resolve(w)
  BY <1>1 DEF Values, Resolve
<1> QED
  BY <1>1, <1>2 DEF Substituted

\* In every state.
LEMMA ExactAlways == ExactMeansSame
<1> SUFFICES ASSUME NEW q \in Query, NEW h \in MayShow(q), h.match = "exact"
             PROVE  \/ /\ h.source = "pattern" /\ h.id \in local
                       /\ \E e \in Entities(q), w \in Starts[h.id.holds] :
                            e = w \/ e \in Resolve(w)
                    \/ \E row \in rows :
                          row.id = h.id /\ (AnyKin(Entities(q), RowEntities(row)) \/ Overlap(q, row))
  BY DEF ExactMeansSame
<1>1. h \in DirectHits(q) \/ h \in PatternHits(q)
  BY DEF MayShow, Hits
<1>2. CASE h \in DirectHits(q)
  <2>1. PICK row \in rows : h.id = row.id /\ Verdict(q, row) = "exact"
    BY <1>2 DEF DirectHits
  <2> QED
    BY <2>1, ExactDirect
<1>3. CASE h \in PatternHits(q)
  <2>1. PICK pat \in patterns :
          /\ h.source = "pattern"
          /\ h.id = CHOOSE r \in UNION {Substituted(pat, e) : e \in Entities(q)} : TRUE
          /\ \E e \in Entities(q) : Substituted(pat, e) # {}
    BY <1>3 DEF PatternHits
  <2>2. h.id \in UNION {Substituted(pat, e) : e \in Entities(q)}
    BY <2>1
  <2>3. PICK e \in Entities(q) : h.id \in Substituted(pat, e)
    BY <2>2
  <2>4. h.id \in local /\ \E w \in Starts[h.id.holds] : e = w \/ e \in Resolve(w)
    BY <2>3, PatternHolds
  <2> QED
    BY <2>1, <2>4
<1> QED
  BY <1>1, <1>2, <1>3

-----------------------------------------------------------------------------
(* A taught query is found                                                   *)

LEMMA SameScore ==
    ASSUME NEW S, IsFiniteSet(S), S # {}
    PROVE  NotBelow(Jaccard(S, S), JaccardMin)
<1>1. Cardinality(S) \in Nat
  BY FS_CardinalityType
<1>2. Jaccard(S, S) = <<Cardinality(S), Cardinality(S)>>
  <2>1. S \cap S = S /\ S \cup S = S
    OBVIOUS
  <2> QED
    BY <2>1 DEF Jaccard
<1> QED
  BY <1>1, <1>2 DEF NotBelow, JaccardMin

LEMMA RowFound ==
    ASSUME NEW row, RowInv(row), row.by \in Query, Known(row.words) = row.knew
    PROVE  Admitted(row.by, row)
<1> DEFINE q == row.by
           E == row.entities
           W == row.words \ E
<1>1. Entities(q) = E /\ E \subseteq row.words /\ IsFiniteSet(row.words)
  BY QueryFacts DEF RowInv
<1>2. RowEntities(row) = E
  BY DEF RowInv, RowEntities
<1>3. IsFiniteSet(W) /\ IsFiniteSet(E)
  BY <1>1, FS_Subset
<1>4. q.words = row.words
  BY DEF RowInv
<1> HIDE DEF E
<1>5. NotBelow(Direct(q, row), JaccardMin)
  <2>1. CASE W # {}
    <3>1. NotBelow(Jaccard(W, W), JaccardMin)
      BY <1>3, <2>1, SameScore
    <3> QED
      BY <1>1, <1>2, <1>4, <2>1, <3>1 DEF Direct
  <2>2. CASE W = {}
    <3>1. E # {}
      BY <2>2 DEF RowInv
    <3>2. ~NotBelow(Jaccard(W, W), JaccardMin)
      BY <2>2 DEF Jaccard, NotBelow, JaccardMin
    <3>3. NotBelow(Jaccard(E, E), JaccardMin)
      BY <1>3, <3>1, SameScore
    <3> QED
      BY <1>1, <1>2, <1>4, <2>2, <3>2, <3>3 DEF Direct
  <2> QED
    BY <2>1, <2>2
<1> QED
  BY <1>5 DEF Admitted

-----------------------------------------------------------------------------
(* Every step keeps it                                                       *)

LEMMA LearnInitSound == LearnInit => LearnInv
<1> SUFFICES ASSUME LearnInit PROVE LearnInv
  OBVIOUS
<1>1. Pending = {}
  BY NoTeachTyped DEF LearnInit, Pending, InTeach
<1>2. IsFiniteSet(Pending) /\ Cardinality(Pending) = 0
  BY <1>1, FS_EmptySet
<1>3. ConfidenceInv
  BY <1>2, LearningsAssumption DEF LearnInit, ConfidenceInv
<1> QED
  BY <1>3, NoTeachTyped, LearningsAssumption DEF LearnInit, LearnInv, TeachInv

\* One command less is under way, or none is begun.
LEMMA PendingLess ==
    ASSUME LearnInv, NEW p \in Teacher, NEW t \in TeachState, t.step # "promoted",
           teach' = [teach EXCEPT ![p] = t]
    PROVE  /\ Pending' = Pending \ {p}
           /\ IsFiniteSet(Pending') /\ Cardinality(Pending) \in Nat
           /\ Cardinality(Pending') =
                IF InTeach(p, "promoted") THEN Cardinality(Pending) - 1 ELSE Cardinality(Pending)
<1>1. Pending' = Pending \ {p}
  BY DEF Pending, InTeach, LearnInv
<1>2. IsFiniteSet(Pending) /\ Cardinality(Pending) \in Nat
  BY FS_CardinalityType DEF LearnInv, ConfidenceInv
<1>3. p \in Pending <=> InTeach(p, "promoted")
  BY DEF Pending
<1> QED
  BY <1>1, <1>2, <1>3, FS_RemoveElement

LEMMA TeachReplaced ==
    ASSUME LearnInv, NEW p \in Teacher, NEW t \in TeachState, TeachInv(t),
           teach' = [teach EXCEPT ![p] = t]
    PROVE  teach' \in [Teacher -> TeachState] /\ \A r \in Teacher : TeachInv(teach'[r])
  BY DEF LearnInv

LEMMA BeginTeachSound ==
    ASSUME LearnInv, NEW p \in Teacher, NEW q \in Query, NEW r \in Resource,
           BeginTeach(p, q, r)
    PROVE  LearnInv'
<1> DEFINE t == [step |-> "promoted", query |-> q, id |-> r,
                 entities |-> Entities(q), knew |-> Known(q.words)]
<1>1. t \in TeachState /\ TeachInv(t) /\ t.step = "promoted"
  BY QueryFacts DEF TeachState, TeachInv
<1>2. teach' = [teach EXCEPT ![p] = t]
  BY DEF BeginTeach
<1> HIDE DEF t
<1>3. teach' \in [Teacher -> TeachState] /\ \A s \in Teacher : TeachInv(teach'[s])
  BY <1>1, <1>2, TeachReplaced
<1>4. Pending' = Pending \cup {p} /\ p \notin Pending
  BY <1>1, <1>2 DEF Pending, InTeach, LearnInv, BeginTeach
<1>5. /\ IsFiniteSet(Pending') /\ Cardinality(Pending) \in Nat
      /\ Cardinality(Pending') = Cardinality(Pending) + 1
  BY <1>4, FS_AddElement, FS_CardinalityType DEF LearnInv, ConfidenceInv
<1>6. teachesLeft' = teachesLeft - 1 /\ teachesLeft > 0 /\ teachesLeft \in 0 .. Teaches
      /\ rows' = rows /\ misses' = misses /\ local' = local
  BY DEF BeginTeach, LearnInv
<1>7. ConfidenceInv'
  BY <1>5, <1>6, LearningsAssumption DEF LearnInv, ConfidenceInv, LearnRow
<1> QED
  BY <1>3, <1>6, <1>7, LearningsAssumption DEF LearnInv

\* A teach that goes on or ends without having written.
LEMMA TeachGoesOn ==
    ASSUME LearnInv, NEW p \in Teacher, NEW t \in TeachState, TeachInv(t),
           t.step # "promoted", teach' = [teach EXCEPT ![p] = t],
           UNCHANGED <<rows, misses, local, teachesLeft>>
    PROVE  LearnInv'
<1>1. teach' \in [Teacher -> TeachState] /\ \A s \in Teacher : TeachInv(teach'[s])
  BY TeachReplaced
<1>2. /\ IsFiniteSet(Pending') /\ Cardinality(Pending') <= Cardinality(Pending)
      /\ Cardinality(Pending) \in Nat /\ Cardinality(Pending') \in Int
  <2>1. /\ IsFiniteSet(Pending') /\ Cardinality(Pending) \in Nat
        /\ \/ Cardinality(Pending') = Cardinality(Pending) - 1
           \/ Cardinality(Pending') = Cardinality(Pending)
    BY PendingLess, Zenon
  <2> QED
    BY <2>1
<1>3. ConfidenceInv'
  BY <1>2, LearningsAssumption DEF LearnInv, ConfidenceInv, LearnRow
<1> QED
  BY <1>1, <1>3 DEF LearnInv

LEMMA BumpedRow ==
    ASSUME NEW row \in LearnRow, RowInv(row)
    PROVE  /\ Bumped(row) \in LearnRow /\ RowInv(Bumped(row))
           /\ SameKey(Bumped(row), row) /\ Bumped(row).confidence = row.confidence + 1
<1> DEFINE c == row.confidence + 1
<1>1. c \in Nat /\ Bumped(row) = [row EXCEPT !.confidence = c]
  BY DEF LearnRow, Bumped
<1> HIDE DEF c
<1> DEFINE b == [row EXCEPT !.confidence = c]
<1>2. /\ b \in LearnRow /\ b.words = row.words /\ b.id = row.id /\ b.entities = row.entities
      /\ b.by = row.by /\ b.knew = row.knew /\ b.confidence = c
  BY <1>1 DEF LearnRow
<1> HIDE DEF b
<1> QED
  BY <1>1, <1>2 DEF RowInv, SameKey, b, c

\* A row with the key is counted up, or there is none and one is added.
LEMMA UpsertSound ==
    ASSUME LearnInv, NEW p \in Teacher, UpsertLearning(p)
    PROVE  LearnInv'
<1> DEFINE t == [teach[p] EXCEPT !.step = "taught"]
           n == NewRow(p)
<1>1. /\ teach[p] \in TeachState /\ TeachInv(teach[p]) /\ teach[p].step = "promoted"
      /\ teach[p].query.words # {}
  BY DEF LearnInv, UpsertLearning, InTeach
<1>2. t \in TeachState /\ TeachInv(t) /\ t.step = "taught"
  BY <1>1 DEF TeachState, TeachInv
<1>3. teach' = [teach EXCEPT ![p] = t]
  BY DEF UpsertLearning, LearnInv
<1> HIDE DEF t
<1>4. teach' \in [Teacher -> TeachState] /\ \A s \in Teacher : TeachInv(teach'[s])
  BY <1>2, <1>3, TeachReplaced
<1>5. /\ IsFiniteSet(Pending') /\ Cardinality(Pending) \in Nat
      /\ Cardinality(Pending') = Cardinality(Pending) - 1
  BY <1>1, <1>2, <1>3, PendingLess DEF InTeach
<1>6. /\ n \in LearnRow /\ RowInv(n) /\ n.confidence = 2
      /\ n.words = teach[p].query.words /\ n.id = teach[p].id
  <2>1. /\ teach[p].query \in Query /\ teach[p].id \in Resource
        /\ teach[p].entities = teach[p].query.marked \cup teach[p].knew
        /\ teach[p].knew \subseteq teach[p].query.words
        /\ teach[p].entities \subseteq Word /\ teach[p].knew \subseteq Word
    BY <1>1 DEF TeachInv, TeachState
  <2>2. teach[p].query.words \subseteq Word
    BY <2>1, QueryFacts
  <2> QED
    BY <1>1, <2>1, <2>2 DEF NewRow, LearnRow, RowInv
<1> HIDE DEF n
\* What a row of the new table is
<1>7. ASSUME NEW row \in rows'
      PROVE  \/ row \in rows \ Old(p)
             \/ Old(p) = {} /\ row = n
             \/ \E old \in Old(p) : row = Bumped(old)
  BY <1>7 DEF UpsertLearning, Upserted, n
<1>8. ASSUME NEW old \in Old(p)
      PROVE  /\ Bumped(old) \in LearnRow /\ RowInv(Bumped(old))
             /\ SameKey(Bumped(old), n) /\ SameKey(old, n)
             /\ Bumped(old).confidence = old.confidence + 1 /\ old \in rows
  <2>1. old \in rows /\ old \in LearnRow /\ RowInv(old) /\ SameKey(old, n)
    BY <1>6, <1>8 DEF Old, LearnInv, SameKey
  <2> QED
    BY <2>1, BumpedRow DEF SameKey
<1>9. rows' \subseteq LearnRow /\ \A row \in rows' : RowInv(row)
  BY <1>6, <1>7, <1>8 DEF LearnInv
<1>10. ASSUME NEW row \in rows', NEW other \in rows', SameKey(row, other)
       PROVE  row = other
  <2>1. \A x \in rows' : x \in rows \ Old(p) <=> ~SameKey(x, n)
    <3>1. \A x \in rows : x \in Old(p) <=> SameKey(x, n)
      BY <1>6 DEF Old, SameKey
    <3>2. SameKey(n, n)
      BY DEF SameKey
    <3> QED
      BY <1>7, <1>8, <3>1, <3>2
  <2>2. CASE SameKey(row, n)
    <3>1. SameKey(other, n)
      BY <1>10, <2>2 DEF SameKey
    <3>2. CASE Old(p) = {}
      BY <1>7, <2>1, <2>2, <3>1, <3>2
    <3>3. CASE Old(p) # {}
      <4>1. PICK a \in Old(p), b \in Old(p) : row = Bumped(a) /\ other = Bumped(b)
        BY <1>7, <2>1, <2>2, <3>1, <3>3
      <4>2. a = b
        BY <1>8, <4>1 DEF LearnInv, SameKey
      <4> QED
        BY <4>1, <4>2
    <3> QED
      BY <3>2, <3>3
  <2>3. CASE ~SameKey(row, n)
    <3>1. ~SameKey(other, n)
      BY <1>10, <2>3 DEF SameKey
    <3> QED
      BY <1>10, <2>1, <2>3, <3>1 DEF LearnInv
  <2> QED
    BY <2>2, <2>3
<1>11. misses' = misses /\ local' = local /\ teachesLeft' = teachesLeft
  BY DEF UpsertLearning
<1>12. ConfidenceInv'
  <2>1. /\ Cardinality(Pending) + teachesLeft <= Teaches /\ teachesLeft \in Nat
        /\ \A row \in rows : /\ row.confidence \in Nat /\ row.confidence >= 2
              /\ row.confidence + Cardinality(Pending) + teachesLeft <= 1 + Teaches
    BY DEF LearnInv, ConfidenceInv, LearnRow
  <2>2. ASSUME NEW row \in rows'
        PROVE  /\ row.confidence >= 2
               /\ row.confidence + (Cardinality(Pending) - 1) + teachesLeft <= 1 + Teaches
    BY <1>5, <1>6, <1>7, <1>8, <2>1, LearningsAssumption
  <2> QED
    BY <1>5, <1>11, <2>1, <2>2, LearningsAssumption DEF ConfidenceInv
<1> QED
  BY <1>4, <1>9, <1>10, <1>11, <1>12 DEF LearnInv

LEMMA ForgetSound ==
    ASSUME LearnInv, rows' \subseteq rows, UNCHANGED <<teach, teachesLeft>>,
           misses' \subseteq Word, local' \subseteq Resource
    PROVE  LearnInv'
<1>1. Pending' = Pending
  BY DEF Pending, InTeach
<1> QED
  BY <1>1 DEF LearnInv, ConfidenceInv

LEMMA LearnStepSound == LearnInv /\ [LearnNext]_learnVars => LearnInv'
<1> SUFFICES ASSUME LearnInv, [LearnNext]_learnVars PROVE LearnInv'
  OBVIOUS
<1>1. CASE UNCHANGED learnVars
  BY <1>1, ForgetSound DEF learnVars, LearnInv
<1>2. ASSUME NEW p \in Teacher, NEW q \in Query, NEW r \in Resource, BeginTeach(p, q, r)
      PROVE  LearnInv'
  BY <1>2, BeginTeachSound
<1>3. ASSUME NEW p \in Teacher, UpsertLearning(p) PROVE LearnInv'
  BY <1>3, UpsertSound
<1>4. ASSUME NEW p \in Teacher, Extract(p) \/ TeachDies(p) PROVE LearnInv'
  BY <1>4, TeachGoesOn, NoTeachTyped DEF Extract, TeachDies, TeachInv
<1>5. ASSUME NEW q, NEW ids, Forget(q, ids) PROVE LearnInv'
  BY <1>5, ForgetSound DEF Forget, LearnInv
<1>6. ASSUME NEW q \in Query, Recall(q) PROVE LearnInv'
  <2>1. misses' \subseteq Word
    BY <1>6, QueryFacts DEF Recall, LearnInv
  <2> QED
    BY <1>6, <2>1, ForgetSound DEF Recall, LearnInv
<1>7. ASSUME NEW r \in Resource, StoreResource(r) PROVE LearnInv'
  BY <1>7, ForgetSound DEF StoreResource, LearnInv
<1>8. ASSUME NEW pat, TeachPattern(pat) PROVE LearnInv'
  BY <1>8, ForgetSound DEF TeachPattern, LearnInv
<1>9. ASSUME NEW l, TeachLookup(l) PROVE LearnInv'
  BY <1>9, ForgetSound DEF TeachLookup, LearnInv
<1>10. ASSUME NEW p \in Syncer,
              LoadRefresh(p) \/ Collect(p) \/ InsertSynced(p) \/ EndRefresh(p) \/ RefreshFails(p)
       PROVE  LearnInv'
  BY <1>10, ForgetSound DEF LoadRefresh, Collect, InsertSynced, EndRefresh, RefreshFails, LearnInv
<1> QED
  BY <1>1, <1>2, <1>3, <1>4, <1>5, <1>6, <1>7, <1>8, <1>9, <1>10
     DEF LearnNext, TeachNext, RefreshNext, DataNext

\* The stored rows keep to their ranges, a query and a resource have one row, and its
\* confidence counts the teaches.
THEOREM LearnTypeCorrect == LearnSpec => []LearnTypeOK
<1>1. LearnInv => LearnTypeOK
  <2> SUFFICES ASSUME LearnInv PROVE LearnTypeOK
    OBVIOUS
  <2>1. Cardinality(Pending) \in Nat
    BY FS_CardinalityType DEF LearnInv, ConfidenceInv
  <2>2. ASSUME NEW row \in rows
        PROVE  row.words \subseteq Word /\ row.entities \subseteq row.words
               /\ row.id \in Resource /\ row.confidence \in 2 .. 1 + Teaches
    <3>1. row \in LearnRow /\ RowInv(row)
      BY DEF LearnInv
    <3>2. row.by.marked \subseteq row.by.words
      BY <3>1, QueryFacts DEF LearnRow
    <3>3. row.confidence \in 2 .. 1 + Teaches
      BY <2>1, <3>1, LearningsAssumption DEF LearnInv, ConfidenceInv, LearnRow
    <3> QED
      BY <3>1, <3>2, <3>3 DEF LearnRow, RowInv
  <2> QED
    BY <2>2 DEF LearnTypeOK, LearnInv, SameKey
<1> QED
  BY <1>1, LearnInitSound, LearnStepSound, PTL DEF LearnSpec

\* In every state an exact hit is about an entity of the query, or one that contains or is
\* within it, whatever was taught, forgotten, looked up and inferred.
THEOREM ExactMeansSameCorrect == LearnSpec => []ExactMeansSame
  BY ExactAlways, PTL

\* The words of a taught query find its row, as long as no more of them resolve than when
\* it was taught, whatever else is taught, forgotten, looked up and refreshed.
THEOREM StillFoundCorrect == LearnSpec => []StillFound
<1>1. LearnInv => StillFound
  BY RowFound DEF LearnInv, LearnRow, StillFound
<1> QED
  BY <1>1, LearnInitSound, LearnStepSound, PTL DEF LearnSpec

-----------------------------------------------------------------------------
(* A refresh heals, and the cap                                              *)

RefreshState ==
    [step : {"idle", "loaded", "insert"}, missed : SUBSET Word, resolvable : SUBSET Word,
     room : 0 .. SyncedCap, found : SUBSET Word, insert : SUBSET Word]

SyncedIn(looked) == {l \in looked : l.source = "synced"}
Own(words) == {Lookup(w, w, "synced") : w \in words}
Resolves(w, looked) == \E l \in looked : w \in {l.value, l.canonical}

\* Of the rows there were when it looked, some resolve to what it will leave alone, and
\* they fill the cap but for its room.
Spared(r, looked) ==
    \E S \in SUBSET SyncedIn(looked) :
        /\ IsFiniteSet(S) /\ Cardinality(S) + r.room >= SyncedCap
        /\ \A l \in S : l.value \in r.resolvable

\* What it found resolves once it has inserted the rest; or it fills the cap; or somebody
\* else's lookup took the place of one of its own.
Promised(r, looked) ==
    \/ \A w \in r.found : Resolves(w, looked) \/ w \in r.insert
    \/ \E S \in SUBSET (SyncedIn(looked) \cup Own(r.insert)) :
         IsFiniteSet(S) /\ Cardinality(S) >= SyncedCap
    \/ \E l \in looked \ SyncedIn(looked) : l.canonical = l.value /\ l.value \in r.found

Healing(r, looked) ==
    /\ IsFiniteSet(r.missed) /\ IsFiniteSet(r.insert) /\ Cardinality(r.insert) <= SyncedCap
    /\ r.step # "insert" => r.insert = {}
    /\ r.step = "loaded" => Spared(r, looked)
    /\ r.step = "insert" => r.insert \subseteq r.found /\ Promised(r, looked)

\* The rows a refresh may still insert
Due(r) == IF r.step = "loaded" THEN r.room ELSE Cardinality(r.insert)

\* One ticket for each of them
Tickets(ref) == {t \in Syncer \X (1 .. SyncedCap) : t[2] <= Due(ref[t[1]])}

SyncedInv ==
    /\ IsFiniteSet(Synced) /\ \A l \in Synced : l \in Own(Word)
    /\ Cardinality(Synced) + Cardinality(Tickets(refresh)) <= SyncedCap * Cardinality(Syncer)

HealInv ==
    /\ misses \subseteq Word /\ IsFiniteSet(misses)
    /\ refresh \in [Syncer -> RefreshState] /\ \A p \in Syncer : Healing(refresh[p], lookups)
    /\ SyncedInv

\* The names a refresh goes through
NamesInv == local \subseteq Resource /\ IsFiniteSet(StoredNames)

LEMMA NamesInitSound == LearnInit => NamesInv
<1> SUFFICES ASSUME LearnInit PROVE NamesInv
  OBVIOUS
<1>1. StoredNames = {}
  BY DEF LearnInit, StoredNames
<1> QED
  BY <1>1, FS_EmptySet DEF LearnInit, NamesInv

LEMMA NamesStepSound == NamesInv /\ [LearnNext]_learnVars => NamesInv'
<1> SUFFICES ASSUME NamesInv, [LearnNext]_learnVars PROVE NamesInv'
  OBVIOUS
<1>1. CASE local' = local
  BY <1>1 DEF NamesInv, StoredNames
<1>2. ASSUME NEW r \in Resource, StoreResource(r) PROVE NamesInv'
  <2>1. StoredNames' = StoredNames \cup Names[r] /\ IsFiniteSet(Names[r])
    BY <1>2, LearningsAssumption DEF StoreResource, StoredNames
  <2>2. IsFiniteSet(StoredNames \cup Names[r])
    BY <2>1, FS_Union DEF NamesInv
  <2> QED
    BY <1>2, <2>1, <2>2 DEF StoreResource, NamesInv
<1>3. (\E r \in Resource : StoreResource(r)) \/ local' = local
  BY DEF LearnNext, TeachNext, RefreshNext, DataNext, learnVars, Forget, BeginTeach,
     TeachPattern, UpsertLearning, Extract, TeachDies, Recall, LoadRefresh, Collect,
     InsertSynced, EndRefresh, RefreshFails, TeachLookup
<1> QED
  BY <1>1, <1>2, <1>3

LEMMA HealFacts ==
    /\ SyncedCap \in Nat /\ IsFiniteSet(Syncer) /\ Cardinality(Syncer) \in Nat
    /\ IsFiniteSet(1 .. SyncedCap) /\ Cardinality(1 .. SyncedCap) = SyncedCap
<1>1. SyncedCap \in Nat /\ IsFiniteSet(Syncer)
  BY LearningsAssumption
<1>2. IsFiniteSet(1 .. SyncedCap) /\ Cardinality(1 .. SyncedCap) = SyncedCap
  BY <1>1, FS_Interval
<1> QED
  BY <1>1, <1>2, FS_CardinalityType

LEMMA NoRefreshSound ==
    /\ NoRefresh \in RefreshState /\ NoRefresh.step = "idle" /\ Due(NoRefresh) = 0
    /\ \A looked : Healing(NoRefresh, looked)
  BY HealFacts, FS_EmptySet DEF NoRefresh, RefreshState, Due, Healing

LEMMA DueTyped ==
    ASSUME NEW r \in RefreshState, NEW looked, Healing(r, looked)
    PROVE  Due(r) \in 0 .. SyncedCap
<1>1. Cardinality(r.insert) \in 0 .. SyncedCap
  BY HealFacts, FS_CardinalityType DEF Healing
<1> QED
  BY <1>1 DEF Due, RefreshState

LEMMA OwnCount ==
    ASSUME NEW W, IsFiniteSet(W)
    PROVE  IsFiniteSet(Own(W)) /\ Cardinality(Own(W)) = Cardinality(W)
<1> DEFINE f == [w \in W |-> Lookup(w, w, "synced")]
<1>1. f \in Bijection(W, Own(W))
  <2>1. f \in [W -> Own(W)]
    BY DEF Own
  <2>2. \A v, w \in W : f[v] = f[w] => v = w
    BY DEF Lookup
  <2>3. \A l \in Own(W) : \E w \in W : f[w] = l
    BY DEF Own
  <2> QED
    BY <2>1, <2>2, <2>3, Fun_IsBij
<1> QED
  BY <1>1, FS_Bijection DEF ExistsBijection

LEMMA ResolvesMeans == \A w : Resolve(w) # {} <=> Resolves(w, lookups)
  BY DEF Resolve, Resolves

Others(ref, p) == {t \in Tickets(ref) : t[1] # p}

\* The tickets of one refresh, and those of the others.
LEMMA TicketsOfOne ==
    ASSUME NEW p \in Syncer, NEW ref, Due(ref[p]) \in 0 .. SyncedCap
    PROVE  /\ Cardinality(Others(ref, p)) \in Nat
           /\ Cardinality(Tickets(ref)) = Cardinality(Others(ref, p)) + Due(ref[p])
           /\ Cardinality(Others(ref, p)) <= (Cardinality(Syncer) - 1) * SyncedCap
<1> DEFINE rest == Others(ref, p)
           mine == {p} \X (1 .. Due(ref[p]))
           room == (Syncer \ {p}) \X (1 .. SyncedCap)
<1>1. Tickets(ref) = rest \cup mine /\ rest \cap mine = {} /\ rest \subseteq room
  <2>1. \A t : t \in mine <=> t \in Tickets(ref) /\ t[1] = p
    BY HealFacts DEF Tickets
  <2> QED
    BY <2>1 DEF Tickets, Others
<1>2. IsFiniteSet(mine) /\ Cardinality(mine) = Due(ref[p])
  <2>1. IsFiniteSet(1 .. Due(ref[p])) /\ Cardinality(1 .. Due(ref[p])) = Due(ref[p])
    BY FS_Interval
  <2>2. IsFiniteSet({p}) /\ Cardinality({p}) = 1
    BY FS_Singleton
  <2>3. IsFiniteSet(mine) /\ Cardinality(mine) = 1 * Due(ref[p])
    BY <2>1, <2>2, FS_Product
  <2> QED
    BY <2>3
<1>3. IsFiniteSet(room) /\ Cardinality(room) = (Cardinality(Syncer) - 1) * SyncedCap
  <2> DEFINE others == Syncer \ {p}
  <2>1. IsFiniteSet(others) /\ Cardinality(others) = Cardinality(Syncer) - 1
    BY HealFacts, FS_RemoveElement
  <2> HIDE DEF others
  <2>2. /\ IsFiniteSet(others \X (1 .. SyncedCap))
        /\ Cardinality(others \X (1 .. SyncedCap)) = Cardinality(others) * SyncedCap
    BY <2>1, HealFacts, FS_Product
  <2> QED
    BY <2>1, <2>2 DEF others
<1> HIDE DEF rest, mine, room
<1>4. IsFiniteSet(rest) /\ Cardinality(rest) <= Cardinality(room) /\ Cardinality(rest) \in Nat
  BY <1>1, <1>3, FS_Subset, FS_CardinalityType
<1>5. /\ IsFiniteSet(rest \cup mine)
      /\ Cardinality(rest \cup mine) =
           Cardinality(rest) + Cardinality(mine) - Cardinality(rest \cap mine)
  BY <1>2, <1>4, FS_Union
<1>6. Cardinality(rest \cap mine) = 0
  BY <1>1, FS_EmptySet
<1> QED
  BY <1>1, <1>2, <1>3, <1>4, <1>5, <1>6 DEF rest

\* One refresh moves: the tickets change by what it has to do more or less.
LEMMA TicketsMove ==
    ASSUME HealInv, NEW p \in Syncer, NEW r, Due(r) \in 0 .. SyncedCap,
           refresh' = [refresh EXCEPT ![p] = r]
    PROVE  \E rest \in Nat :
             /\ Cardinality(Tickets(refresh)) = rest + Due(refresh[p])
             /\ Cardinality(Tickets(refresh')) = rest + Due(r)
             /\ rest + SyncedCap <= SyncedCap * Cardinality(Syncer)
<1>1. Due(refresh[p]) \in 0 .. SyncedCap
  BY DueTyped DEF HealInv
<1>2. refresh'[p] = r /\ \A s \in Syncer \ {p} : refresh'[s] = refresh[s]
  BY DEF HealInv
<1>3. Others(refresh', p) = Others(refresh, p)
  BY <1>2 DEF Tickets, Others
<1>4. /\ Cardinality(Others(refresh, p)) \in Nat
      /\ Cardinality(Tickets(refresh)) = Cardinality(Others(refresh, p)) + Due(refresh[p])
      /\ Cardinality(Others(refresh, p)) <= (Cardinality(Syncer) - 1) * SyncedCap
  BY <1>1, TicketsOfOne
<1>5. Cardinality(Tickets(refresh')) = Cardinality(Others(refresh', p)) + Due(r)
  BY <1>2, TicketsOfOne
<1>6. (Cardinality(Syncer) - 1) * SyncedCap + SyncedCap = SyncedCap * Cardinality(Syncer)
  BY HealFacts
<1>7. ASSUME NEW n \in Nat, n <= (Cardinality(Syncer) - 1) * SyncedCap
      PROVE  n + SyncedCap <= SyncedCap * Cardinality(Syncer)
  <2>1. (Cardinality(Syncer) - 1) * SyncedCap \in Int /\ SyncedCap * Cardinality(Syncer) \in Int
    BY HealFacts
  <2> QED
    BY <1>6, <1>7, <2>1, HealFacts
<1> QED
  BY <1>3, <1>4, <1>5, <1>7

LEMMA HealingStays ==
    ASSUME NEW r, NEW looked, NEW more, looked \subseteq more, Healing(r, looked)
    PROVE  Healing(r, more)
<1>1. /\ SyncedIn(looked) \subseteq SyncedIn(more)
      /\ looked \ SyncedIn(looked) \subseteq more \ SyncedIn(more)
  BY DEF SyncedIn
<1>2. Spared(r, looked) => Spared(r, more)
  BY <1>1 DEF Spared
<1>3. Promised(r, looked) => Promised(r, more)
  <2>1. ASSUME NEW S \in SUBSET (SyncedIn(looked) \cup Own(r.insert))
        PROVE  S \in SUBSET (SyncedIn(more) \cup Own(r.insert))
    BY <1>1
  <2> QED
    BY <1>1, <2>1 DEF Promised, Resolves
<1> QED
  BY <1>2, <1>3 DEF Healing

\* Nothing that is looked up is forgotten, and only a refresh inserts synced rows.
LEMMA BesideRefresh ==
    ASSUME HealInv, UNCHANGED refresh, misses' \subseteq Word, IsFiniteSet(misses'),
           lookups \subseteq lookups', Synced' = Synced
    PROVE  HealInv'
<1>1. \A p \in Syncer : Healing(refresh[p], lookups')
  BY HealingStays DEF HealInv
<1> QED
  BY <1>1 DEF HealInv, SyncedInv

LEMMA OneRefreshes ==
    ASSUME HealInv, NEW p \in Syncer, NEW r \in RefreshState, Healing(r, lookups'),
           refresh' = [refresh EXCEPT ![p] = r], misses' = misses, lookups \subseteq lookups',
           IsFiniteSet(Synced'), \A l \in Synced' : l \in Own(Word),
           \/ Cardinality(Synced') + Due(r) <= Cardinality(Synced) + Due(refresh[p])
           \/ Cardinality(Synced') + Due(r) <= SyncedCap
    PROVE  HealInv'
<1>1. refresh' \in [Syncer -> RefreshState] /\ refresh'[p] = r
      /\ \A s \in Syncer \ {p} : refresh'[s] = refresh[s]
  BY DEF HealInv
<1>2. \A s \in Syncer : Healing(refresh'[s], lookups')
  BY <1>1, HealingStays DEF HealInv
<1>3. /\ Cardinality(Synced) \in Nat /\ Cardinality(Synced') \in Nat
      /\ Due(refresh[p]) \in Nat /\ Due(r) \in 0 .. SyncedCap
      /\ SyncedCap * Cardinality(Syncer) \in Int
  BY HealFacts, DueTyped, FS_CardinalityType DEF HealInv, SyncedInv
<1>4. PICK rest \in Nat :
        /\ Cardinality(Tickets(refresh)) = rest + Due(refresh[p])
        /\ Cardinality(Tickets(refresh')) = rest + Due(r)
        /\ rest + SyncedCap <= SyncedCap * Cardinality(Syncer)
  BY <1>3, TicketsMove
<1>5. Cardinality(Synced') + Cardinality(Tickets(refresh')) <= SyncedCap * Cardinality(Syncer)
  BY <1>3, <1>4, HealFacts DEF HealInv, SyncedInv
<1> QED
  BY <1>1, <1>2, <1>5 DEF HealInv, SyncedInv

LEMMA HealInitSound == LearnInit => HealInv
<1> SUFFICES ASSUME LearnInit PROVE HealInv
  OBVIOUS
<1>1. Synced = {}
  BY LearningsAssumption DEF LearnInit, Synced
<1>2. Tickets(refresh) = {}
  BY NoRefreshSound, HealFacts DEF LearnInit, Tickets
<1>3. SyncedCap * Cardinality(Syncer) >= 0
  BY HealFacts
<1>4. SyncedInv
  BY <1>1, <1>2, <1>3, FS_EmptySet DEF SyncedInv
<1> QED
  BY <1>4, NoRefreshSound, FS_EmptySet DEF LearnInit, HealInv

LEMMA LoadSound ==
    ASSUME HealInv, NEW p \in Syncer, LoadRefresh(p)
    PROVE  HealInv'
<1> DEFINE able == {w \in Word : Resolve(w) # {}}
           r == [NoRefresh EXCEPT !.step = "loaded", !.missed = misses,
                    !.resolvable = able, !.room = Room]
<1>1. refresh' = [refresh EXCEPT ![p] = r] /\ UNCHANGED <<misses, lookups>>
  BY DEF LoadRefresh
<1>2. Cardinality(Synced) \in Nat /\ IsFiniteSet(Synced)
  BY FS_CardinalityType DEF HealInv, SyncedInv
<1>3. Room \in 0 .. SyncedCap /\ Cardinality(Synced) + Room >= SyncedCap
      /\ (Cardinality(Synced) + Room <= SyncedCap \/ Room = 0)
  BY <1>2, HealFacts DEF Room
<1>4. able \subseteq Word
  OBVIOUS
<1>5. /\ r \in RefreshState /\ r.step = "loaded" /\ r.missed = misses /\ r.resolvable = able
      /\ r.room = Room /\ r.insert = {}
  BY <1>3, <1>4, HealFacts DEF NoRefresh, RefreshState, HealInv
<1>6. \A l \in Synced : l.value \in able
  <2> SUFFICES ASSUME NEW l \in Synced PROVE l.value \in able
    OBVIOUS
  <2>1. l.value \in Word
    BY DEF HealInv, SyncedInv, Own, Lookup
  <2> QED
    BY <2>1 DEF Synced, Resolve
<1> HIDE DEF able, r
<1>7. Spared(r, lookups)
  <2>1. Synced = SyncedIn(lookups)
    BY DEF Synced, SyncedIn
  <2> QED
    BY <1>2, <1>3, <1>5, <1>6, <2>1 DEF Spared
<1>8. Healing(r, lookups)
  BY <1>5, <1>7, FS_EmptySet, HealFacts DEF Healing, HealInv
<1>9. Due(r) = Room /\ Due(refresh[p]) \in 0 .. SyncedCap
  BY <1>5, DueTyped DEF Due, HealInv
<1>10. Synced' = Synced
  BY <1>1 DEF Synced
<1>11. \/ Cardinality(Synced') + Due(r) <= Cardinality(Synced) + Due(refresh[p])
       \/ Cardinality(Synced') + Due(r) <= SyncedCap
  BY <1>2, <1>3, <1>9, <1>10, HealFacts
<1> QED
  BY <1>1, <1>2, <1>5, <1>8, <1>10, <1>11, OneRefreshes DEF HealInv, SyncedInv

\* The rows it will insert are none of those its room was counted from, so that both
\* together fill the cap.
LEMMA RoomFilled ==
    ASSUME NEW r \in RefreshState, NEW looked, Spared(r, looked), NEW chosen, IsFiniteSet(chosen),
           Cardinality(chosen) = r.room, chosen \cap r.resolvable = {}
    PROVE  \E S \in SUBSET (SyncedIn(looked) \cup Own(chosen)) :
             IsFiniteSet(S) /\ Cardinality(S) >= SyncedCap
<1>1. PICK S \in SUBSET SyncedIn(looked) :
        /\ IsFiniteSet(S) /\ Cardinality(S) + r.room >= SyncedCap
        /\ \A l \in S : l.value \in r.resolvable
  BY DEF Spared
<1>2. IsFiniteSet(Own(chosen)) /\ Cardinality(Own(chosen)) = r.room
  BY OwnCount
<1>3. S \cap Own(chosen) = {}
  BY <1>1 DEF Own, Lookup
<1>4. IsFiniteSet(S \cup Own(chosen)) /\ Cardinality(S \cup Own(chosen)) >= SyncedCap
  <2>1. Cardinality(S \cap Own(chosen)) = 0
    BY <1>3, FS_EmptySet
  <2>2. Cardinality(S) \in Nat /\ r.room \in Nat
    BY <1>1, FS_CardinalityType, HealFacts DEF RefreshState
  <2>3. /\ IsFiniteSet(S \cup Own(chosen))
        /\ Cardinality(S \cup Own(chosen)) =
             Cardinality(S) + Cardinality(Own(chosen)) - Cardinality(S \cap Own(chosen))
    BY <1>1, <1>2, FS_Union
  <2> QED
    BY <1>1, <1>2, <2>1, <2>2, <2>3, HealFacts
<1> QED
  BY <1>1, <1>4

LEMMA CollectSound ==
    ASSUME HealInv, NamesInv, NEW p \in Syncer, Collect(p)
    PROVE  HealInv'
<1> DEFINE o == refresh[p]
<1>1. PICK chosen \in SUBSET Eligible(p) :
        /\ Cardinality(chosen) <= o.room
        /\ chosen = Eligible(p) \/ Cardinality(chosen) = o.room
        /\ refresh' = [refresh EXCEPT ![p].step = "insert", ![p].found = Eligible(p),
                                      ![p].insert = chosen]
  BY DEF Collect
<1> DEFINE r == [o EXCEPT !.step = "insert", !.found = Eligible(p), !.insert = chosen]
<1>2. o \in RefreshState /\ Healing(o, lookups) /\ o.step = "loaded"
  BY DEF HealInv, Collect, InRefresh
<1>3. refresh' = [refresh EXCEPT ![p] = r] /\ UNCHANGED <<misses, lookups>>
  BY <1>1 DEF Collect, HealInv
<1>4. Eligible(p) \subseteq StoredNames /\ Eligible(p) \cap o.resolvable = {}
  <2>1. ASSUME NEW w \in Eligible(p) PROVE w \in StoredNames /\ w \notin o.resolvable
    BY <2>1, Zenon DEF Eligible
  <2> QED
    BY <2>1
<1>5. IsFiniteSet(chosen) /\ chosen \subseteq Word /\ Eligible(p) \subseteq Word
  <2>1. StoredNames \subseteq Word
    BY LearningsAssumption DEF NamesInv, StoredNames
  <2>2. IsFiniteSet(chosen)
    BY <1>4, FS_Subset DEF NamesInv
  <2> QED
    BY <1>4, <2>1, <2>2
<1> HIDE DEF o
<1>6. /\ r \in RefreshState /\ r.step = "insert" /\ r.missed = o.missed
      /\ r.found = Eligible(p) /\ r.insert = chosen
  BY <1>2, <1>5 DEF RefreshState
<1> HIDE DEF r
<1>7. Promised(r, lookups)
  <2>1. CASE chosen = Eligible(p)
    BY <1>6, <2>1 DEF Promised
  <2>2. CASE Cardinality(chosen) = o.room
    <3>1. Spared(o, lookups) /\ chosen \cap o.resolvable = {}
      BY <1>2, <1>4 DEF Healing
    <3>2. \E S \in SUBSET (SyncedIn(lookups) \cup Own(chosen)) :
             IsFiniteSet(S) /\ Cardinality(S) >= SyncedCap
      BY <1>2, <1>5, <2>2, <3>1, RoomFilled
    <3> QED
      BY <1>6, <3>2 DEF Promised
  <2> QED
    BY <1>1, <2>1, <2>2
<1>8. Cardinality(chosen) \in Nat /\ o.room \in 0 .. SyncedCap
  BY <1>2, <1>5, FS_CardinalityType DEF RefreshState
<1>9. Healing(r, lookups)
  BY <1>1, <1>2, <1>5, <1>6, <1>7, <1>8, HealFacts DEF Healing
<1>10. Due(r) = Cardinality(chosen) /\ Due(refresh[p]) = o.room
  BY <1>2, <1>6 DEF Due, o
<1>11. Synced' = Synced /\ Cardinality(Synced) \in Nat
  BY <1>3, FS_CardinalityType DEF Synced, HealInv, SyncedInv
<1>12. Cardinality(Synced') + Due(r) <= Cardinality(Synced) + Due(refresh[p])
  BY <1>1, <1>8, <1>10, <1>11, HealFacts
<1> QED
  BY <1>3, <1>6, <1>9, <1>11, <1>12, OneRefreshes DEF HealInv, SyncedInv

LEMMA InsertSound ==
    ASSUME HealInv, NEW p \in Syncer, InsertSynced(p)
    PROVE  HealInv'
<1> DEFINE o == refresh[p]
<1>1. PICK w \in o.insert :
        /\ lookups' = WithLookup(Lookup(w, w, "synced"))
        /\ refresh' = [refresh EXCEPT ![p].insert = @ \ {w}]
  BY DEF InsertSynced
<1> DEFINE left == o.insert \ {w}
           r == [o EXCEPT !.insert = left]
           own == Lookup(w, w, "synced")
<1>2. /\ o \in RefreshState /\ Healing(o, lookups) /\ o.step = "insert"
      /\ o.insert \subseteq Word /\ o.insert \subseteq o.found /\ Promised(o, lookups)
  BY DEF HealInv, InsertSynced, InRefresh, Healing, RefreshState
<1>3. refresh' = [refresh EXCEPT ![p] = r] /\ UNCHANGED misses
  BY <1>1 DEF InsertSynced, HealInv
<1>4. own.source = "synced" /\ own.canonical = w /\ own.value = w /\ own \in Own(Word)
  BY <1>1, <1>2 DEF Lookup, Own
<1>5. lookups' \in {lookups, lookups \cup {own}}
  BY <1>1 DEF WithLookup
<1>6. /\ IsFiniteSet(o.insert) /\ Cardinality(o.insert) \in 0 .. SyncedCap
      /\ IsFiniteSet(left) /\ Cardinality(left) = Cardinality(o.insert) - 1
      /\ Cardinality(left) \in Nat
  BY <1>1, <1>2, FS_RemoveElement, FS_CardinalityType, HealFacts DEF Healing
<1> HIDE DEF o, left, own
<1>7. /\ r \in RefreshState /\ r.step = "insert" /\ r.missed = o.missed
      /\ r.found = o.found /\ r.insert = left
  BY <1>2 DEF RefreshState, left
<1> HIDE DEF r
<1>8. SyncedIn(lookups) \subseteq SyncedIn(lookups')
      /\ lookups \ SyncedIn(lookups) \subseteq lookups' \ SyncedIn(lookups')
  BY <1>5 DEF SyncedIn
\* The row was inserted, was synced before, or somebody else's has its place.
<1>9. \/ own \in SyncedIn(lookups')
      \/ \E l \in lookups' \ SyncedIn(lookups') : l.canonical = l.value /\ l.value \in r.found
  <2>1. CASE lookups' = lookups \cup {own}
    BY <1>4, <2>1 DEF SyncedIn
  <2>2. CASE lookups' # lookups \cup {own}
    <3>1. lookups' = lookups /\ \E k \in lookups : k.canonical = w /\ k.value = w
      BY <1>1, <1>4, <2>2 DEF WithLookup, own
    <3>2. PICK k \in lookups : k.canonical = w /\ k.value = w
      BY <3>1
    <3>3. CASE k \in SyncedIn(lookups)
      <4>1. k \in Own(Word)
        BY <3>3 DEF SyncedIn, Synced, HealInv, SyncedInv
      <4>2. k = own
        BY <3>2, <4>1 DEF Own, Lookup, own
      <4> QED
        BY <3>1, <3>3, <4>2
    <3>4. CASE k \notin SyncedIn(lookups)
      BY <1>1, <1>2, <1>7, <3>1, <3>2, <3>4
    <3> QED
      BY <3>3, <3>4
  <2> QED
    BY <2>1, <2>2
<1>10. Promised(r, lookups')
  <2>1. CASE \E l \in lookups' \ SyncedIn(lookups') : l.canonical = l.value /\ l.value \in r.found
    BY <2>1 DEF Promised
  <2>2. CASE own \in SyncedIn(lookups')
    <3>1. CASE \A v \in o.found : Resolves(v, lookups) \/ v \in o.insert
      <4>1. \A v \in r.found : Resolves(v, lookups') \/ v \in r.insert
        BY <1>4, <1>5, <1>7, <2>2, <3>1 DEF Resolves, SyncedIn, left
      <4> QED
        BY <4>1 DEF Promised
    <3>2. CASE \E S \in SUBSET (SyncedIn(lookups) \cup Own(o.insert)) :
                 IsFiniteSet(S) /\ Cardinality(S) >= SyncedCap
      <4>1. Own(o.insert) \subseteq Own(r.insert) \cup {own}
        BY <1>7 DEF Own, left, own
      <4> QED
        BY <1>8, <2>2, <3>2, <4>1 DEF Promised
    <3>3. CASE \E l \in lookups \ SyncedIn(lookups) : l.canonical = l.value /\ l.value \in o.found
      BY <1>7, <1>8, <3>3 DEF Promised
    <3> QED
      BY <1>2, <3>1, <3>2, <3>3 DEF Promised
  <2> QED
    BY <1>9, <2>1, <2>2
<1>11. Healing(r, lookups')
  BY <1>1, <1>2, <1>6, <1>7, <1>10, HealFacts DEF Healing, left
<1>12. Due(r) = Cardinality(o.insert) - 1 /\ Due(refresh[p]) = Cardinality(o.insert)
  BY <1>2, <1>6, <1>7 DEF Due, o
<1>13. Synced' \in {Synced, Synced \cup {own}}
  BY <1>4, <1>5 DEF Synced
<1>14. /\ IsFiniteSet(Synced') /\ Cardinality(Synced) \in Nat /\ Cardinality(Synced') \in Nat
       /\ Cardinality(Synced') <= Cardinality(Synced) + 1
  <2>1. IsFiniteSet(Synced) /\ Cardinality(Synced) \in Nat
    BY FS_CardinalityType DEF HealInv, SyncedInv
  <2>2. /\ IsFiniteSet(Synced \cup {own}) /\ Cardinality(Synced \cup {own}) \in Nat
        /\ Cardinality(Synced \cup {own}) <= Cardinality(Synced) + 1
    <3>1. /\ IsFiniteSet(Synced \cup {own})
          /\ Cardinality(Synced \cup {own}) =
               IF own \in Synced THEN Cardinality(Synced) ELSE Cardinality(Synced) + 1
      BY <2>1, FS_AddElement
    <3> QED
      BY <2>1, <3>1
  <2>3. CASE Synced' = Synced
    BY <2>1, <2>3
  <2>4. CASE Synced' = Synced \cup {own}
    BY <2>1, <2>2, <2>4
  <2> QED
    BY <1>13, <2>3, <2>4
<1>15. Cardinality(Synced') + Due(r) <= Cardinality(Synced) + Due(refresh[p])
  BY <1>6, <1>12, <1>14
<1>16. \A l \in Synced' : l \in Own(Word)
  BY <1>4, <1>13 DEF HealInv, SyncedInv
<1> QED
  BY <1>3, <1>5, <1>7, <1>11, <1>14, <1>15, <1>16, OneRefreshes

LEMMA HealStepSound == HealInv /\ NamesInv /\ [LearnNext]_learnVars => HealInv'
<1> SUFFICES ASSUME HealInv, NamesInv, [LearnNext]_learnVars PROVE HealInv'
  OBVIOUS
<1>1. CASE UNCHANGED <<refresh, misses, lookups>>
  BY <1>1, BesideRefresh DEF Synced, HealInv
<1>2. ASSUME NEW q \in Query, Recall(q) PROVE HealInv'
  <2>1. misses' \subseteq Word /\ IsFiniteSet(misses')
    <3> DEFINE new == {w \in Entities(q) : Resolve(w) = {}}
    <3>1. new \subseteq Word /\ IsFiniteSet(new)
      BY QueryFacts, FS_Subset
    <3>2. IsFiniteSet(misses \cup new)
      BY <3>1, FS_Union DEF HealInv
    <3> QED
      BY <1>2, <3>1, <3>2 DEF Recall, HealInv
  <2> QED
    BY <1>2, <2>1, BesideRefresh DEF Recall, Synced
<1>3. ASSUME NEW l \in Taught, TeachLookup(l) PROVE HealInv'
  <2>1. lookups' \in {lookups, lookups \cup {l}} /\ l.source # "synced"
    BY <1>3, LearningsAssumption DEF TeachLookup, WithLookup
  <2>2. lookups \subseteq lookups' /\ Synced' = Synced
    BY <2>1 DEF Synced
  <2> QED
    BY <1>3, <2>2, BesideRefresh DEF TeachLookup, HealInv
<1>4. ASSUME NEW p \in Syncer, EndRefresh(p) \/ RefreshFails(p) PROVE HealInv'
  <2>1. refresh' = [refresh EXCEPT ![p] = NoRefresh] /\ UNCHANGED <<misses, lookups>>
    BY <1>4 DEF EndRefresh, RefreshFails
  <2>2. Synced' = Synced /\ Cardinality(Synced) \in Nat
    BY <2>1, FS_CardinalityType DEF Synced, HealInv, SyncedInv
  <2>3. Due(refresh[p]) \in 0 .. SyncedCap
    BY DueTyped DEF HealInv
  <2>4. Cardinality(Synced') + Due(NoRefresh) <= Cardinality(Synced) + Due(refresh[p])
    BY <2>2, <2>3, NoRefreshSound, HealFacts
  <2> QED
    BY <2>1, <2>2, <2>4, NoRefreshSound, OneRefreshes DEF HealInv, SyncedInv
<1>5. ASSUME NEW p \in Syncer, LoadRefresh(p) \/ Collect(p) \/ InsertSynced(p) PROVE HealInv'
  BY <1>5, LoadSound, CollectSound, InsertSound
<1>6. TeachNext \/ (\E r \in Resource : StoreResource(r)) \/ UNCHANGED learnVars
        => UNCHANGED <<refresh, misses, lookups>>
  BY DEF TeachNext, Forget, BeginTeach, TeachPattern, UpsertLearning, Extract, TeachDies,
     StoreResource, learnVars
<1> QED
  BY <1>1, <1>2, <1>3, <1>4, <1>5, <1>6 DEF LearnNext, RefreshNext, DataNext

\* When a refresh ends, what it found kin to a miss resolves, unless the cap is reached or another
\* lookup took a place; and synced lookups are at most the cap for each syncer, for any
\* number of them at once.
THEOREM RefreshHealsCorrect == LearnSpec => RefreshHeals
<1>1. HealInv /\ [LearnNext]_learnVars =>
        [\A p \in Syncer : EndRefresh(p) =>
           /\ \A w \in refresh[p].found :
                \/ Resolve(w) # {}
                \/ Cardinality(Synced) >= SyncedCap
                \/ \E l \in lookups \ Synced :
                     l.canonical = l.value /\ l.value \in refresh[p].found
           /\ Cardinality(Synced) <= SyncedCap * Cardinality(Syncer)]_learnVars
  <2> SUFFICES ASSUME HealInv, NEW p \in Syncer, EndRefresh(p)
               PROVE  /\ \A w \in refresh[p].found :
                           \/ Resolve(w) # {}
                           \/ Cardinality(Synced) >= SyncedCap
                           \/ \E l \in lookups \ Synced :
                                l.canonical = l.value /\ l.value \in refresh[p].found
                      /\ Cardinality(Synced) <= SyncedCap * Cardinality(Syncer)
    OBVIOUS
  <2>1. Promised(refresh[p], lookups) /\ refresh[p].insert = {}
    BY DEF EndRefresh, InRefresh, HealInv, Healing
  <2>2. SyncedIn(lookups) = Synced /\ Own({}) = {} /\ IsFiniteSet(Synced)
    BY DEF SyncedIn, Synced, Own, HealInv, SyncedInv
  <2>3. ASSUME NEW S \in SUBSET Synced, IsFiniteSet(S), Cardinality(S) >= SyncedCap
        PROVE  Cardinality(Synced) >= SyncedCap
    BY <2>2, <2>3, FS_Subset, FS_CardinalityType, HealFacts
  <2>4. \A w \in refresh[p].found :
          \/ Resolve(w) # {}
          \/ Cardinality(Synced) >= SyncedCap
          \/ \E l \in lookups \ Synced :
               l.canonical = l.value /\ l.value \in refresh[p].found
    BY <2>1, <2>2, <2>3, ResolvesMeans DEF Promised
  <2>5. Cardinality(Synced) <= SyncedCap * Cardinality(Syncer)
    <3>1. Cardinality(Tickets(refresh)) \in Nat /\ Cardinality(Synced) \in Nat
      <4>1. IsFiniteSet(Syncer \X (1 .. SyncedCap))
        BY HealFacts, FS_Product
      <4>2. Tickets(refresh) \subseteq Syncer \X (1 .. SyncedCap)
        BY DEF Tickets
      <4> QED
        BY <2>2, <4>1, <4>2, FS_Subset, FS_CardinalityType
    <3>2. SyncedCap * Cardinality(Syncer) \in Int
      BY HealFacts
    <3> QED
      BY <3>1, <3>2 DEF HealInv, SyncedInv
  <2> QED
    BY <2>4, <2>5
<1> QED
  BY <1>1, HealInitSound, HealStepSound, NamesInitSound, NamesStepSound, PTL
     DEF LearnSpec, RefreshHeals

-----------------------------------------------------------------------------
(* Playbooks: the invariant                                                *)

\* Notes that a seeder of release r need not write.
Noted(row, r) == row.amends # {} \/ row.notes \in {r, ByUser}

\* The row shows what release r brings along for f, or what was taught.
Shows(row, r, f) ==
    /\ row.choreography \in {r, ByUser}
    /\ Embedded[r][f] = "json and notes" => Noted(row, r)

\* A seeder belongs to a release, and amends numbered from since are yet to come.
ActiveInv(p) ==
    ~Seeding(p, "idle") => seeder[p].release \in Release /\ seeder[p].since <= NextAmend

\* What a seeder saw of the family in hand is still true where it matters: where it
\* looked and saw no amend, those from before its look are excused; where it saw one, and no
\* other release seeds, the notes are amended, taught or its own.
LookedInv(p) ==
    Seeding(p, "upsert") => \A f \in Family : f = Current(p) =>
        /\ ~seeder[p].preserve =>
             \A a \in amended[f] : a < seeder[p].since => a \in excused[f]
        /\ seeder[p].preserve /\ seeder[p].alone => Noted(playbook[f], seeder[p].release)

\* No other release seeds besides a seeder that is alone, so that the families it
\* is done with show its release.
AloneInv(p) ==
    ~Seeding(p, "idle") /\ seeder[p].alone =>
        /\ Strangers(p, seeder[p].release) = {}
        /\ ~seeder[p].failed => \A f \in Bundled(seeder[p].release) \ seeder[p].todo :
                                    Shows(playbook[f], seeder[p].release, f)

SeederInv(p) == ActiveInv(p) /\ LookedInv(p) /\ AloneInv(p)

\* While the recorded release counts as whole, only it seeds, and it is shown.
WholeInv ==
    whole =>
        /\ \A p \in Starter : ~Seeding(p, "idle") => seeder[p].release = sentinel
        /\ sentinel # Nothing => \A f \in Bundled(sentinel) : Shows(playbook[f], sentinel, f)

SeedingInv == (\A p \in Starter : SeederInv(p)) /\ WholeInv

PlaybooksInv == PlaybooksTypeOK /\ AmendsKept /\ SeedingInv

-----------------------------------------------------------------------------
(* Numbers of amends                                                       *)

Given == [Family -> SUBSET (1 .. Amends)]
Number(given) == Cardinality(UNION {given[f] : f \in Family}) + 1

LEMMA AmendsNumber == Amends \in Nat
  BY PlaybooksAssumption

\* The next number is one, and never goes back.
LEMMA NumberGrows ==
    ASSUME NEW a \in Given, NEW b \in Given, \A f \in Family : a[f] \subseteq b[f]
    PROVE  Number(a) \in 1 .. Amends + 1 /\ Number(a) <= Number(b)
<1> DEFINE A == UNION {a[f] : f \in Family}
           B == UNION {b[f] : f \in Family}
<1>1. A \subseteq B /\ A \subseteq 1 .. Amends /\ B \subseteq 1 .. Amends
  BY DEF Given
<1>2. Amends \in Nat
  BY AmendsNumber
<1> HIDE DEF A, B
<1>3. IsFiniteSet(1 .. Amends) /\ Cardinality(1 .. Amends) = Amends
  BY <1>2, FS_Interval
<1>4. /\ IsFiniteSet(A) /\ IsFiniteSet(B)
      /\ Cardinality(A) <= Amends /\ Cardinality(A) <= Cardinality(B)
  BY <1>1, <1>3, FS_Subset
<1>5. Cardinality(A) \in Nat /\ Cardinality(B) \in Nat
  BY <1>4, FS_CardinalityType
<1> QED BY <1>2, <1>4, <1>5 DEF Number, A, B

LEMMA NextAmendTyped ==
    ASSUME PlaybooksTypeOK
    PROVE  NextAmend = Number(amended) /\ NextAmend \in 1 .. Amends + 1
<1>1. amended \in Given
  BY DEF PlaybooksTypeOK, Given
<1> QED BY <1>1, NumberGrows DEF NextAmend, Number

LEMMA NextAmendGrows ==
    ASSUME PlaybooksTypeOK, PlaybooksTypeOK', \A f \in Family : amended[f] \subseteq amended'[f]
    PROVE  NextAmend <= NextAmend' /\ NextAmend \in Nat /\ NextAmend' \in Nat
<1>1. amended \in Given /\ amended' \in Given
  BY DEF PlaybooksTypeOK, Given
<1>2. NextAmend = Number(amended) /\ NextAmend' = Number(amended')
  BY DEF NextAmend, Number
<1>3. /\ Number(amended) \in 1 .. Amends + 1 /\ Number(amended') \in 1 .. Amends + 1
      /\ Number(amended) <= Number(amended')
  BY <1>1, NumberGrows
<1> QED BY <1>2, <1>3, AmendsNumber

-----------------------------------------------------------------------------
(* Rows                                                                    *)

\* What a write of a row may not take from release r.
Moves(row, new, r, f) ==
    /\ Noted(row, r) => Noted(new, r)
    /\ Shows(row, r, f) => Shows(new, r, f)

LEMMA UpsertTyped ==
    ASSUME NEW row \in PlaybookRow, NEW c \in {Nothing, ByUser} \cup Release,
           NEW n \in {Nothing, ByUser} \cup Release, NEW preserve \in BOOLEAN
    PROVE  /\ UpsertedPlaybook(row, c, n, preserve) \in PlaybookRow
           /\ UpsertedPlaybook(row, c, n, preserve).amends \in {{}, row.amends}
           /\ n = Nothing \/ (preserve /\ row.amends # {}) =>
                UpsertedPlaybook(row, c, n, preserve).amends = row.amends
  BY DEF UpsertedPlaybook, Row, HasNotes, PlaybookRow

\* To teach a playbook takes from no release.
LEMMA TeachMoves ==
    ASSUME NEW row \in PlaybookRow, NEW c \in {Nothing, ByUser},
           NEW n \in {Nothing, ByUser}, NEW r \in Release, NEW f \in Family
    PROVE  Moves(row, UpsertedPlaybook(row, c, n, FALSE), r, f)
<1> DEFINE new == UpsertedPlaybook(row, c, n, FALSE)
<1>1. /\ new.choreography = IF c = Nothing THEN row.choreography ELSE c
      /\ new.notes = IF n = Nothing THEN row.notes ELSE n
      /\ n = Nothing => new.amends = row.amends
  BY DEF UpsertedPlaybook, Row
<1>2. Noted(row, r) => Noted(new, r)
  BY <1>1 DEF Noted
<1> QED BY <1>1, <1>2 DEF Moves, Shows

\* Nor does an amend.
LEMMA AmendMoves ==
    ASSUME NEW row \in PlaybookRow, NEW a \in 1 .. Amends, NEW r \in Release, NEW f \in Family
    PROVE  /\ Appended(row, a) \in PlaybookRow
           /\ Appended(row, a).amends = row.amends \cup {a}
           /\ Moves(row, Appended(row, a), r, f)
<1>1. Appended(row, a) = [choreography |-> row.choreography, notes |-> row.notes,
                          amends |-> row.amends \cup {a}]
  BY DEF Appended, PlaybookRow
<1>2. Appended(row, a) \in PlaybookRow /\ Appended(row, a).amends = row.amends \cup {a}
  BY <1>1 DEF PlaybookRow
<1>3. Appended(row, a).choreography = row.choreography /\ Noted(Appended(row, a), r)
  BY <1>1 DEF Noted
<1> QED BY <1>2, <1>3 DEF Moves, Shows

\* Nor does a seeder of the same release, which leaves its own.
LEMMA SeedMoves ==
    ASSUME NEW row \in PlaybookRow, NEW r \in Release, NEW f \in Family,
           NEW preserve \in BOOLEAN,
           NEW n, n = IF Embedded[r][f] = "json and notes" THEN r ELSE Nothing
    PROVE  /\ Moves(row, UpsertedPlaybook(row, r, n, preserve), r, f)
           /\ ~preserve \/ Noted(row, r) => Shows(UpsertedPlaybook(row, r, n, preserve), r, f)
<1> DEFINE new == UpsertedPlaybook(row, r, n, preserve)
           keep == n = Nothing \/ (preserve /\ HasNotes(row))
<1>0. r # Nothing
  BY PlaybooksAssumption DEF Nothing
<1>1. /\ new.choreography = r
      /\ keep => new.notes = row.notes /\ new.amends = row.amends
      /\ ~keep => new.notes = r
  BY <1>0 DEF UpsertedPlaybook, Row
<1>2. Noted(row, r) => Noted(new, r)
  BY <1>1 DEF Noted
<1>3. ~preserve \/ Noted(row, r) => (Embedded[r][f] = "json and notes" => Noted(new, r))
  BY <1>0, <1>1, <1>2 DEF Noted
<1> QED BY <1>1, <1>2, <1>3 DEF Moves, Shows

-----------------------------------------------------------------------------
(* Commands                                                                *)

\* A step of no seeder, which takes from no release and numbers its amends anew.
LEMMA CommandSound ==
    ASSUME PlaybooksInv, PlaybooksTypeOK', UNCHANGED <<sentinel, seeder, whole>>,
           \A f \in Family : /\ amended[f] \subseteq amended'[f]
                             /\ excused[f] \subseteq excused'[f]
                             /\ \A a \in amended'[f] \ amended[f] : a >= NextAmend
                             /\ \A r \in Release : Moves(playbook[f], playbook'[f], r, f)
    PROVE  SeedingInv'
<1>1. NextAmend <= NextAmend' /\ NextAmend \in Nat /\ NextAmend' \in Nat
  BY NextAmendGrows DEF PlaybooksInv
<1>2. ASSUME NEW p \in Starter PROVE SeederInv(p)'
  <2>1. seeder[p] \in SeederState /\ SeederInv(p)
    BY DEF PlaybooksInv, PlaybooksTypeOK, SeedingInv
  <2>2. seeder[p].since \in Nat
    BY <2>1, AmendsNumber DEF SeederState
  <2>3. ActiveInv(p)'
    BY <1>1, <2>1, <2>2 DEF SeederInv, ActiveInv, Seeding
  <2>4. LookedInv(p)'
    <3> SUFFICES ASSUME Seeding(p, "upsert"), NEW f \in Family, f = Current(p)
                 PROVE  /\ ~seeder[p].preserve =>
                             \A a \in amended'[f] : a < seeder[p].since => a \in excused'[f]
                        /\ seeder[p].preserve /\ seeder[p].alone =>
                             Noted(playbook'[f], seeder[p].release)
      BY DEF LookedInv, Seeding, Current
    <3>1. seeder[p].release \in Release /\ seeder[p].since <= NextAmend
      BY <2>1 DEF SeederInv, ActiveInv, Seeding
    <3>2. ASSUME ~seeder[p].preserve, NEW a \in amended'[f], a < seeder[p].since
          PROVE  a \in excused'[f]
      <4>1. a \in Nat
        BY DEF PlaybooksTypeOK
      <4>2. a \in amended[f]
        BY <1>1, <2>2, <3>1, <3>2, <4>1
      <4> QED BY <2>1, <3>2, <4>2 DEF SeederInv, LookedInv
    <3>3. seeder[p].preserve /\ seeder[p].alone => Noted(playbook'[f], seeder[p].release)
      BY <2>1, <3>1 DEF SeederInv, LookedInv, Moves
    <3> QED BY <3>2, <3>3
  <2>5. AloneInv(p)'
    <3> SUFFICES ASSUME ~Seeding(p, "idle"), seeder[p].alone
                 PROVE  /\ Strangers(p, seeder[p].release) = {}
                        /\ ~seeder[p].failed =>
                             \A f \in Bundled(seeder[p].release) \ seeder[p].todo :
                                 Shows(playbook'[f], seeder[p].release, f)
      BY DEF AloneInv, Seeding, Strangers, Bundled
    <3> QED BY <2>1 DEF SeederInv, ActiveInv, AloneInv, Bundled, Moves
  <2> QED BY <2>3, <2>4, <2>5 DEF SeederInv
<1>3. WholeInv'
  BY DEF PlaybooksInv, SeedingInv, WholeInv, PlaybooksTypeOK, Bundled, Moves, Seeding
<1> QED BY <1>2, <1>3 DEF SeedingInv

LEMMA TeachSound ==
    ASSUME PlaybooksInv, NEW f \in Family, NEW c \in {Nothing, ByUser},
           NEW n \in {Nothing, ByUser}, TeachPlaybook(f, c, n)
    PROVE  PlaybooksInv'
<1> DEFINE new == UpsertedPlaybook(playbook[f], c, n, FALSE)
<1>0. playbook[f] \in PlaybookRow
  BY DEF PlaybooksInv, PlaybooksTypeOK
<1>1. /\ new \in PlaybookRow
      /\ n = Nothing => new.amends = playbook[f].amends
  BY <1>0, UpsertTyped
<1>2. \A r \in Release : Moves(playbook[f], new, r, f)
  BY <1>0, TeachMoves
<1> HIDE DEF new
<1>3. /\ playbook' = [playbook EXCEPT ![f] = new]
      /\ excused' = [excused EXCEPT ![f] = IF n = Nothing THEN @ ELSE @ \cup amended[f]]
      /\ UNCHANGED <<sentinel, seeder, amended, whole>>
  BY DEF TeachPlaybook, new
<1>4. PlaybooksTypeOK'
  BY <1>1, <1>3 DEF PlaybooksInv, PlaybooksTypeOK
<1>5. AmendsKept'
  BY <1>1, <1>3 DEF PlaybooksInv, PlaybooksTypeOK, AmendsKept
<1>6. ASSUME NEW g \in Family
      PROVE  /\ excused[g] \subseteq excused'[g]
             /\ \A r \in Release : Moves(playbook[g], playbook'[g], r, g)
  BY <1>2, <1>3 DEF PlaybooksInv, PlaybooksTypeOK, Moves
<1>7. SeedingInv'
  BY <1>3, <1>4, <1>6, CommandSound
<1> QED BY <1>4, <1>5, <1>7 DEF PlaybooksInv

LEMMA AmendSound ==
    ASSUME PlaybooksInv, NEW f \in Family, Amend(f)
    PROVE  PlaybooksInv'
<1> DEFINE new == Appended(playbook[f], NextAmend)
<1>0. playbook[f] \in PlaybookRow /\ NextAmend \in 1 .. Amends
  BY NextAmendTyped, AmendsNumber DEF PlaybooksInv, PlaybooksTypeOK, Amend
<1>1. /\ new \in PlaybookRow
      /\ new.amends = playbook[f].amends \cup {NextAmend}
      /\ \A r \in Release : Moves(playbook[f], new, r, f)
  <2>1. ASSUME NEW r \in Release PROVE Moves(playbook[f], new, r, f)
    BY <1>0, AmendMoves
  <2>2. new = [choreography |-> playbook[f].choreography, notes |-> playbook[f].notes,
               amends |-> playbook[f].amends \cup {NextAmend}]
    BY <1>0 DEF Appended, PlaybookRow
  <2> QED BY <1>0, <2>1, <2>2 DEF PlaybookRow
<1> HIDE DEF new
<1>3. /\ playbook' = [playbook EXCEPT ![f] = new]
      /\ amended' = [amended EXCEPT ![f] = @ \cup {NextAmend}]
      /\ UNCHANGED <<sentinel, seeder, excused, whole>>
  BY DEF Amend, new
<1>4. PlaybooksTypeOK'
  BY <1>0, <1>1, <1>3 DEF PlaybooksInv, PlaybooksTypeOK
<1>5. AmendsKept'
  BY <1>1, <1>3 DEF PlaybooksInv, PlaybooksTypeOK, AmendsKept
<1>6. ASSUME NEW g \in Family
      PROVE  /\ amended[g] \subseteq amended'[g]
             /\ \A a \in amended'[g] \ amended[g] : a >= NextAmend
             /\ \A r \in Release : Moves(playbook[g], playbook'[g], r, g)
  BY <1>0, <1>1, <1>3 DEF PlaybooksInv, PlaybooksTypeOK, Moves
<1>7. SeedingInv'
  BY <1>3, <1>4, <1>6, CommandSound
<1> QED BY <1>4, <1>5, <1>7 DEF PlaybooksInv

-----------------------------------------------------------------------------
(* Seeding                                                                 *)

Rows == <<playbook, amended, excused>>

LEMMA NumberStays ==
    ASSUME UNCHANGED Rows
    PROVE  NextAmend' = NextAmend
  BY DEF Rows, NextAmend

\* A seeder that ends, or goes on with its own release, takes nothing from the others.
LEMMA OthersSound ==
    ASSUME PlaybooksInv, NEW p \in Starter, NEW s, UNCHANGED Rows,
           seeder' = [seeder EXCEPT ![p] = s],
           s.step = "idle" \/ (~Seeding(p, "idle") /\ s.release = seeder[p].release)
    PROVE  \A q \in Starter \ {p} : SeederInv(q)'
<1> SUFFICES ASSUME NEW q \in Starter \ {p} PROVE SeederInv(q)'
  OBVIOUS
<1>1. SeederInv(q) /\ NextAmend' = NextAmend
  BY NumberStays DEF PlaybooksInv, SeedingInv
<1>2. /\ seeder'[q] = seeder[q] /\ seeder'[p] = s
      /\ \A o \in Starter \ {p} : seeder'[o] = seeder[o]
  BY DEF PlaybooksInv, PlaybooksTypeOK
<1>3. ActiveInv(q)'
  BY <1>1, <1>2 DEF SeederInv, ActiveInv, Seeding
<1>4. LookedInv(q)'
  BY <1>1, <1>2 DEF SeederInv, LookedInv, Seeding, Current, Rows
<1>5. Strangers(q, seeder[q].release)' \subseteq Strangers(q, seeder[q].release)
  BY <1>2 DEF Strangers, Seeding
<1>6. AloneInv(q)'
  BY <1>1, <1>2, <1>5 DEF SeederInv, AloneInv, Seeding, Bundled, Rows
<1> QED BY <1>3, <1>4, <1>6 DEF SeederInv

\* The recorded release is shown as before.
LEMMA WholeSound ==
    ASSUME PlaybooksInv, NEW p \in Starter, NEW s, UNCHANGED <<Rows, sentinel, whole>>,
           seeder' = [seeder EXCEPT ![p] = s],
           s.step = "idle" \/ (~Seeding(p, "idle") /\ s.release = seeder[p].release)
    PROVE  WholeInv'
<1>1. /\ seeder'[p] = s
      /\ \A o \in Starter \ {p} : seeder'[o] = seeder[o]
  BY DEF PlaybooksInv, PlaybooksTypeOK
<1> QED BY <1>1 DEF PlaybooksInv, SeedingInv, WholeInv, Seeding, Bundled, Rows

\* A seeder that is idle has seen nothing.
LEMMA IdleSound ==
    ASSUME NEW p \in Starter, Seeding(p, "idle")'
    PROVE  SeederInv(p)'
  BY DEF SeederInv, ActiveInv, LookedInv, AloneInv, Seeding

LEMMA NoSeedTyped == NoSeed \in SeederState /\ NoSeed.step = "idle"
  BY AmendsNumber DEF NoSeed, SeederState

LEMMA BeginSound ==
    ASSUME PlaybooksInv, NEW p \in Starter, NEW r \in Release, BeginSeed(p, r)
    PROVE  PlaybooksInv'
<1>0. PICK lone \in BOOLEAN : lone = (Strangers(p, r) = {})
  BY Zenon
<1> DEFINE begun == [NoSeed EXCEPT !.step = "look", !.release = r, !.todo = Bundled(r),
                                   !.alone = lone]
<1>b. begun = [NoSeed EXCEPT !.step = "look", !.release = r, !.todo = Bundled(r),
                             !.alone = lone]
  OBVIOUS
<1> HIDE DEF begun
<1>1. /\ begun.step = "look" /\ begun.release = r /\ begun.todo = Bundled(r)
      /\ begun.since = 0 /\ begun.alone = lone /\ begun \in SeederState
  <2>1. Bundled(r) \in SUBSET Family
    BY DEF Bundled
  <2>2. NoSeed.since = 0
    BY DEF NoSeed
  <2> QED BY <1>b, <2>1, <2>2, NoSeedTyped DEF SeederState
<1>2. begun \in SeederState
  BY <1>1
<1>3. seeder' = [q \in Starter |->
         IF q = p THEN begun
         ELSE IF q \in Strangers(p, r) THEN [seeder[q] EXCEPT !.alone = FALSE]
         ELSE seeder[q]]
  BY <1>0, Zenon DEF BeginSeed, begun
<1>4. UNCHANGED Rows /\ sentinel' = sentinel /\ whole' = FALSE
  BY DEF BeginSeed, Rows
<1>5. seeder'[p] = begun
  BY <1>3
<1>6. ASSUME NEW q \in Strangers(p, r)
      PROVE  seeder'[q] = [seeder[q] EXCEPT !.alone = FALSE] /\ q # p /\ q \in Starter
  BY <1>3 DEF Strangers
<1>7. ASSUME NEW q \in Starter \ {p}, q \notin Strangers(p, r)
      PROVE  seeder'[q] = seeder[q]
  BY <1>3, <1>7, Zenon
<1>8. \A q \in Starter : seeder'[q] \in SeederState
  <2> SUFFICES ASSUME NEW q \in Starter PROVE seeder'[q] \in SeederState
    OBVIOUS
  <2>1. seeder[q] \in SeederState
    BY DEF PlaybooksInv, PlaybooksTypeOK
  <2>2. [seeder[q] EXCEPT !.alone = FALSE] \in SeederState
    BY <2>1 DEF SeederState
  <2> QED BY <1>2, <1>5, <1>6, <1>7, <2>1, <2>2
<1>9. PlaybooksTypeOK'
  <2>1. seeder' \in [Starter -> SeederState]
    BY <1>3, <1>8
  <2> QED BY <1>4, <2>1 DEF PlaybooksInv, PlaybooksTypeOK, Rows
<1>10. AmendsKept'
  BY <1>4 DEF PlaybooksInv, AmendsKept, Rows
<1>11. NextAmend' = NextAmend /\ NextAmend \in 1 .. Amends + 1
  BY <1>4, NumberStays, NextAmendTyped DEF PlaybooksInv
<1>12. ASSUME NEW q \in Starter
       PROVE  /\ q = p => seeder'[q].step = "look" /\ seeder'[q].release = r
              /\ q # p => seeder'[q].step = seeder[q].step /\ seeder'[q].release = seeder[q].release
  <2>1. seeder[q] \in SeederState
    BY DEF PlaybooksInv, PlaybooksTypeOK
  <2>2. CASE q \in Strangers(p, r)
    BY <1>6, <2>1, <2>2 DEF SeederState
  <2> QED BY <1>1, <1>5, <1>7, <2>2
<1>13. SeederInv(p)'
  <2>1. ActiveInv(p)'
    BY <1>1, <1>5, <1>11, AmendsNumber DEF ActiveInv
  <2>2. LookedInv(p)'
    BY <1>1, <1>5 DEF LookedInv, Seeding
  <2>3. Strangers(p, r)' = Strangers(p, r)
    BY <1>12 DEF Strangers, Seeding
  <2>4. AloneInv(p)'
    BY <1>0, <1>1, <1>5, <2>3 DEF AloneInv, Bundled
  <2> QED BY <2>1, <2>2, <2>4 DEF SeederInv
<1>14. ASSUME NEW q \in Starter \ {p} PROVE SeederInv(q)'
  <2>0. SeederInv(q) /\ seeder[q] \in SeederState
    BY DEF PlaybooksInv, PlaybooksTypeOK, SeedingInv
  <2>1. CASE q \in Strangers(p, r)
    <3>1. seeder'[q] = [step |-> seeder[q].step, release |-> seeder[q].release,
                        todo |-> seeder[q].todo, preserve |-> seeder[q].preserve,
                        since |-> seeder[q].since, failed |-> seeder[q].failed,
                        alone |-> FALSE]
      BY <1>6, <2>0, <2>1 DEF SeederState
    <3>2. ActiveInv(q)'
      BY <1>11, <2>0, <3>1 DEF SeederInv, ActiveInv, Seeding
    <3>3. LookedInv(q)'
      BY <1>4, <2>0, <3>1 DEF SeederInv, LookedInv, Seeding, Current, Rows
    <3>4. AloneInv(q)'
      BY <3>1 DEF AloneInv
    <3> QED BY <3>2, <3>3, <3>4 DEF SeederInv
  <2>2. CASE q \notin Strangers(p, r)
    <3>1. seeder'[q] = seeder[q]
      BY <1>7, <2>2
    <3>2. ActiveInv(q)'
      BY <1>11, <2>0, <3>1 DEF SeederInv, ActiveInv, Seeding
    <3>3. LookedInv(q)'
      BY <1>4, <2>0, <3>1 DEF SeederInv, LookedInv, Seeding, Current, Rows
    <3>4. ~Seeding(q, "idle") => seeder[q].release = r
      BY <2>2 DEF Strangers
    <3>5. ~Seeding(q, "idle") =>
            Strangers(q, seeder[q].release)' \subseteq Strangers(q, seeder[q].release)
      BY <1>12, <3>1, <3>4 DEF Strangers, Seeding
    <3>6. AloneInv(q)'
      BY <1>4, <2>0, <3>1, <3>5 DEF SeederInv, AloneInv, Seeding, Bundled, Rows
    <3> QED BY <3>2, <3>3, <3>6 DEF SeederInv
  <2> QED BY <2>1, <2>2
<1>15. WholeInv'
  BY <1>4 DEF WholeInv
<1> QED BY <1>9, <1>10, <1>13, <1>14, <1>15 DEF PlaybooksInv, SeedingInv

LEMMA LookSound ==
    ASSUME PlaybooksInv, NEW p \in Starter, LookForAmends(p) \/ LookFails(p)
    PROVE  PlaybooksInv'
<1>0. seeder[p] \in SeederState /\ SeederInv(p) /\ NextAmend \in 1 .. Amends + 1
  BY NextAmendTyped DEF PlaybooksInv, PlaybooksTypeOK, SeedingInv
<1>m. PICK marked \in BOOLEAN, since \in 0 .. Amends + 1 :
        /\ seeder' = [seeder EXCEPT ![p] = [@ EXCEPT !.step = "upsert", !.preserve = marked,
                                                     !.since = since]]
        /\ since = 0 \/ since = NextAmend
        /\ marked => playbook[Current(p)].amends # {}
        /\ ~marked => since = 0 \/ playbook[Current(p)].amends = {}
  <2>0. NextAmend \in 0 .. Amends + 1 /\ 0 \in 0 .. Amends + 1
    BY <1>0, AmendsNumber
  <2>1. CASE LookForAmends(p)
    <3>1. PICK seen \in BOOLEAN : seen = Marked(playbook[Current(p)])
      BY Zenon DEF Marked
    <3>2. seeder' = [seeder EXCEPT ![p] = [@ EXCEPT !.step = "upsert", !.preserve = seen,
                                                    !.since = NextAmend]]
      BY <2>1, <3>1, Zenon DEF LookForAmends
    <3>3. seen <=> playbook[Current(p)].amends # {}
      BY <3>1 DEF Marked
    <3> QED BY <2>0, <3>2, <3>3
  <2>2. CASE LookFails(p)
    <3>1. seeder' = [seeder EXCEPT ![p] = [@ EXCEPT !.step = "upsert", !.preserve = FALSE,
                                                    !.since = 0]]
      BY <2>2 DEF LookFails
    <3> QED BY <2>0, <3>1
  <2> QED BY <2>1, <2>2
<1> DEFINE s == [seeder[p] EXCEPT !.step = "upsert", !.preserve = marked, !.since = since]
<1>s. s = [seeder[p] EXCEPT !.step = "upsert", !.preserve = marked, !.since = since]
  OBVIOUS
<1> HIDE DEF s
<1>1. /\ s.step = "upsert" /\ s.release = seeder[p].release /\ s.todo = seeder[p].todo
      /\ s.preserve = marked /\ s.since = since
      /\ s.failed = seeder[p].failed /\ s.alone = seeder[p].alone /\ s \in SeederState
  BY <1>0, <1>s DEF SeederState
<1>2. s \in SeederState
  BY <1>1
<1>3. /\ seeder' = [seeder EXCEPT ![p] = s]
      /\ UNCHANGED <<Rows, sentinel, whole>> /\ ~Seeding(p, "idle")
  BY <1>m DEF LookForAmends, LookFails, PlaybooksInv, PlaybooksTypeOK, Rows, Seeding, s
<1>4. PlaybooksTypeOK'
  BY <1>2, <1>3 DEF PlaybooksInv, PlaybooksTypeOK, Rows
<1>5. AmendsKept'
  BY <1>3 DEF PlaybooksInv, AmendsKept, Rows
<1>6. seeder'[p] = s
  BY <1>3 DEF PlaybooksInv, PlaybooksTypeOK
<1>7. ActiveInv(p)'
  BY <1>0, <1>m, <1>1, <1>3, <1>6, NumberStays, AmendsNumber
     DEF SeederInv, ActiveInv, Rows, Seeding
<1>8. LookedInv(p)'
  <2> SUFFICES ASSUME NEW f \in Family, f = Current(p)'
               PROVE  /\ ~s.preserve => \A a \in amended'[f] : a < s.since => a \in excused'[f]
                      /\ s.preserve /\ s.alone => Noted(playbook'[f], s.release)
    BY <1>6 DEF LookedInv
  <2>1. f = Current(p)
    BY <1>1, <1>6 DEF Current
  <2>2. /\ s.preserve => playbook[f].amends # {}
        /\ ~s.preserve => s.since = 0 \/ playbook[f].amends = {}
    BY <1>1, <1>m, <2>1
  <2>3. \A a \in amended[f] : ~(a < 0)
    BY AmendsNumber DEF PlaybooksInv, PlaybooksTypeOK
  <2> QED BY <1>3, <2>2, <2>3 DEF Noted, Rows, PlaybooksInv, AmendsKept
<1>9. AloneInv(p)'
  <2>1. Strangers(p, seeder[p].release)' = Strangers(p, seeder[p].release)
    BY <1>1, <1>3, <1>6 DEF Strangers, Seeding, PlaybooksInv, PlaybooksTypeOK
  <2> QED BY <1>0, <1>1, <1>3, <1>6, <2>1 DEF SeederInv, AloneInv, Bundled, Rows
<1>10. /\ \A q \in Starter \ {p} : SeederInv(q)'
       /\ WholeInv'
  BY <1>1, <1>3, OthersSound, WholeSound DEF Rows
<1> QED BY <1>4, <1>5, <1>7, <1>8, <1>9, <1>10 DEF PlaybooksInv, SeedingInv, SeederInv

\* What is done with a family: it is taken off the list.
LEMMA DoneTyped ==
    ASSUME PlaybooksInv, NEW p \in Starter, NEW failed \in BOOLEAN, seeder' = Done(p, failed)
    PROVE  \E s \in SeederState :
               /\ seeder' = [seeder EXCEPT ![p] = s]
               /\ s.step = "look" /\ s.release = seeder[p].release
               /\ s.todo = seeder[p].todo \ {Current(p)}
               /\ s.since = seeder[p].since /\ s.alone = seeder[p].alone
               /\ s.failed <=> seeder[p].failed \/ failed
<1>0. seeder[p] \in SeederState
  BY DEF PlaybooksInv, PlaybooksTypeOK
<1>1. PICK f \in BOOLEAN : f = (seeder[p].failed \/ failed)
  BY Zenon
<1>2. seeder' = [seeder EXCEPT ![p].step = "look", ![p].todo = @ \ {Current(p)},
                               ![p].failed = f]
  BY <1>1, Zenon DEF Done
<1>3. /\ seeder'[p] \in SeederState /\ seeder'[p].step = "look"
      /\ seeder'[p].release = seeder[p].release
      /\ seeder'[p].todo = seeder[p].todo \ {Current(p)}
      /\ seeder'[p].since = seeder[p].since /\ seeder'[p].alone = seeder[p].alone
      /\ seeder'[p].failed = f
  <2>1. seeder'[p] = [step |-> "look", release |-> seeder[p].release,
                      todo |-> seeder[p].todo \ {Current(p)},
                      preserve |-> seeder[p].preserve, since |-> seeder[p].since,
                      failed |-> f, alone |-> seeder[p].alone]
    BY <1>0, <1>2 DEF SeederState, PlaybooksInv, PlaybooksTypeOK
  <2>2. /\ f \in BOOLEAN /\ seeder[p].todo \ {Current(p)} \in SUBSET Family
        /\ seeder[p].release \in {Nothing} \cup Release /\ seeder[p].since \in 0 .. Amends + 1
        /\ seeder[p].preserve \in BOOLEAN /\ seeder[p].alone \in BOOLEAN
    BY <1>0 DEF SeederState
  <2> QED BY <2>1, <2>2 DEF SeederState
<1>4. seeder' = [seeder EXCEPT ![p] = seeder'[p]]
  BY <1>2 DEF PlaybooksInv, PlaybooksTypeOK
<1> QED BY <1>1, <1>3, <1>4

LEMMA FailSound ==
    ASSUME PlaybooksInv, NEW p \in Starter, SeedFamilyFails(p)
    PROVE  PlaybooksInv'
<1>1. PICK s \in SeederState :
        /\ seeder' = [seeder EXCEPT ![p] = s]
        /\ s.step = "look" /\ s.release = seeder[p].release
        /\ s.todo = seeder[p].todo \ {Current(p)}
        /\ s.since = seeder[p].since /\ s.alone = seeder[p].alone
        /\ s.failed
  <2>1. seeder' = Done(p, TRUE)
    BY DEF SeedFamilyFails
  <2> QED BY <2>1, DoneTyped
<1>2. UNCHANGED <<Rows, sentinel, whole>> /\ ~Seeding(p, "idle")
  BY DEF SeedFamilyFails, Rows, Seeding
<1>3. PlaybooksTypeOK' /\ AmendsKept'
  BY <1>1, <1>2 DEF PlaybooksInv, PlaybooksTypeOK, AmendsKept, Rows
<1>4. seeder'[p] = s /\ SeederInv(p)
  BY <1>1 DEF PlaybooksInv, PlaybooksTypeOK, SeedingInv
<1>5. ActiveInv(p)'
  BY <1>1, <1>2, <1>4, NumberStays DEF SeederInv, ActiveInv, Rows, Seeding
<1>6. LookedInv(p)'
  BY <1>1, <1>4 DEF LookedInv, Seeding
<1>7. Strangers(p, seeder[p].release)' = Strangers(p, seeder[p].release)
  BY <1>1, <1>2, <1>4 DEF Strangers, Seeding, PlaybooksInv, PlaybooksTypeOK
<1>8. AloneInv(p)'
  BY <1>1, <1>2, <1>4, <1>7 DEF SeederInv, AloneInv, Seeding
<1>9. (\A q \in Starter \ {p} : SeederInv(q)') /\ WholeInv'
  BY <1>1, <1>2, OthersSound, WholeSound DEF Rows
<1> QED BY <1>3, <1>5, <1>6, <1>8, <1>9 DEF PlaybooksInv, SeedingInv, SeederInv

LEMMA DieSound ==
    ASSUME PlaybooksInv, NEW p \in Starter, SeederDies(p)
    PROVE  PlaybooksInv'
<1>1. seeder' = [seeder EXCEPT ![p] = NoSeed] /\ UNCHANGED <<Rows, sentinel, whole>>
  BY DEF SeederDies, Rows
<1>2. PlaybooksTypeOK' /\ AmendsKept'
  BY <1>1, NoSeedTyped DEF PlaybooksInv, PlaybooksTypeOK, AmendsKept, Rows
<1>3. Seeding(p, "idle")'
  BY <1>1, NoSeedTyped DEF Seeding, PlaybooksInv, PlaybooksTypeOK
<1>4. (\A q \in Starter \ {p} : SeederInv(q)') /\ WholeInv'
  BY <1>1, NoSeedTyped, OthersSound, WholeSound DEF Rows
<1> QED BY <1>2, <1>3, <1>4, IdleSound DEF PlaybooksInv, SeedingInv

LEMMA EndSound ==
    ASSUME PlaybooksInv, NEW p \in Starter, EndSeed(p)
    PROVE  PlaybooksInv'
<1>0. /\ seeder[p] \in SeederState /\ SeederInv(p)
      /\ seeder[p].step = "look" /\ seeder[p].todo = {}
  BY DEF PlaybooksInv, PlaybooksTypeOK, SeedingInv, EndSeed, Seeding
<1>1. seeder' = [seeder EXCEPT ![p] = NoSeed] /\ UNCHANGED Rows
  BY DEF EndSeed, Rows
<1>2. /\ seeder[p].failed => sentinel' = sentinel /\ whole' = whole
      /\ ~seeder[p].failed => sentinel' = seeder[p].release /\ whole' = seeder[p].alone
  BY DEF EndSeed
<1>3. /\ sentinel' \in {Nothing} \cup Release
      /\ whole' \in BOOLEAN
  BY <1>0, <1>2 DEF SeederState, PlaybooksInv, PlaybooksTypeOK
<1>4. PlaybooksTypeOK' /\ AmendsKept'
  BY <1>1, <1>3, NoSeedTyped DEF PlaybooksInv, PlaybooksTypeOK, AmendsKept, Rows
<1>5. /\ seeder'[p] = NoSeed /\ Seeding(p, "idle")'
      /\ \A o \in Starter \ {p} : seeder'[o] = seeder[o]
  BY <1>1, NoSeedTyped DEF Seeding, PlaybooksInv, PlaybooksTypeOK
<1>6. \A q \in Starter \ {p} : SeederInv(q)'
  BY <1>1, NoSeedTyped, OthersSound
<1>7. WholeInv'
  <2>1. CASE seeder[p].failed
    BY <1>1, <1>2, <2>1, NoSeedTyped, WholeSound DEF Rows
  <2>2. CASE ~seeder[p].failed
    <3> SUFFICES ASSUME seeder[p].alone
                 PROVE  /\ \A q \in Starter : ~Seeding(q, "idle")' => seeder'[q].release = sentinel'
                        /\ \A f \in Bundled(sentinel') : Shows(playbook'[f], sentinel', f)
      BY <1>2, <2>2 DEF WholeInv, Bundled
    <3>1. Strangers(p, seeder[p].release) = {} /\ sentinel' = seeder[p].release
      BY <1>0, <1>2, <2>2 DEF SeederInv, AloneInv, Seeding
    <3>2. ASSUME NEW q \in Starter, ~Seeding(q, "idle")' PROVE seeder'[q].release = sentinel'
      BY <1>5, <3>1, <3>2 DEF Strangers, Seeding
    <3>3. \A f \in Bundled(sentinel') : Shows(playbook'[f], sentinel', f)
      BY <1>0, <1>1, <2>2, <3>1 DEF SeederInv, AloneInv, Seeding, Rows
    <3> QED BY <3>2, <3>3
  <2> QED BY <2>1, <2>2
<1> QED BY <1>4, <1>5, <1>6, <1>7, IdleSound DEF PlaybooksInv, SeedingInv

LEMMA SeedSound ==
    ASSUME PlaybooksInv, NEW p \in Starter, SeedFamily(p)
    PROVE  PlaybooksInv'
<1> DEFINE r == seeder[p].release
           c == Current(p)
           new == UpsertedPlaybook(playbook[c], r, SeedNotes(p), seeder[p].preserve)
           late == {a \in amended[c] \ playbook'[c].amends : a >= seeder[p].since}
<1>0. /\ seeder[p] \in SeederState /\ SeederInv(p) /\ Seeding(p, "upsert") /\ r \in Release
      /\ seeder[p].preserve \in BOOLEAN
  <2>1. seeder[p] \in SeederState /\ SeederInv(p) /\ Seeding(p, "upsert")
    BY DEF PlaybooksInv, PlaybooksTypeOK, SeedingInv, SeedFamily
  <2> QED BY <2>1 DEF SeederInv, ActiveInv, Seeding, SeederState
<1>1. PICK s \in SeederState :
        /\ seeder' = [seeder EXCEPT ![p] = s]
        /\ s.step = "look" /\ s.release = r /\ s.todo = seeder[p].todo \ {c}
        /\ s.since = seeder[p].since /\ s.alone = seeder[p].alone
        /\ s.failed <=> seeder[p].failed
  <2>1. seeder' = Done(p, FALSE)
    BY DEF SeedFamily
  <2> QED BY <2>1, DoneTyped
<1>2. /\ playbook' = [playbook EXCEPT ![c] = new]
      /\ excused' = [excused EXCEPT ![c] = @ \cup late]
      /\ UNCHANGED <<sentinel, amended, whole>>
  BY DEF SeedFamily
<1>3. ASSUME c \in Family
      PROVE  /\ new \in PlaybookRow
             /\ seeder[p].preserve => new.amends = playbook[c].amends
             /\ new.amends \in {{}, playbook[c].amends}
             /\ Moves(playbook[c], new, r, c)
             /\ ~seeder[p].preserve \/ Noted(playbook[c], r) => Shows(new, r, c)
  <2>1. playbook[c] \in PlaybookRow
    BY <1>3 DEF PlaybooksInv, PlaybooksTypeOK
  <2>2. SeedNotes(p) \in {Nothing, ByUser} \cup Release
        /\ r \in {Nothing, ByUser} \cup Release
    BY <1>0 DEF SeedNotes
  <2>3. /\ new \in PlaybookRow
        /\ new.amends \in {{}, playbook[c].amends}
        /\ seeder[p].preserve /\ playbook[c].amends # {} => new.amends = playbook[c].amends
    BY <1>0, <2>1, <2>2, UpsertTyped
  <2>4. SeedNotes(p) = IF Embedded[r][c] = "json and notes" THEN r ELSE Nothing
    BY DEF SeedNotes
  <2>5. /\ Moves(playbook[c], new, r, c)
        /\ ~seeder[p].preserve \/ Noted(playbook[c], r) => Shows(new, r, c)
    BY <1>0, <1>3, <2>1, <2>4, SeedMoves
  <2> QED BY <2>3, <2>5
<1> HIDE DEF new, r
<1>4. /\ seeder'[p] = s
      /\ \A q \in Starter \ {p} : seeder'[q] = seeder[q]
      /\ \A f \in Family : playbook'[f] = IF f = c THEN new ELSE playbook[f]
      /\ \A f \in Family : excused'[f] = IF f = c THEN excused[f] \cup late ELSE excused[f]
  BY <1>1, <1>2 DEF PlaybooksInv, PlaybooksTypeOK
<1>5. PlaybooksTypeOK'
  <2>1. playbook' \in [Family -> PlaybookRow]
    BY <1>2, <1>3 DEF PlaybooksInv, PlaybooksTypeOK
  <2>2. excused' \in [Family -> SUBSET (1 .. Amends)]
    BY <1>2 DEF PlaybooksInv, PlaybooksTypeOK
  <2>3. seeder' \in [Starter -> SeederState]
    BY <1>1 DEF PlaybooksInv, PlaybooksTypeOK
  <2> QED BY <1>2, <2>1, <2>2, <2>3 DEF PlaybooksInv, PlaybooksTypeOK
<1>6. AmendsKept'
  <2> SUFFICES ASSUME NEW f \in Family, NEW a \in amended[f]
               PROVE  a \in playbook'[f].amends \cup excused'[f]
    BY <1>2 DEF AmendsKept
  <2>1. a \in playbook[f].amends \cup excused[f]
    BY DEF PlaybooksInv, AmendsKept
  <2>2. CASE f # c \/ seeder[p].preserve
    BY <1>3, <1>4, <2>1, <2>2
  <2>3. CASE f = c /\ ~seeder[p].preserve
    <3>1. CASE a < seeder[p].since
      BY <1>0, <1>4, <2>3, <3>1 DEF SeederInv, LookedInv
    <3>2. CASE ~(a < seeder[p].since)
      <4>1. a \in Nat /\ seeder[p].since \in Nat
        BY <1>0, AmendsNumber DEF SeederState, PlaybooksInv, PlaybooksTypeOK
      <4>2. a >= seeder[p].since
        BY <3>2, <4>1
      <4>3. a \in late \/ a \in playbook'[f].amends
        BY <2>3, <4>2
      <4> HIDE DEF late
      <4> QED BY <1>4, <2>3, <4>3
    <3> QED BY <3>1, <3>2
  <2> QED BY <2>2, <2>3
<1>7. \A f \in Family : Moves(playbook[f], playbook'[f], r, f)
  <2> SUFFICES ASSUME NEW f \in Family PROVE Moves(playbook[f], playbook'[f], r, f)
    OBVIOUS
  <2>1. CASE f = c
    BY <1>3, <1>4, <2>1
  <2>2. CASE f # c
    BY <1>4, <2>2 DEF Moves
  <2> QED BY <2>1, <2>2
<1>8. NextAmend' = NextAmend
  BY <1>2 DEF NextAmend
<1>9. ASSUME NEW q \in Starter
      PROVE  Strangers(q, seeder[q].release)' = Strangers(q, seeder[q].release)
             /\ (Seeding(q, "idle")' <=> Seeding(q, "idle"))
             /\ seeder'[q].release = seeder[q].release
  <2>1. \A o \in Starter : /\ Seeding(o, "idle")' <=> Seeding(o, "idle")
                           /\ seeder'[o].release = seeder[o].release
    BY <1>0, <1>1, <1>4 DEF Seeding, r
  <2> QED BY <2>1 DEF Strangers
<1>10. ASSUME NEW q \in Starter \ {p} PROVE SeederInv(q)'
  <2>0. SeederInv(q) /\ seeder'[q] = seeder[q]
    BY <1>4 DEF PlaybooksInv, SeedingInv
  <2>1. ActiveInv(q)'
    BY <1>8, <2>0 DEF SeederInv, ActiveInv, Seeding
  <2>2. ~Seeding(q, "idle") /\ seeder[q].alone => seeder[q].release = r
    BY <1>0, <2>0 DEF SeederInv, AloneInv, Strangers, Seeding, r
  <2>3. LookedInv(q)'
    <3> SUFFICES ASSUME Seeding(q, "upsert"), NEW f \in Family, f = Current(q)
                 PROVE  /\ ~seeder[q].preserve =>
                             \A a \in amended[f] : a < seeder[q].since => a \in excused'[f]
                        /\ seeder[q].preserve /\ seeder[q].alone =>
                             Noted(playbook'[f], seeder[q].release)
      BY <1>2, <2>0 DEF LookedInv, Seeding, Current
    <3>1. excused[f] \subseteq excused'[f]
      BY <1>4
    <3>2. seeder[q].alone => seeder[q].release = r
      BY <2>2 DEF Seeding
    <3> QED BY <1>7, <2>0, <3>1, <3>2 DEF SeederInv, LookedInv, Moves
  <2>4. AloneInv(q)'
    <3> SUFFICES ASSUME ~Seeding(q, "idle"), seeder[q].alone
                 PROVE  /\ Strangers(q, seeder[q].release)' = {}
                        /\ ~seeder[q].failed =>
                             \A f \in Bundled(seeder[q].release) \ seeder[q].todo :
                                 Shows(playbook'[f], seeder[q].release, f)
      BY <2>0 DEF AloneInv, Seeding, Strangers, Bundled
    <3>1. Strangers(q, seeder[q].release)' = Strangers(q, seeder[q].release)
      BY <1>9, <2>0 DEF Strangers
    <3>2. ASSUME NEW f \in Bundled(r), Shows(playbook[f], r, f) PROVE Shows(playbook'[f], r, f)
      BY <1>7, <3>2 DEF Moves, Bundled
    <3> QED BY <2>0, <2>2, <3>1, <3>2 DEF SeederInv, AloneInv
  <2> QED BY <2>1, <2>3, <2>4 DEF SeederInv
<1>11. SeederInv(p)'
  <2>1. ActiveInv(p)'
    BY <1>0, <1>1, <1>4, <1>8 DEF SeederInv, ActiveInv, Seeding, r
  <2>2. LookedInv(p)'
    BY <1>1, <1>4 DEF LookedInv, Seeding
  <2>3. AloneInv(p)'
    <3> SUFFICES ASSUME seeder[p].alone
                 PROVE  /\ Strangers(p, seeder[p].release)' = {}
                        /\ ~seeder[p].failed =>
                             \A f \in Bundled(r) \ (seeder[p].todo \ {c}) :
                                 Shows(playbook'[f], r, f)
      BY <1>1, <1>4 DEF AloneInv, Bundled, r
    <3>1. Strangers(p, seeder[p].release)' = {}
      BY <1>0, <1>9 DEF SeederInv, AloneInv, Seeding
    <3>2. ASSUME ~seeder[p].failed, NEW f \in Bundled(r) \ seeder[p].todo
          PROVE  Shows(playbook'[f], r, f)
      <4>1. Shows(playbook[f], r, f)
        BY <1>0, <3>2 DEF SeederInv, AloneInv, Seeding, r
      <4> QED BY <1>7, <4>1 DEF Moves, Bundled
    <3>3. ASSUME c \in Bundled(r) PROVE Shows(playbook'[c], r, c)
      <4>1. c \in Family
        BY <3>3 DEF Bundled
      <4>2. seeder[p].preserve => Noted(playbook[c], r)
        BY <1>0, <4>1 DEF SeederInv, LookedInv, r
      <4>3. ~seeder[p].preserve \/ Noted(playbook[c], r)
        BY <4>2
      <4>4. Shows(new, r, c)
        BY <1>3, <4>1, <4>3
      <4> QED BY <1>4, <4>1, <4>4
    <3> QED BY <3>1, <3>2, <3>3
  <2> QED BY <2>1, <2>2, <2>3 DEF SeederInv
<1>12. WholeInv'
  <2> SUFFICES ASSUME whole
               PROVE  /\ \A q \in Starter : ~Seeding(q, "idle")' => seeder'[q].release = sentinel
                      /\ \A f \in Bundled(sentinel) : Shows(playbook'[f], sentinel, f)
    BY <1>2 DEF WholeInv, Bundled
  <2>1. /\ \A q \in Starter : ~Seeding(q, "idle") => seeder[q].release = sentinel
        /\ sentinel # Nothing => \A f \in Bundled(sentinel) : Shows(playbook[f], sentinel, f)
    BY DEF PlaybooksInv, SeedingInv, WholeInv
  <2>2. r = sentinel /\ r # Nothing
    BY <1>0, <2>1, PlaybooksAssumption DEF Seeding, r, Nothing
  <2>3. \A f \in Bundled(sentinel) : Shows(playbook'[f], sentinel, f)
    BY <1>7, <2>1, <2>2 DEF Moves, Bundled
  <2> QED BY <1>9, <2>1, <2>3
<1> QED BY <1>5, <1>6, <1>10, <1>11, <1>12 DEF PlaybooksInv, SeedingInv

-----------------------------------------------------------------------------
(* Theorems                                                                *)

LEMMA PlaybooksInitSound == PlaybooksInit => PlaybooksInv
<1> SUFFICES ASSUME PlaybooksInit PROVE PlaybooksInv
  OBVIOUS
<1>1. NoRow \in PlaybookRow
  BY DEF NoRow, Row, PlaybookRow
<1>2. PlaybooksTypeOK
  BY <1>1, NoSeedTyped DEF PlaybooksInit, PlaybooksTypeOK
<1>3. AmendsKept
  BY DEF PlaybooksInit, AmendsKept
<1>4. \A p \in Starter : Seeding(p, "idle")
  BY NoSeedTyped DEF PlaybooksInit, Seeding
<1>5. \A p \in Starter : SeederInv(p)
  BY <1>4 DEF SeederInv, ActiveInv, LookedInv, AloneInv, Seeding
<1>6. WholeInv
  BY <1>4 DEF WholeInv, PlaybooksInit
<1> QED BY <1>2, <1>3, <1>5, <1>6 DEF PlaybooksInv, SeedingInv

LEMMA PlaybooksStepSound == PlaybooksInv /\ [PlaybooksNext]_playbookVars => PlaybooksInv'
<1> SUFFICES ASSUME PlaybooksInv, [PlaybooksNext]_playbookVars PROVE PlaybooksInv'
  OBVIOUS
<1>1. CASE CommandNext
  BY <1>1, TeachSound, AmendSound DEF CommandNext
<1>2. CASE SeedNext
  BY <1>2, BeginSound, LookSound, SeedSound, FailSound, EndSound, DieSound DEF SeedNext
<1>3. CASE UNCHANGED playbookVars
  <2>1. PlaybooksTypeOK' /\ AmendsKept' /\ WholeInv'
    BY <1>3 DEF playbookVars, PlaybooksInv, PlaybooksTypeOK, AmendsKept, SeedingInv,
       WholeInv, Seeding, Bundled
  <2>2. ASSUME NEW p \in Starter PROVE SeederInv(p)'
    BY <1>3 DEF playbookVars, PlaybooksInv, SeedingInv, SeederInv, ActiveInv, LookedInv,
       AloneInv, Seeding, Strangers, Bundled, Current, NextAmend
  <2> QED BY <2>1, <2>2 DEF PlaybooksInv, SeedingInv
<1> QED BY <1>1, <1>2, <1>3 DEF PlaybooksNext

\* Rows, seeders and the history keep to their ranges.
THEOREM PlaybooksTypeCorrect == PlaybooksSpec => []PlaybooksTypeOK
<1>1. PlaybooksInv => PlaybooksTypeOK
  BY DEF PlaybooksInv
<1> QED BY <1>1, PlaybooksInitSound, PlaybooksStepSound, PTL DEF PlaybooksSpec

\* No release, failure or death takes an amend away unexcused, and a release that
\* is recorded as seeded is shown whole.
THEOREM PlaybooksKeptCorrect == PlaybooksSpec => []PlaybooksKept
<1>1. PlaybooksInv => PlaybooksKept
  <2> SUFFICES ASSUME PlaybooksInv, sentinel # Nothing, whole, NEW f \in Bundled(sentinel)
               PROVE  \E row \in Attached(f) :
                        /\ row.choreography \in {sentinel, ByUser}
                        /\ Embedded[sentinel][f] = "json and notes" =>
                             row.notes \in {sentinel, ByUser} \/ row.amends # {}
    BY DEF PlaybooksInv, PlaybooksKept, SeedComplete
  <2>1. Shows(playbook[f], sentinel, f)
    BY DEF PlaybooksInv, SeedingInv, WholeInv
  <2>2. playbook[f] \in Attached(f)
    BY <2>1 DEF Shows, Attached, ByUser, Nothing
  <2> QED BY <2>1, <2>2 DEF Shows, Noted
<1> QED BY <1>1, PlaybooksInitSound, PlaybooksStepSound, PTL DEF PlaybooksSpec

-----------------------------------------------------------------------------
(* The machines together                                                   *)

\* What one machine does, the other does not see.
LEMMA LearningMoves ==
    [LearningNext]_learningVars => [LearnNext]_learnVars /\ [PlaybooksNext]_playbookVars
<1> SUFFICES ASSUME [LearningNext]_learningVars
             PROVE  [LearnNext]_learnVars /\ [PlaybooksNext]_playbookVars
  OBVIOUS
<1>1. CASE LearningNext
  BY <1>1 DEF LearningNext, LearnNext
<1>2. CASE UNCHANGED learningVars
  BY <1>2 DEF learningVars
<1> QED BY <1>1, <1>2

(* Side by side, the learnings and the playbooks behave as each does alone. *)
THEOREM LearningComposed == LearningSpec => LearnSpec /\ PlaybooksSpec
<1>1. LearningInit => LearnInit /\ PlaybooksInit
  BY DEF LearningInit
<1> QED BY <1>1, LearningMoves, PTL DEF LearningSpec, LearnSpec, PlaybooksSpec

(* All that is said of them holds of both together, MCLearning!LearningTypeOK *)
(* among it.                                                                *)
THEOREM LearningCorrect ==
    LearningSpec => /\ [](LearningTypeOK /\ ExactMeansSame /\ StillFound /\ PlaybooksKept)
                    /\ RefreshHeals
<1>1. LearnTypeOK /\ PlaybooksTypeOK => LearningTypeOK
  BY DEF LearningTypeOK
<1> QED BY <1>1, LearningComposed, LearnTypeCorrect, PlaybooksTypeCorrect, ExactMeansSameCorrect,
           StillFoundCorrect, PlaybooksKeptCorrect, RefreshHealsCorrect, PTL
=============================================================================
