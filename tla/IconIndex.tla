------------------------------ MODULE IconIndex ------------------------------
(***************************************************************************)
(* The local mirror of the icon corpus: iconindex.Build and the tables it  *)
(* maintains (internal/iconindex/index.go, the schema of                   *)
(* internal/store/iconify_migrations.go), run by several processes of the  *)
(* command-line tool over one SQLite file and one response cache.          *)
(*                                                                         *)
(* The content of a set is abstracted to the number of the upstream        *)
(* version it was downloaded from; 0 means no rows.  Upstream's            *)
(* lastModified of a set is that same number, so "stamp <= rows" reads     *)
(* "the rows are at least as new as the timestamp stored with them".       *)
(* Every version of a set has at least one visible icon.                   *)
(*                                                                         *)
(* A database transaction is one step.  So is a GET, as the instant its    *)
(* response is composed; the cache file a miss leaves behind is written in *)
(* a step of its own, because a slow response may overwrite a newer one.   *)
(* The parallel fetches of a build are steps in any order; the semaphore   *)
(* of width opts.Concurrency only limits how many of them overlap.         *)
(***************************************************************************)
EXTENDS ResponseCache, FiniteSets

CONSTANTS
  Process,      \* processes running a command against the mirror
  Prefix,       \* set prefixes a command may name
  Live,         \* prefixes /collections lists
  Browsed,      \* live sets other commands read through the response cache
  Request,      \* the build options in use: [only, force, noCache]
  Tolerance,    \* a build fails when more than 1/Tolerance of its sets fail (10)
  MaxVersion    \* bound: versions upstream publishes of one set

ASSUME IconIndexAssumption ==
  /\ Live \subseteq Prefix
  /\ Browsed \subseteq Live
  /\ IsFiniteSet(Prefix)
  /\ Request \subseteq [only : SUBSET Prefix, force : BOOLEAN, noCache : BOOLEAN]
  /\ Tolerance \in Nat \ {0}
  /\ MaxVersion \in Nat \ {0}

VARIABLES
  up,           \* upstream's version of each set
  lmCache,      \* cached body of GET /last-modified
  iconCache,    \* cached bodies of GET /collection?prefix=p
  browsing,     \* body another command received for p and has not cached (0: none)
  known,        \* prefixes with a row in icon_sets
  rows,         \* version the rows of icons (and icons_fts) came from
  stamp,        \* icon_sets.last_modified
  pc,           \* where the process is in Build
  opts,         \* its BuildOptions and client flags
  sets,         \* prefixes it matched against /collections
  lm,           \* the last-modified map it fetched
  todo,         \* sets it has still to fetch
  got,          \* fetched rows on their way to replaceIcons (0: none)
  caching,      \* sets whose response is still to be written to its cache file
  failed,       \* Result.Failed
  outcome       \* what Build returned

upstreamVars == <<up>>
cacheVars == <<lmCache, iconCache, browsing>>
dbVars == <<known, rows, stamp>>
buildVars == <<pc, opts, sets, lm, todo, got, caching, failed, outcome>>
vars == <<upstreamVars, cacheVars, dbVars, buildVars>>

Version == 1 .. MaxVersion
NoVersions == [p \in Prefix |-> 0]
NoRequest == [only |-> {}, force |-> FALSE, noCache |-> FALSE]
Upstream == [p \in Prefix |-> IF p \in Live THEN up[p] ELSE 0]

TypeOK ==
  /\ up \in [Live -> Version]
  /\ lmCache \in Entry([Prefix -> 0 .. MaxVersion])
  /\ iconCache \in [Live -> Entry(0 .. MaxVersion)]
  /\ browsing \in [Browsed -> 0 .. MaxVersion]
  /\ known \subseteq Prefix
  /\ rows \in [Prefix -> 0 .. MaxVersion]
  /\ stamp \in [Prefix -> 0 .. MaxVersion]
  /\ pc \in [Process -> {"idle", "collections", "lastModified", "cacheLM",
                         "plan", "upsert", "fetch", "returned"}]
  /\ opts \in [Process -> Request \union {NoRequest}]
  /\ sets \in [Process -> SUBSET Live]
  /\ lm \in [Process -> [Prefix -> 0 .. MaxVersion]]
  /\ todo \in [Process -> SUBSET Live]
  /\ got \in [Process -> [Prefix -> 0 .. MaxVersion]]
  /\ caching \in [Process -> SUBSET Live]
  /\ failed \in [Process -> SUBSET Live]
  /\ outcome \in [Process -> {"none", "ok", "error"}]

Init ==
  /\ up = [p \in Live |-> 1]
  /\ lmCache = Absent(NoVersions)
  /\ iconCache = [p \in Live |-> Absent(0)]
  /\ browsing = [p \in Browsed |-> 0]
  /\ known = {}
  /\ rows = NoVersions
  /\ stamp = NoVersions
  /\ pc = [b \in Process |-> "idle"]
  /\ opts = [b \in Process |-> NoRequest]
  /\ sets = [b \in Process |-> {}]
  /\ lm = [b \in Process |-> NoVersions]
  /\ todo = [b \in Process |-> {}]
  /\ got = [b \in Process |-> NoVersions]
  /\ caching = [b \in Process |-> {}]
  /\ failed = [b \in Process |-> {}]
  /\ outcome = [b \in Process |-> "none"]

-----------------------------------------------------------------------------
(* The world around the builds. *)

\* Upstream releases a new version of a set; its lastModified moves with it.
Publish(p) ==
  /\ up[p] < MaxVersion
  /\ up' = [up EXCEPT ![p] = @ + 1]
  /\ UNCHANGED <<cacheVars, dbVars, buildVars>>

\* Time passes and the cached bodies grow older.
Tick ==
  /\ lmCache' = Aged(lmCache)
  /\ iconCache' = [p \in Live |-> Aged(iconCache[p])]
  /\ UNCHANGED <<upstreamVars, browsing, dbVars, buildVars>>

\* Another command (diff, sets get) GETs one collection that is not cached ...
Browse(p) ==
  /\ browsing[p] = 0
  /\ ~Fresh(iconCache[p])
  /\ browsing' = [browsing EXCEPT ![p] = up[p]]
  /\ UNCHANGED <<upstreamVars, lmCache, iconCache, dbVars, buildVars>>

\* ... and writes the response to its cache file.
CacheBrowsed(p) ==
  /\ browsing[p] # 0
  /\ iconCache' = [iconCache EXCEPT ![p] = Written(browsing[p])]
  /\ browsing' = [browsing EXCEPT ![p] = 0]
  /\ UNCHANGED <<upstreamVars, lmCache, dbVars, buildVars>>

\* Another command (diff --all-changed) GETs /last-modified through the cache;
\* one step, as an old timestamp map only makes a build fetch more.
CachedGetLastModified ==
  /\ Browsed # {}
  /\ ~Fresh(lmCache)
  /\ lmCache' = Written(Upstream)
  /\ UNCHANGED <<upstreamVars, iconCache, browsing, dbVars, buildVars>>

-----------------------------------------------------------------------------
(* Build, step by step. *)

Goto(b, label) == pc' = [pc EXCEPT ![b] = label]

Returns(b, result) ==
  /\ Goto(b, "returned")
  /\ outcome' = [outcome EXCEPT ![b] = result]

\* The response cache serves a build unless its client was made with --no-cache.
UsesCache(b) == ~opts[b].noCache

\* A command calls Build with options r.
Start(b, r) ==
  /\ pc[b] = "idle"
  /\ Goto(b, "collections")
  /\ opts' = [opts EXCEPT ![b] = r]
  /\ UNCHANGED <<upstreamVars, cacheVars, dbVars, sets, lm, todo, got, caching, failed, outcome>>

\* The sets /collections lists, restricted to those --only names.
Matched(only) == IF only = {} THEN Live ELSE only \intersect Live

\* GET /collections and keep the sets --only names; none left is an error.
FetchCollections(b) ==
  /\ pc[b] = "collections"
  /\ sets' = [sets EXCEPT ![b] = Matched(opts[b].only)]
  /\ IF Matched(opts[b].only) = {}
     THEN Returns(b, "error")
     ELSE Goto(b, "lastModified") /\ UNCHANGED outcome
  /\ UNCHANGED <<upstreamVars, cacheVars, dbVars, opts, lm, todo, got, caching, failed>>

\* GET /last-modified, from the cache file if it is fresh.
FetchLastModified(b) ==
  LET hit == UsesCache(b) /\ Fresh(lmCache)
  IN  /\ pc[b] = "lastModified"
      /\ lm' = [lm EXCEPT ![b] = IF hit THEN lmCache.body ELSE Upstream]
      /\ Goto(b, IF hit \/ ~UsesCache(b) THEN "plan" ELSE "cacheLM")
      /\ UNCHANGED <<upstreamVars, cacheVars, dbVars, opts, sets, todo, got, caching,
                     failed, outcome>>

\* The response of a miss goes to its cache file before Get returns.
CacheLastModified(b) ==
  /\ pc[b] = "cacheLM"
  /\ lmCache' = Written(lm[b])
  /\ Goto(b, "plan")
  /\ UNCHANGED <<upstreamVars, iconCache, browsing, dbVars, opts, sets, lm, todo, got,
                 caching, failed, outcome>>

\* A failed or unparsable /last-modified is ignored: every stamp counts as 0.
LastModifiedFails(b) ==
  /\ pc[b] = "lastModified"
  /\ lm' = [lm EXCEPT ![b] = NoVersions]
  /\ Goto(b, "plan")
  /\ UNCHANGED <<upstreamVars, cacheVars, dbVars, opts, sets, todo, got, caching, failed, outcome>>

\* Broken: a set that was ever indexed is never fetched again.
UpToDateOnceStamped(b, p) == ~opts[b].force /\ lm[b][p] # 0 /\ stamp[p] # 0

\* Skipped: upstream reports the timestamp recorded with the rows.
UpToDate(b, p) == ~opts[b].force /\ lm[b][p] # 0 /\ stamp[p] = lm[b][p]

\* storedLastModified and the loop that skips the sets that have not moved.
Plan(b) ==
  /\ pc[b] = "plan"
  /\ todo' = [todo EXCEPT ![b] = {p \in sets[b] : ~UpToDate(b, p)}]
  /\ Goto(b, "upsert")
  /\ UNCHANGED <<upstreamVars, cacheVars, dbVars, opts, sets, lm, got, caching, failed, outcome>>

\* Broken: the set row is inserted with its current timestamp.
InsertedStampCurrent(b, p) == lm[b][p]

\* last_modified of a row upsertSets inserts.
InsertedStamp(b, p) == 0

\* upsertSets: one transaction; a row that is there keeps its last_modified.
UpsertSets(b) ==
  /\ pc[b] = "upsert"
  /\ known' = known \union sets[b]
  /\ stamp' = [p \in Prefix |-> IF p \in sets[b] \ known
                                  THEN InsertedStamp(b, p) ELSE stamp[p]]
  /\ Goto(b, "fetch")
  /\ UNCHANGED <<upstreamVars, cacheVars, rows, opts, sets, lm, todo,
                 got, caching, failed, outcome>>

\* /collections, storedLastModified or upsertSets fails: Build gives up.
BuildFails(b) ==
  /\ pc[b] \in {"collections", "plan", "upsert"}
  /\ Returns(b, "error")
  /\ UNCHANGED <<upstreamVars, cacheVars, dbVars, opts, sets, lm, todo, got, caching, failed>>

\* One worker GETs /collection?prefix=p; an error is FetchIconsFails below.
FetchIcons(b, p) ==
  LET hit == UsesCache(b) /\ Fresh(iconCache[p])
  IN  /\ pc[b] = "fetch"
      /\ p \in todo[b]
      /\ got' = [got EXCEPT ![b][p] = IF hit THEN iconCache[p].body ELSE up[p]]
      /\ caching' = [caching EXCEPT ![b] = IF hit \/ ~UsesCache(b) THEN @ ELSE @ \union {p}]
      /\ todo' = [todo EXCEPT ![b] = @ \ {p}]
      /\ UNCHANGED <<upstreamVars, cacheVars, dbVars, pc, opts, sets, lm, failed, outcome>>

\* The response of a miss goes to its cache file before Get returns.
CacheIcons(b, p) ==
  /\ pc[b] = "fetch"
  /\ p \in caching[b]
  /\ iconCache' = [iconCache EXCEPT ![p] = Written(got[b][p])]
  /\ caching' = [caching EXCEPT ![b] = @ \ {p}]
  /\ UNCHANGED <<upstreamVars, lmCache, browsing, dbVars, pc, opts, sets, lm, todo, got,
                 failed, outcome>>

\* Broken: the error is swallowed.
FailsUnrecorded(b, p) == UNCHANGED failed

\* res.Failed grows by one set.
Fails(b, p) == failed' = [failed EXCEPT ![b] = @ \union {p}]

\* The fetch or the parse of one set fails.
FetchIconsFails(b, p) ==
  /\ pc[b] = "fetch"
  /\ p \in todo[b]
  /\ todo' = [todo EXCEPT ![b] = @ \ {p}]
  /\ Fails(b, p)
  /\ UNCHANGED <<upstreamVars, cacheVars, dbVars, pc, opts, sets, lm, got, caching, outcome>>

\* Broken: the timestamp is looked up again when the rows are written.
RecordedStampLatest(b, p) == Upstream[p]

\* The timestamp replaceIcons records: the one the job was planned with.
RecordedStamp(b, p) == lm[b][p]

\* replaceIcons: one transaction swaps the rows of icons and icons_fts and records
\* the timestamp.  (It also snapshots the prior names in icon_set_snapshots, which
\* no code reads.)
ReplaceIcons(b, p) ==
  /\ pc[b] = "fetch"
  /\ got[b][p] # 0 /\ p \notin caching[b]
  /\ rows' = [rows EXCEPT ![p] = got[b][p]]
  /\ stamp' = [stamp EXCEPT ![p] = IF p \in known THEN RecordedStamp(b, p) ELSE @]
  /\ got' = [got EXCEPT ![b][p] = 0]
  /\ UNCHANGED <<upstreamVars, cacheVars, known, pc, opts, sets, lm, todo, caching, failed, outcome>>

\* replaceIcons rolls back (a busy database, an expired deadline).
ReplaceIconsFails(b, p) ==
  /\ pc[b] = "fetch"
  /\ got[b][p] # 0 /\ p \notin caching[b]
  /\ got' = [got EXCEPT ![b][p] = 0]
  /\ Fails(b, p)
  /\ UNCHANGED <<upstreamVars, cacheVars, dbVars, pc, opts, sets, lm, todo, caching, outcome>>

\* Broken: one failure more is let through.
TooManyFailedButOne(b) ==
  Cardinality(failed[b]) > Cardinality(sets[b]) \div Tolerance + 1

TooManyFailed(b) ==
  Cardinality(failed[b]) > Cardinality(sets[b]) \div Tolerance

\* Every worker has answered and every answer has been dealt with.
Drained(b) == todo[b] = {} /\ got[b] = NoVersions

\* The channel is drained: report, as an error if too many sets failed.
FinishBuild(b) ==
  /\ pc[b] = "fetch"
  /\ Drained(b)
  /\ Returns(b, IF TooManyFailed(b) THEN "error" ELSE "ok")
  /\ UNCHANGED <<upstreamVars, cacheVars, dbVars, opts, sets, lm, todo, got, caching, failed>>

\* The process is gone, and with it everything Build held in memory.
Forget(b) ==
  /\ Goto(b, "idle")
  /\ opts' = [opts EXCEPT ![b] = NoRequest]
  /\ sets' = [sets EXCEPT ![b] = {}]
  /\ lm' = [lm EXCEPT ![b] = NoVersions]
  /\ todo' = [todo EXCEPT ![b] = {}]
  /\ got' = [got EXCEPT ![b] = NoVersions]
  /\ caching' = [caching EXCEPT ![b] = {}]
  /\ failed' = [failed EXCEPT ![b] = {}]
  /\ outcome' = [outcome EXCEPT ![b] = "none"]

\* The index command reports the result and exits.
Exit(b) ==
  /\ pc[b] = "returned"
  /\ Forget(b)
  /\ UNCHANGED <<upstreamVars, cacheVars, dbVars>>

\* The process is killed inside Build.
Crash(b) ==
  /\ pc[b] \notin {"idle", "returned"}
  /\ Forget(b)
  /\ UNCHANGED <<upstreamVars, cacheVars, dbVars>>

World ==
  \/ \E p \in Live : Publish(p)
  \/ \E p \in Browsed : Browse(p) \/ CacheBrowsed(p)
  \/ CachedGetLastModified
  \/ Tick

\* The steps a running build takes by itself.
BuildStep(b) ==
  \/ FetchCollections(b)
  \/ FetchLastModified(b) \/ CacheLastModified(b) \/ LastModifiedFails(b)
  \/ Plan(b)
  \/ UpsertSets(b)
  \/ BuildFails(b)
  \/ \E p \in Live : \/ FetchIcons(b, p) \/ CacheIcons(b, p) \/ FetchIconsFails(b, p)
                     \/ ReplaceIcons(b, p) \/ ReplaceIconsFails(b, p)
  \/ FinishBuild(b)

Next ==
  \/ World
  \/ \E b \in Process :
       \/ \E r \in Request : Start(b, r)
       \/ BuildStep(b)
       \/ Exit(b)
       \/ Crash(b)

Spec == Init /\ [][Next]_vars

\* A build that is not killed keeps going: its goroutines are scheduled, and every
\* request and transaction ends, with an error at the latest when its deadline
\* (--index-timeout, --timeout) expires.
FairSpec == Spec /\ \A b \in Process : WF_vars(BuildStep(b))

-----------------------------------------------------------------------------
(* Properties. *)

\* A set carries a timestamp only if it has rows, so no crash, failed fetch or
\* rolled back transaction leaves a set that Plan would skip with nothing in it
\* (upsertSets inserts 0; only replaceIcons records a timestamp).
StampedHasRows == \A p \in Prefix : stamp[p] # 0 => rows[p] # 0

\* The rows of a stamped set are at least as new as its timestamp, so a set
\* Plan skips as unchanged is current: Build fetches /last-modified before any
\* /collection and replaceIcons commits both together.  It holds of builds that
\* bypass the response cache.
StampHonest == \A p \in Prefix : stamp[p] # 0 => stamp[p] <= rows[p]

\* A build that reports success leaves at most 1/Tolerance of the sets it
\* matched without rows, whoever else was writing and whatever it skipped.
OkMeansIndexed ==
  \A b \in Process :
    pc[b] = "returned" /\ outcome[b] = "ok"
      => Cardinality({p \in sets[b] : rows[p] = 0}) <= Cardinality(sets[b]) \div Tolerance

\* Every set is accounted for: once the rows are being fetched, a matched set is
\* still to fetch, waiting to be written, listed as failed, or has rows.
Accounted ==
  \A b \in Process :
    pc[b] \in {"fetch", "returned"} /\ outcome[b] # "error"
      => \A p \in sets[b] :
           p \in todo[b] \/ got[b][p] # 0 \/ p \in failed[b] \/ rows[p] # 0

\* Build returned without a failed set, and p was among its sets.
CleanExit(b, p) ==
  Exit(b) /\ outcome[b] = "ok" /\ failed[b] = {} /\ p \in sets[b]

\* If builds covering p keep ending without a failure, the mirror of p becomes
\* and stays current once upstream stops publishing ("re-pulls only the sets that
\* actually changed" never leaves one behind).  It holds of builds that bypass the
\* response cache.
EventuallyCurrent ==
  \A p \in Live :
    []<><<\E b \in Process : CleanExit(b, p)>>_vars => <>[](rows[p] = up[p])

\* What the mirror promises its readers: IndexMirror.
Mirror == INSTANCE IndexMirror
MirrorSpec == Mirror!Spec

=============================================================================
