# A verified model of iconify-cli

TLA+ modules, TLC configurations and TLAPS proofs for the Go program in `src/`:
a command-line tool and an MCP server around the Iconify API, with a local
SQLite mirror of the icon corpus, an HTTP response cache, a learning journal and
a platform layer for rate limits and receipts. Paths below are relative to
`src/internal/`.

Run a model with `tlc -config <run>.cfg <module>.tla`, the proofs with
`tlapm <module>Proofs.tla`. `PROJECT.json` lists the components, the runs, the
mutants (plausible bugs every property is shown to catch), the source lines of
every definition, the findings and the hazards.

## 1. The system

### Components, their state and how they interact

| Component | State it keeps | Operations | Talks to |
|---|---|---|---|
| Icon index (`iconindex/index.go`, `store/iconify_migrations.go`, `cli/iconify_index.go`) | tables `icon_sets` (with `last_modified`), `icons`, `icons_fts`, `icon_set_snapshots` | `Build`: list sets, read timestamps, plan, upsert sets, fetch in parallel, replace rows one transaction per set | HTTP client (parallel GETs), SQLite |
| Index readers (`cli/set_pick.go`, `swap.go`, `audit.go`, `shadcn.go`, `kit.go`, `diff.go`; `iconindex/query.go`; `cli/iconify_autoindex.go`) | none | open the mirror, make sure the needed sets are indexed (may run `Build`), answer from the rows | icon index, client |
| HTTP client (`client/client.go`) | per-process limiter and retry budget; response files on disk | GET through a five-minute cache, mutations that clear it, retries with backoff, `Retry-After` | Iconify API, platform ledger |
| Store (`store/store.go`, `extras.go`) | one SQLite file, `user_version`, resource rows, sync state | open and migrate, upsert, reconcile, sync cursors | every command |
| Sync (`cli/sync.go`) | cursor, watermark and progress rows | page loop per resource, worker pool, `--full`, `--latest-only`, exit policy | client, store |
| Learning journal (`learn/journal.go`, `learn/derive.go`) | daily append-only segments, an offset file | append one line per command, delete old segments, derive flag corrections from the tail | candidates |
| Candidates (`store/candidates.go`, `cli/learnings_candidates.go`) | rows open / confirmed / rejected / expired | derive, confirm into a playbook note, reject, expire, purge | playbooks |
| Learnings and playbooks (`store/learnings.go`, `playbooks.go`, `learn/*.go`, `cli/teach*.go`) | rows with confidence and counters | teach, recall, promote, amend, seed | store |
| Endpoint limiter and receipts (`platform/ratelimit.go`, `receipt.go`) | a ledger file of reserved instants and an audit index, under `O_EXCL` lock files | reserve and sleep, append | every process of a profile |
| Adaptive limiter (`cliutil/ratelimit.go`) | rate, ceiling, success counter, header mode | wait, on success, on 429, observe headers | client |
| Fan-out (`cliutil/fanout.go`) | a bounded worker pool | run one function per source | commands |
| Platform gate and migration (`platform/gate.go`, `migration.go`, `profile.go`, `metadata.go`) | profiles, receipts, a legacy database | fail-closed checks, backup, adoption | every platform command |
| MCP (`mcp/*`) | a cursor store of oversized results | page a result within byte and item bounds | command tree |
| Data source (`cli/data_source.go`) | none | auto / local / live reads with fallback | client, store |

Everything else (flag parsing, tables, text scoring, path handling) keeps no
state across steps and is listed in `PROJECT.json` as not modelled.

### What makes each component correct

* **Icon index**: a timestamp is never newer than the rows it stands beside, a set
  with a timestamp has rows, what `Build` reports adds up to what it was asked
  for, builds end, and the mirror catches up with upstream.
* **Index readers**: an answer comes from rows of the sets it speaks of, never from
  a set that is merely listed.
* **HTTP client**: a request that may have been executed is repeated only if that is
  harmless, within attempts and budget; after a mutation no older response is served
  for longer than the cache's age limit.
* **Journal and derivation**: the offset marks exactly the consumed prefix, no
  correction is lost, none is counted twice but after a failed pass.
* **Candidates**: a settled candidate stays settled until it is purged, a confirmed one
  has its artifact or was settled on a row of notes, nothing a person taught is overwritten by a promotion.
* **Store**: whichever versions open one file in whichever order, the schema never goes
  back and the version stamp tells the truth.
* **Endpoint limiter and receipts**: no more than the burst plus the steady rate is let
  through by all processes together; no audit entry is lost; a dead holder's lock is
  broken.
* **Adaptive limiter**: the rate stays between its floor and the explicit maximum.
* **Fan-out**: one result or one error per source, under cancellation and panics.
* **Platform gate and migration**: nothing unverified is adopted, a backup is complete
  or undone.
* **MCP**: following the cursors returns every item once, and ends.
* **Sync**: the exit code does not hide a critical failure, and what a zero exit calls
  stored is stored; a watermark is never ahead of what the rows say.
* **Export**: a zero exit leaves a file with the records the answer carried.
* **Data source**: what a process looked up is still stored afterwards.
* **Learnings**: an exact match is about the entity that was asked for, or one that contains
  it or is within it, what was taught is found again, and a refresh of lookups heals what recall missed within its cap.
* **Playbooks**: an amend is lost only where the code gives it up knowingly, and what
  is recorded as seeded was seeded.
* **Profiles**: nobody is served the response of another tenant.

### What is hard here

* **Several processes share files without talking to each other**: the SQLite
  mirror, the response cache, the journal, the rate-limit ledger. The code relies
  on `BEGIN IMMEDIATE` transactions, on atomic appends and on lock files.
* **Staleness**: `Build` decides what to skip by a timestamp it fetched through a
  cache, and pairs it with rows it fetched through the same cache.
* **Partial failure**: a build commits set by set, a derivation batch row by row, a
  sync page by page; a crash or an error in the middle leaves a prefix behind, and
  the next command has to tell that from a whole.
* **Time**: cache expiry, stale-lock breaking, the fifteen-minute correction window
  of the journal, daily segments and their retention.

The hazards are listed line by line in `PROJECT.json`, each with the properties
that would catch it.

## 2. Modules

| Module | Models |
|---|---|
| `ResponseCache` | one cached GET body and its age (operators only) |
| `IconIndex` | `iconindex.Build` run by any number of processes over one mirror and one response cache |
| `IndexMirror` | the abstract mirror: what its readers may rely on |
| `IconIndexProofs` | theorems about `IconIndex` |
| `IndexCommands` | the commands that fill and read the mirror, composed with `IconIndex` |
| `IndexCommandsProofs` | theorems about `IndexCommands`, on those about `IconIndex` |
| `LearnJournal` | the invocation journal and the derivation pass, run by any number of processes over one state directory |
| `LearnJournalProofs` | theorems about `LearnJournal` |
| `Candidates` | the candidate table, the commands that judge it and the teach flow, by any number of processes over one database |
| `CandidateLifecycle` | the abstract state machine of a candidate |
| `CandidatesProofs` | theorems about `Candidates` |
| `EndpointLedger` | the shared token bucket and the audit index, files behind lock files that may be broken |
| `AdaptiveLimiter` | the client's rate limiter under successes, refusals and headers |
| `RateLimitProofs` | theorems about `AdaptiveLimiter` and `EndpointLedger` |
| `ClientRequest` | one call of the HTTP client: modes, retries, ambiguous failures, the cached body |
| `BoundedResults` | a tool's result within its byte budget, and the cursors that continue it |
| `ClientRequestProofs` | theorems about `ClientRequest` and `BoundedResults`, and, on those of `RateLimitProofs`, about `MCRequests` |
| `StoreSchema` | processes of several releases opening and migrating one store file |
| `ResourceIdentity` | under which identifier an item is stored (operators only) |
| `PageReply` | what a 200 answer is taken for, by sync and by export (operators only) |
| `SyncRun` | the sync command: jobs, rows, watermarks, exit |
| `Export` | the export command and its output file |
| `DataSource` | reads from the API, the cache or the store, and what is written through |
| `ClientProfiles` | profiles, the tenant gate, fingerprints and cached responses, migration of an old database |
| `StoreProofs` | theorems about `StoreSchema`, `SyncRun`, `Export`, `PageReply`, `DataSource` and `ClientProfiles`, and about `MCStore` |
| `Learnings` | teach, recall, forget, patterns, lookups and their refresh |
| `Playbooks` | playbooks taught, amended and seeded by several releases |
| `LearningProofs` | theorems about `Learnings` and `Playbooks`, and about `MCLearning` |
| `MC*` | values of the constants for TLC |

Composition: `IndexCommands` extends `IconIndex`; `SyncRun` and `Export` extend
`PageReply`, which extends `ResourceIdentity`; `IconIndex`, `ClientRequest` and
`DataSource` use `ResponseCache`; `IconIndex` implements `IndexMirror` and `Candidates`
implements `CandidateLifecycle`. `MCRequests`, `MCStore` and `MCLearning` put machines that
share no variable side by side. Their variable `focus` picks one of them, and the others
stay in an initial state: a behaviour is one of that machine, so a run answers for each
of them what a run of its own would. That it is a behaviour of each machine is proved
(section 4).

### IconIndex

The content of a set is the number of the upstream version it was downloaded
from (`rows[p]`, 0 for none); upstream's `lastModified` of a set is that same
number, so `stamp[p] <= rows[p]` says that the recorded timestamp is no newer
than the rows. `pc[b]` is the place of process `b` in `Build`; `sets`, `lm`,
`todo`, `got`, `failed`, `outcome` are its local variables and the results
channel. One action stands for one request or one transaction:

`FetchCollections` (with the `--only` filter), `FetchLastModified` /
`LastModifiedFails`, `Plan` (`storedLastModified` and the skip loop),
`UpsertSets`, `FetchIcons` / `FetchIconsFails` for each worker, `ReplaceIcons` /
`ReplaceIconsFails` for the serialized writer, `FinishBuild` with the failure
threshold, `BuildFails` for the early returns. A cache miss takes two steps
(response composed, cache file written), because a slow response may overwrite a
newer file. `Crash` kills a process anywhere. `Publish` moves upstream, `Tick`
ages the cache, `Browse` / `CacheBrowsed` / `CachedGetLastModified` are the other
commands that read through the cache.

Left out: the text of names and categories, hidden icons and aliases (every
version of a set is assumed to have a visible icon), `icon_set_snapshots`
(written by `replaceIcons`, read by no code), progress callbacks.

### IndexCommands

Each process runs one command at a time: `index`, `set-pick`, `swap`, `audit`, `shadcn`.
`Invoke` opens the mirror (`openIconIndexState`), `Filter` is audit's filter of
references by known prefixes, `EnsureIndexed` is `ensureIndexed` (the sets
without rows, or the bootstrap sets into an empty mirror) which starts a
`Build` of its own, `Verify` is swap's second look, `Divide` is shadcn's
division of icons into those the mirror knows and those it asks the API for, `Answer` reads
the rows. Left out: in the dogfood environment `ensureIndexed` builds only one of the sets.

### LearnJournal

After its command, every process appends an entry to the segment of the day it
read from the clock and runs one derivation pass. A segment is the sequence of
its lines, an offset counts lines; a line is the number of an entry, `Torn` (no
newline yet) or `Junk` (complete, no JSON). `RepairJournalSegmentTail`,
`OpenSegment` and `WriteEntry` are three system calls, so other processes and
midnight come in between; `AppendFails` is an error of any of them, a short
write included; `CleanupJournalSegments` is retention, which may stop early. The
pass is `LoadJournalOffset`, `ListJournalSegments`, one `ReadSegment` per file,
`HoldBatch` or `PairFlagCorrections`, one `DeriveCandidate` per pair and
`StoreJournalOffset`; `SkipPass`, `PassFails` and `Kill` end it early.

The session key and verb chain of an entry are one `Key`, for the pairing rule
compares them together; its `Kind` says what `correctedFlagForPair` makes of it:
an unknown flag, a success that carries the correction, anything else. How a
correction is inferred (suggestion, edit distance), argument shapes and the
query family of the pair are text and left out. The clock stops a window after
the last entry (a bound), so that every failure can be decided. `seen`, `counted` and
`late` are history: the entries a finished pass has read, the sightings of each
failure, and the entries written after the day of their segment (the process named
the segment, then midnight came), which may land before the stored offset.

### Candidates

`rows` maps a signature to its row. A flag correction is its own signature, a
playbook candidate is known by its query family. A row has an `id` (SQLite's:
one more than the largest in use, so a purge frees it), a status, the signature
its payload is about and, for a playbook, the number of steps. One action is one
statement or transaction: `Show` / `Confirm` (read and print, then the
transaction), `Reject`, `ExpireCandidates` / `PurgeCandidates` (the two
statements of purge), `DeriveFlagAlias` (the upsert of a derivation pass), and the
teach flow: `TeachPlaybook`, `ListOpen`, `GetPlaybookByFamily`,
`PromoteMaterializing` or `PromoteSettling`, `Synthesize`, `DeriveSynthesis`,
`ReadSynthesis`, `RefreshShorterSynthesis`. `playbook` is a family's row in
`learning_playbooks`, `notes` the corrections in its notes: the note of a confirmed
correction makes a row of notes alone where the family has none, and a teach takes it
for a playbook. `lacking` is history: what such a row, or later notes in place of a
correction, left without its artifact. Everything a process read before is in
`held`. Sighting counts only order listings and are left out.

### EndpointLedger

`lock[f]` is a lock file (its owner and age) of the ledger or of the audit index,
`bucket` and `index` the two files, `caller[p]` the step of a process. `CreateLock` is the
exclusive creation; who finds a file judges it (`JudgeStale`) and removes it in a later
call (`RemoveStale`), or gives up (`AbandonLock`). `ReadLedger`, `WriteLedger` (or
`WriteFails`), `ReleaseLedger`, then sleep until the reserved moment: `EndWait`, or
`CancelWait`. `BeginFinalize`, `ReadIndex`, `WriteIndex`, `EndFinalize` are the receipt's
line in the index. Tokens are counted in parts, one of which a tick refills.
`HoldersPrompt` bounds the clock: a live holder is done long before two minutes are over,
so that only a dead one's file is broken.

### AdaptiveLimiter

`limiter` has the fields of the Go struct, in tenths of a request per second; `ahead` and
`gap` are the last reserved slot and its distance from the one before. `Wait` reserves a
slot; `Succeed`, `Refuse` and `Err` are the three things a response does.

### ClientRequest

`changes` counts what the server did, a body is the count it was composed at. `Begin`
looks into the cache or sends; `Serve` is the server's part, which may happen although
`Failed` follows (a lost answer); `Refused` is a 429 or a 5xx, `Retry` the decision whether
a failed attempt is made again (attempts, time budget, and whether repeating is
harmless), `Accept` a 2xx, `TruncateCache` / `FillCache` the two instants of writing the
cached body in place, `Crash` a death. An `Operation` is what the wrappers around
`doInternal` differ in. The next caller of the cache is another process as well as
another goroutine: the file is all they share.

### BoundedResults

An answer is a list of pages of item sizes beside other fields. `CallTool` renders the
result for the cursor in hand: `FitPage` for a handler with paging, `UnpagedResult`,
`BinaryResult` and `CommandResult` for the others, `WithMetadata` for a platform session.
Answers are told from pages: the first is asked for without a cursor and compared with none,
so that a first page whose cursor names itself is asked for, and given, a second time.
`ChangeList` takes an item away between two calls. No tool of this release turns paging
on; the paged renderer is modelled all the same, for its tests are the contract of the
package.

### StoreSchema

`file` is the committed database: stamped version, release of its tables, key of the
resources table, key and content of its full-text index, rows, indexed rows. An opener
looks before it has the lock (`Preflight`, `ReadVersion`), takes it (`BeginMigration`, or
`BusyTooLong`), rereads, migrates step by step (`MigrateKeys`, `CreateTables`,
`MigrateContent`, `Stamp`, `CommitMigration`) on the copy `work`, and may fail or die at each
(`FailMigration`). `UpsertRow` is a command at work.

### ResourceIdentity, PageReply, SyncRun, Export

An answer is abstracted to the kinds of its keys and to what each holds; the tables of the
code (`pageItemKeys`, `dataEnvelopeKeys`, the metadata keys) have a member per kind.
`KindOf` is sync's order of decisions, `ExportedRecords` export's, `StorageID` the name an
item is stored under. A worker does `TakeJob`, `TakeReply` (or `Previewed`, in a dry run),
`RefuseReply` or `StoreRows` or `SkipText`, and `SaveState` with the watermark; `EndSync` counts and
chooses the exit code, `KillSync` ends the process anywhere. The tables of this program
declare no cursor parameter on a paginated resource, no temporal filter, no hydration, no
discriminator and no reconcilable resource: the page loop ends in its first round.
`OpenExport` truncates the file, `ReadExport` takes the one answer apart, `WriteRecord` /
`WriteExportFails` / `FinishExport` are the buffer.

### DataSource

Records change together at the API (`ApiChanges`), a body is cached per scope. `StartRead`
is the choice of a source, `Answered` / `RefusedRead` / `Unreachable` the request,
`WriteThrough` what becomes of a live answer, `AnswerLocally` the fallback; `SyncAsks` and
`SyncStores` are a sync in two steps. `RowsOf` says which records an answer's shape leaves in the
store.

### ClientProfiles

`Prepare`, `OpenKey` / `FillKey` / `CloseKey` / `FillFails` (the fingerprint key file is
created, filled and closed; if either fails it is removed, also when others have read the
key: keys are counted, and `withdrawn` is the last that was removed complete), `Verify` (the provider is asked whom the credential opens), `Get` through the
profile's response directory; `SaveProfile`, `DeleteProfile`, `ClearCache`. Migration:
`Inspect` what is there, `Adopt` (or `KeepProfile`), the copy in two instants (`BeginCopy`,
`EndCopy`) with its verification (`AcceptCopy`) or failure (`CopyFails`), and the renames to backups
(`BeginBackup`, `MoveOld`, `MoveFails`). A source is registered by tests only in this
release; the gate runs for every registered source alike.

### Learnings

A query is a set of words, some marked as entities by their capitals; a resource id is the
text around an entity. `Part` and `Starts` say which words are within a word and at its
beginning: entities match, and a refresh finds names, if one contains the other (`Kin`), and
a pattern finds ids that go on after what it substituted (`Substituted`). `BeginTeach`, `UpsertLearning` and `Extract` are the steps of a teach
(a query of stopwords alone is refused by the upsert); `Forget`, `TeachPattern`,
`TeachLookup` are commands of one transaction; `LoadRefresh`, `Collect`, `InsertSynced`,
`EndRefresh` the refresh of synced lookups. `Recall` is a pure operator: `Hits` of the five
sources, their match class (`Verdict`), priority and limit (`MayShow`).

### Playbooks

`TeachPlaybook` and `Amend` are commands. Every start seeds when the release recorded in
the store is not its own: `BeginSeed`, then family by family `LookForAmends` (or `LookFails`,
which counts as having seen no amend) and `SeedFamily` (or `SeedFamilyFails`), `EndSeed`, or
`SeederDies`. `amended`, `excused` and `whole` are
history for the properties.

## 3. Runs

| Run | Question | Instance |
|---|---|---|
| `index_sets` | Does what a build reports and leaves behind add up (`OkMeansIndexed`, `Accounted`), and can a set get a timestamp and no rows (`StampedHasRows`)? | 2 processes, 2 listed sets and an unlisted one, all or one of them named, a cache shared with other readers, tolerance 2 so that one failure is tolerated and two are not |
| `index_uncached` | Without the cache, are timestamps honest, does the model implement `IndexMirror`, do builds end, does the mirror catch up? | 2 processes, fair, 1 set, 3 versions, with and without `--force` |
| `index_stale_stamp` | Finding: through the cache, timestamps are not honest | 1 process, TTL 1 |
| `commands` | Do swap, set-pick, audit and shadcn answer only from rows they may answer from (`AnswersLooked`)? | 2 processes that may be killed, 2 listed sets and an unlisted one |
| `journal_day` | Does the offset mark the consumed prefix (`PrefixConsumed`), and are only real corrections recorded (`OnlyCorrections`), also across midnight? | 2 processes, 1 key, 3 entries, window 1, days of one tick, 4 of them; a third entry is composed on the first day only (`SomeDays`) |
| `journal_alone` | Is no correction lost (`CorrectionsCounted`) and none recorded more often than passes failed (`ReplayBounded`)? | 1 process, 2 keys, 4 days of one tick, retention by age and size, one failure or death |
| `journal_live` | Is everything on disk consumed in the end? | 2 processes, fair, 2 entries, one failure or death |
| `candidates_judged` | Does the table implement the life cycle, has a confirmed candidate its artifact, does a settled payload stay? | 2 processes, 1 correction, 1 family, no purge |
| `candidates_alone` | With purges, does a candidate's playbook never grow, a promotion never replace a playbook? | 1 process, 2 families, ids up to 3 |
| `requests` | Ledger: are two processes inside a file only after a death (`OverlapOnlyAfterDeath`), is no token given twice and no index line lost (`NothingLost`), does every wait end (`EveryWaitEnds`)? Limiter: `RateWithinLimits`. Client: `NoReplay`, `ReadsOwnWrites`. Results: `ResultsHonest` | 2 processes and one death; 3 limiters and 3 headers; 2 callers with 3 calls, 4 operations, 3 modes, 2 policies; answers of one or two pages around a budget of 20 bytes, some whose first page names itself |
| `store` | Schema: `SchemaMatchesStamp`, `MigrationKeeps`. Sync and export: `WatermarkNotAhead`, `ExitHonest`, `SyncEnds`. Reads: `LookedUpIsStored`. Profiles: `ServedOwnTenant`, `AdoptionKeeps` | 2 processes of 2 releases opening every shape of file of 6 versions twice; 3 resources, 2 workers, 2 syncs, 4 flag sets; all shapes of answers with up to two special keys, one of them nested; 2 readers of a list and of one record; 1 profile, 2 tenants, 2 processes, 3 invocations |
| `learning` | `ExactMeansSame`, `StillFound`, `RefreshHeals`, `PlaybooksKept` | 2 teachers, 2 syncers, 2 resources, 6 queries (one of none) over 4 words, one of which is within another, lookups taught meanwhile, a cap of 1 synced lookup; 2 starting processes of 2 releases, 2 families, 1 amend |

Bounds. Two processes are enough for every race over one set: a third adds
nothing a property compares (checked once with three). Two sets tell "this set"
from "another set"; versions up to 3 allow two upstream changes during a build.
`TTL = 1` lets one cached entry expire while another is fresh; with 0 the age is
only "fresh or not". `Tolerance` is 10 in the code; a smaller number makes the
tolerated failure happen with few sets. In the journal, three entries are the
least that tell a next invocation from a later one; a window of one tick has an
inside, a boundary and an outside; days of one tick make every race with
midnight, days longer than the clock none. Two ids and three step counts are
enough to free an id and reuse it, and to have a longer and a shorter episode
around a middle one. The states of
`candidates_alone` are told apart without notes and history (`VIEW`), on which nothing that
the run checks or that a process does depends. In the ledger one token and two parts make the third request wait
for a refill; a lock that is stale after one tick can be broken by either process.
In the schema, versions 0 to 9 and releases 8 and 9 meet every step of the migration, a
file of a newer release than the opener's among them. A budget of 20 bytes over items of 1
to 30 has pages cut by number, by bytes, down to a preview, and not fitting at all. A cap
of one synced lookup is where two refreshes can pass it.

Fairness. `IconIndex`'s `FairSpec` asks weak fairness of the steps of a running build only:
goroutines are scheduled, and every request and transaction ends, with an error
at its deadline at the latest. Nothing is asked of upstream, the clock or of who
starts builds. `EventuallyCurrent` is conditional on builds that keep ending
without a failed set. `LearnJournal`'s `FairSpec` asks weak fairness of the
clock and of the steps of a process that is past its command; nobody has to
invoke a command again, and `EventuallyConsumed` speaks of behaviours in which
passes keep coming to their end. `RequestSpec` asks weak fairness of the ledger's clock
and of the next step of each process (`Proceed`: system calls and timers), not of
cancellations, failures, deaths or new requests; a process may lose the race for the
lock, but only as often as there are requests. `StoreSpec` asks it of the worker pool as a whole and of
the end of the command. In both, fairness is that of the machine in focus.

## 4. What is proved

`IconIndexProofs` proves, for any processes, prefixes, requests and bounds (from
`IconIndexAssumption` and `TTLAssumption` only):

* `TypeCorrect`;
* `StampedHasRowsCorrect`, `AccountedCorrect`, `OkMeansIndexedCorrect`, all from
  the inductive invariant `BuildInv`: besides the property it says that a trusted
  cached body and a body about to be cached have rows in them (otherwise a fetch
  could deliver nothing), that a matched set is in hand from the plan on (the plan
  skips a set only if its timestamp is not 0, hence it has rows), and that a settled
  build has rows for all but its failed sets. `OkMeansIndexed` then is a matter of
  cardinalities;
* `StampHonestCorrect` and `ImplementsMirror`, under `Uncached` (every request
  bypasses the response cache), from `MirrorInv`: each process fetched its
  timestamps before its rows, neither is newer than upstream, and a set without a
  row in `icon_sets` has no timestamp. Without `Uncached` the first is false
  (`index_stale_stamp`).

`IndexCommandsProofs` proves, for any processes, commands and sets (from those assumptions
and `IndexCommandsAssumption`: the bootstrap sets are not none, a build tolerates less than
all of its sets to fail, and commands build with requests in use):

* `CommandsImplementBuilds`: commands do nothing to the mirror that `IconIndex` does not
  have, so what is proved above of the builds holds beside every command;
* `AnswersLookedCorrect`, from `CommandInv`, which adds to `BuildInv` that `icon_sets` names
  only sets that exist (`KnownLive`), that a build past `/collections` works on exactly what
  it was asked for (`MatchedOf`), and that the build an audit waits for is of all it lacked
  (`AuditBuildOf`). A build that succeeded has left rows in one of its sets (`BuiltSome`),
  which is what set-pick needs, and in all of fewer than `Tolerance` (`BuiltAll`), which is
  what audit needs; that rows never go away keeps both until the answer. From `Tolerance`
  sets on a build may succeed without all of them, and an audit of that many is not in the
  property; swap looks again after its build and needs neither.

`CandidatesProofs` proves, for any processes, signatures and bounds (from
`CandidatesAssumption` only):

* `TypeCorrect`, with or without purges;
* `ConfirmedMaterializedCorrect` and `LifecycleImplemented`, under `~Purging`, for any
  number of processes, from the inductive invariant `Inv`: no two rows share an id
  and a row keeps its id (`IdsUnique`), a payload is about its own signature and a
  playbook is not empty (`OwnPayload`), hence the row a process holds is the row its
  id names when it confirms (`HeldInv`), and a teach that only settles its candidate
  has seen a row of the family, which nothing deletes (`TeachInv`). `ConfirmedMaterialized`
  says that this row holds a playbook unless the candidate is recorded in `lacking`, which
  happens only where a row of notes alone settled it. With purges ids are
  reused, so that a confirm may settle a candidate it did not print (section 5); TLC checks
  the purging program for one process at a time;
* `SettledKeptCorrect`, for any number of processes, with or without purges. `RowMoves`
  says what any step does to a row: it keeps id and payload, or is purged, created with an
  id nobody has, or refreshed while it is open;
* `NeverLongerCorrect` and `PromotionKeepsPlaybookCorrect`, with or without purges, for one
  process at a time (`Process = {P}`; other commands judge, age and derive in between, and
  with two teaches both are false). `AloneInv` is what the process has looked at and still
  is so when it acts (`LookStands`): the row it is about to refresh has the id it read and
  more steps than the episode, and the family it is about to write for has no playbook.

`LearnJournalProofs` proves, for any processes, keys, days, windows and bounds (from
`LearnJournalAssumption` only):

* `JournalTypeOK`, which carries along that a writer's entry is composed before it is
  written (`Composed`);
* `OffsetMarksConsumed` and `SightingsAreCorrections`, from the inductive invariant
  `JournalInv`. It locates everything a pass has in hand on the disk: an offset lies within
  its segment (`Within`), the batch of a pass is what the disk has from its offset on, but
  for late entries (`ScanOK`, `BatchOK`), and a pair still to be recorded is a correction
  (`PairsOK`). What makes it inductive is that appends go only to the end of a segment:
  what a step adds to the disk lies after every offset there is, or is late (`Kept`). So an
  offset that a slow pass stores, forward or back, marks a prefix consumed by somebody;
* `NoCorrectionLost` and `SightingsBounded`, for one process (`Process = {P}`): two
  processes may derive the same batch, and both statements are false then. `AloneInv` adds
  that nothing seen lies after the stored offset (`SeenOK`), that the process writes ahead
  of disk and offset (`AheadOK`), that a pass reads all that lies after the offset while
  nothing moves (`WholeOK`), that a failure's sightings are at most the aborts so far, and
  one more once its batch is consumed (`CountOK`), and that a failure which was given up has
  no correction to come within the window (`GivenUpOK`).

`ClientRequestProofs` proves, for any callers, operations, modes and policies (from
`ClientAssumption` and `TTLAssumption` only), `ClientTypeCorrect`, `NoReplayCorrect`
and `ReadsOwnWritesCorrect`. The inductive invariant `ClientInv` says of each call that the
server executed it at most once per attempt, and that only a harmless one has a second
attempt (`RequestOK`); and as long as nothing `crossed`, that what a caller brings from the
server is not older than any acknowledged change (`CallerOK`), and neither is what a fresh
cache file holds, unless somebody is still writing it (`FileOK`).

It also proves `ResultsHonestCorrect`, with the range of cursors, for any budget, numbers of items and previews,
answers and metadata, and any changes of the list (from `ResultsAssumption` only). The
inductive invariant `ResultsInv` says that what the caller has, followed by what its cursor
still leads to (`Remaining`), is the list, and that nothing is left unless there is a cursor
or the last result gives up and says so (`Collected`). What makes it inductive is
`RenderedHonest`: every result gives up, saying so, or takes a beginning of what remains,
and its cursor is then at the end of what it took (`CursorGoesOn`), or, for a handler without
paging, everything is there or marked as cut. The list is put together by recursive functions
over the pages; that they have values, which are sequences of items (`FollowingUnfolds`,
`FollowingTyped`), is shown from a least or a largest page (`LeastOf`, `LargestOf`). The
assumption says what the
code's constants are: a preview is no longer than the budget, and an envelope with no item in
it fits; and that the API's cursors do not lead back to an
earlier page, though to the page itself: the first then comes twice, and it is that list of
`AllGiven` that the caller has.

`RateLimitProofs` proves, for any limiter, headers and bounds (from
`LimiterAssumption` only), `LimiterTypeCorrect` and `RateWithinLimitsCorrect`. The
inductive invariant `Sound` adds that a refused rate was at least the floor: a ceiling of a
single unit has nine tenths that round to zero, which the code takes for no ceiling, and
this is harmless only because the rate is then the floor itself. That requests are spaced
follows from the rate's maximum, because of two divisors the larger has the smaller quotient
(`LargerDivisor`).

It also proves, for any processes, burst, refill and bounds (from `LedgerAssumption` only:
the counts are natural numbers, a burst and a refill are not zero, and nobody is called
"nobody"), `LedgerTypeCorrect`, `LockExcludes` and `NothingLostCorrect`. While nobody has
died, every lock file belongs to a process inside the file and is young enough to be believed
(`LockedInv`; that live holders are prompt is the guard `HoldersPrompt` of the clock). As
long as no two processes overlapped (`KeptInv`), what one read is still there when it writes.
For the ledger that means that the bucket accounts for the grants (`Accounts`): those from
any moment on and the parts left in it are together no more than a full bucket and the refill
from that moment to `updated`, and a bucket reserved into the future is empty. A reservation
keeps this (`TakeAccounts`), and because it is given out for the moment its bucket is
accounted to, no stretch of time that ends there holds too many (`StaysFair`). Writing the
bucket late, or never, after having taken from it, loses tokens but grants none twice.

`StoreProofs` proves of the machines of the run `store`, each of its machine's own
specification (from the assumptions of the modules only):

* `WatermarkCorrect`, for any resources, workers, answers and flags, whenever a command is
  killed and run again. `SyncInv` says of a resource that no request of a running job is
  older than the rows until its answer is stored, and no later than them from then on
  (`Fits`): so that the watermark, the moment of the request, is not ahead of the answer;
* `SyncGoesForward`, of the same invariant: no step puts rows of an older answer over those
  of a newer one, and a watermark goes back only at a start with `--full` or `--latest-only`
  that is no preview. No run checks it (one command at a time is what makes it true);
* `SyncTypeCorrect`. That no more jobs are under way than there are workers is a matter of
  cardinalities: a job becomes busy only where a worker is free, and one job at a time
  (`OneMore`);
* `LookedUpCorrect`, for any records, scopes and shapes of answers. What is needed of the
  shapes is `ShownAreRows`: an answer that shows its records has all of them taken for rows.
  That it stays true rests on nothing ever being deleted from the store;
* `ServedOwnTenantCorrect` and `AdoptionKeepsCorrect`, for any profiles, tenants,
  credentials and processes, with ordinary commands and migrations side by side (the run has
  either). `ProfilesInv` says that a response is of the tenant its key observed and a
  verified invocation observed the tenant it expects (`Admitted`); that all who use a key use
  the one on disk or one that was withdrawn, and only one process is about to fill or close it
  (`Relies`), for a key is made only where none is, and counted after all that were withdrawn
  (`KeyOK`); that a migration that copies is the owner's, and one that moves the old files has
  settled what becomes of the database (`Migrates`), which, if adopted, is at its place or was
  removed by another (`Relies`);
* `ExitHonestCorrect`, for any answers, flags, limits and bodies, in two parts. About the
  operators: for every shape of answer, one whose only list holds records that can be told
  apart is taken for that page with a row for each record, or is refused (`OnlyListFound`,
  `RowForEach`, `DropsRefused`), and export finds the same list (`CarriedExported`). About
  the machines: `HonestInv` says that a reply that drops records waits to be refused and no
  success dropped one (`JobHonest`), and that a zero exit was earned by the results
  (`ExitEarned`), which nobody changes any more. `SyncAssumption` has at least one resource,
  for with none the exit code is zero without any success; the program's own list is not
  empty (`cli/sync.go:136`). For the export `ExportInv` counts the records in the file.

It also proves of `StoreSchema`, for any processes, releases and versions found (from
`SchemaAssumption` only: versions are numbers, and every release is at least
`ContentRelease`), `SchemaTypeCorrect`, `SchemaMatchesStampCorrect` and
`MigrationKeepsCorrect`. `SchemaMatchesStamp` is not inductive, for a commit publishes what
the transaction did. `SchemaInv` adds that the committed file is `Consistent` with its stamp
also below the two releases that changed its keys, that the work of the lock's holder is
exactly the committed file with the steps so far applied (`Staged`), from a version that was
reread inside the lock and is not newer than the holder's release, and that an open process
has its tables.

`LearningProofs` proves, for any words, queries, resources, teachers and syncers (from
`LearningsAssumption` only: a query has finitely many words, those it marks among them,
a resource has finitely many names, a word contains and begins with itself, only a refresh
inserts synced lookups, and there are finitely many syncers):

* `ExactMeansSameCorrect`. It needs no invariant: recall ranks and filters on every call
  anew, and the theorem is that every path through verdicts, promotions and patterns that
  calls a hit exact has a reason for it, whatever the tables hold: an entity in common,
  one within the other, a common canonical, or an id that holds what the query names or a
  longer word that begins so. It does not say that both are the same entity: containment is
  enough for the code (section 5);
* `LearnTypeCorrect` and `StillFoundCorrect`, from `LearnInv`: a row says what its query was
  taught with, and its query has words (`RowInv`), also while the teach is between its two
  steps (`TeachInv`); every confidence was earned by a teach that has written
  (`ConfidenceInv`). A query that was taught then has the row's own entities and words, so
  that one of its two scores is full; without the upsert's refusal of an empty query it
  would have neither;
* `RefreshHealsCorrect`, from `HealInv`. What a refresh will insert is none of the rows its
  room was counted from, so that both together fill the cap (`Spared`; a scan goes through
  finitely many names, `NamesInv`); from then on what it
  found resolves, or is still to be inserted, or the cap is filled by what is there and what
  it will insert, or somebody else's lookup took the place of one of its own (`Promised`).
  That all refreshes together stay within the cap for each syncer is an inequality about
  the synced rows and a set with one ticket for each row that may still come
  (`Tickets`).

It also proves, for any families, releases and processes (from
`PlaybooksAssumption` only), `PlaybooksTypeCorrect` and `PlaybooksKeptCorrect`. The inductive
invariant `PlaybooksInv` says what a seeder's look at a family is still worth when it writes
(`LookedInv`: where it saw no amend, those from before are excused, and where the look failed every amend
will be; where it saw one, the
notes are amended, taught or its own), that a seeder beside which no other release seeds has
left its release in every family it is done with (`AloneInv`), and that as long as the
recorded release counts as whole only it seeds (`WholeInv`). Numbers of amends never go back
(`NumberGrows`), so that an amend after a look is told from those before it.

Machines that a run puts side by side share no variable. `LearningComposed`,
`RequestsComposed` and `StoreComposed` say that a behaviour of them together is a behaviour
of each: of the ledger and of a sync, of their steps without their fairness (`LedgerSteps`,
`SyncSteps`), for a step of one machine changes nothing of another (`LearningMoves`,
`RequestMoves`, `StoreMoves`). `LearningCorrect`, `RequestsCorrect` and `StoreCorrect` then
collect everything those three runs check of safety, word for word what their
configurations list: `LearningTypeOK`, `RequestsTypeOK` and `StoreTypeOK` are the
conjunctions of the machines' type invariants. Three of these had no theorem of their own:
of a data source (`DataTyped`: what the API says, the cache holds, a reader brings and a
sync is about to store are all versions the API has had), of an export (`ExportsLeft`, beside
`ExportInv`) and of the profiles (`InvocationsLeft`, beside `ProfilesInv`). The initial predicates of
the runs (`StoreInit` and its like) choose among the machines' initial states, by the values
the configurations give; the theorems need of them only that they are such states.

Only model-checked: liveness under fairness, which is out of the prover's reach, with
ENABLED (`EventuallyCurrent`, `EventuallyConsumed`, `EveryWaitEnds`, `SyncEnds`). Every
invariant and every action property that a passing run checks is a theorem, some of them
under the hypotheses named above (`Uncached`, `~Purging`, one process at a time), which are
those of the runs.

## 5. Findings

With a run: `index_stale_stamp`. A plain `index` may record a timestamp newer than the rows
it stored, because both come from the response cache with different ages; the set is then
skipped until upstream changes again. `--force` does not bypass the cache, `--no-cache`
does.

The following were met while modelling. They are behaviour of the code that the properties
are worded around, where the model shows them. Those marked (*) are exceptions that a
property names, because the code does less than it or the comment beside it would say.

Learning:

* Two derivation passes may record one observation twice: nothing keeps two processes from
  the same batch (`OnlyCorrections` says what holds, `ReplayBounded` is checked alone).
* The size cap of the journal deletes whole segments, read or not
  (`learn/journal.go:339`).
* An appender names its segment before it opens it; after midnight its entry may land
  before the stored offset and is never read (`late`).
* With purges a row id may be reused between the row `learnings confirm` prints and the row
  it confirms (`candidates_judged` has no purge).
* Teaching a query again does not refresh the entities of the row (`ExactMeansSame` and
  `StillFound` allow for lookups that came later).
* Two refreshes at once may pass the cap of synced lookups by what each inserts, and a
  lookup that somebody else inserts meanwhile costs a refresh one of its places
  (`RefreshHeals`).
* (*) A playbook candidate may be settled without its playbook: the note of a confirmed
  correction makes a row of notes alone, which the next teach's promotion takes for the
  family's playbook. The comment says that "exactly one artifact remains either way"
  (`cli/learnings_candidates.go:539`); there is none then. Notes that a later teach gives
  also replace the noted corrections (`ConfirmedMaterialized`, through `lacking`).
* (*) `ClassifyEntityMatch` calls two entities an exact match if one contains the other, and
  agents are told to skip discovery on an exact match: "niger" may be answered with what
  was taught for "nigeria". The comment calls it deliberately permissive, "on the resource side"
  (`learn/match.go:120`), the code does it both ways (`learn/match.go:142`), and a test wants
  it (`learn/match_test.go:59`). A pattern that ends in what it substitutes likewise finds an
  id that goes on with a longer word (`learn/patterns/apply.go:257`). `ExactMeansSame` says
  what is left.
* (*) Seeding overwrites amends when its look at the family fails: "notes that `playbook
  amend` wrote at runtime must survive binary upgrades" (`cli/playbook_init.go:223`), but an
  error of the look counts as no amend (`cli/playbook_init.go:235`) (`PlaybooksKept`,
  through `excused`).
* Seeding overwrites a taught playbook, and an amend that lands between its look and its
  write; two releases used in turn seed again at every start, and an older release that dies
  while seeding leaves its content under the newer release's record (`PlaybooksKept`, through
  `excused` and `whole`).
* `forget` cascades over the family that the query has today, not the one it was taught under.

Requests:

* A slow response overwrites a newer cached body, and a GET sent before a mutation may
  fill the cache after it (`ReadsOwnWrites`, through `crossed`; `client/client.go:310`).
* After a death, a lock that several processes judge stale may be broken twice
  (`OverlapOnlyAfterDeath`, `NothingLost`).
* (*) A first page whose next cursor names that page is delivered twice: a repeated cursor is
  recognised by the one the call was made with, and the first is made with none
  (`mcp/bound/bound.go:301`; `ResultsHonest`, through `AllGiven`).
* A page whose envelope leaves no room for a cursor ends the list without saying so
  (`Cramped` in `BoundedResults`).

Store:

* `export` truncates its output file before it asks the API, and a dry run overwrites it
  with the preview (`cli/export.go:72`).
* Sync takes an object with exactly one empty array for an empty page
  (`hasExactlyOneEmptyArray`, `cli/sync.go:1406`), an empty `items` hides another list, and a
  body of JSON `null` is one object. The properties speak of answers whose only list holds
  records (`CarriesRecords`).
* `success: null` counts as a reported failure.
* Records that only the object wrapped in them tells apart share a row if they also share a
  name, for a name of the envelope comes first (`store/store.go:1612`; `Distinguished` leaves
  such lists out). The proof of `ExitHonest` came upon it.
* A profile is saved by reading and rewriting its file: another CLI's stanza written in
  between is lost. Run profiles (`cli/profile.go`) also share a fixed temporary name.
* A process that dies between creating and filling the fingerprint key leaves a short key
  that every later invocation refuses.
* (*) A fingerprint key whose file cannot be closed is removed although it was written and
  others may use it: they and those who make the next key no longer share a cache
  (`platform/profile.go:522`; `ServedOwnTenant`, through `withdrawn`).
* A migration copy that fails removes whatever is at its place, also what another process
  completed there (`AdoptionKeeps`, through `trampled`).
* shadcn's live resolver takes any API error for "icon not present" (`cli/shadcn.go:259`).

## 6. Not modelled

* No caller in this program: `FanoutRun`, `paginatedGet`, `resolvePaginatedRead`,
  `writeMutationResponseToStore`, `LookupPlaybookByFamily`, `patterns.List` and `Forget`,
  `lookups.LookupAll`, the store's rerank.
* Not configured in this release: hydration, discriminators, reconcile rules, temporal
  filters and sort parameters of sync; pagination types of export; playbook JSON; paging of
  a tool's results and platform sources (modelled, see above).
* Text: LIKE wildcards and letter case in a pattern's prefix, values that run into an id's
  tail, a pattern's `noVerify` (no command sets it); normalisation, stopwords, ranking, full-text queries, edit distance, formatting,
  tables, flags, help, paths, configuration parsing.
* Output only: telemetry of learnings, progress events, statistics, doctor, receipts' text,
  usage windows.
* `kit` and `diff`: a loop of reads over a file of the user, and a comparison of two answers.
* Two sync commands at once, which nothing in the code keeps apart: `SyncRun` runs one after
  another, and what is said of watermarks and rows is said of that. No endpoint takes a
  temporal filter, so that a watermark decides nothing in this release.
* Between machines: the recall family of a derived correction (journal and candidates are
  modelled apart), and commands that use several of the machines of `requests` or `store` at
  once; they meet only at the interfaces each machine models as its environment.

## 7. Plan

What is left: the composition of the journal with the candidates, whose proofs stand side
by side here, and syncs at the same time, of which neither `WatermarkNotAhead`
nor `SyncGoesForward` is claimed.
