------------------------------ MODULE SyncRun -------------------------------
(***************************************************************************)
(* The sync command (cli/sync.go): a pool of workers takes one resource    *)
(* each, requests it, stores what came in one transaction, and then writes *)
(* the resource's sync_state row; the command counts the results and       *)
(* chooses its exit code.                                                  *)
(*                                                                         *)
(* The tables of this build make every job a single page.  Only icons is   *)
(* paginated, and it has no cursor parameter, so extractPagination-        *)
(* FromEnvelope never reports a continuation for it; no endpoint takes a   *)
(* temporal filter.  The page loop therefore ends in its first round, and  *)
(* the watermark is the only thing sync_state contributes.                 *)
(***************************************************************************)
EXTENDS Integers, FiniteSets, PageReply

CONSTANTS
    Resource,       \* the resources a command is asked to sync
    Unknown,        \* those among them that have no endpoint
    Flags,          \* set of [full, latest, dry, strict, capped]
    Cursorless,     \* those whose endpoint takes no cursor
    Answer,         \* the 200 answers an endpoint may give
    Workers,        \* --concurrency
    Runs,           \* bound: commands run one after another
    LastInstant     \* bound on the clock

ASSUME SyncAssumption ==
    /\ IsFiniteSet(Resource) /\ Resource # {} /\ {Unknown, Cursorless} \subseteq SUBSET Resource
    /\ Answer \subseteq Answers
    /\ Flags # {}
    /\ Flags \subseteq [full : BOOLEAN, latest : BOOLEAN, dry : BOOLEAN,
                        strict : BOOLEAN, capped : BOOLEAN]
    /\ Workers \in Nat \ {0} /\ Runs \in Nat /\ LastInstant \in Nat \ {0}

\* What an answer is taken for, and of its items: keyed, some carry an identifier;
\* open, a full page that says there is more.  drops is a ghost: its only list
\* holds records, and some of them reach no row of their own.
Replies ==
    [kind : {"none", "error", "failure", "text", "empty", "object", "items"},
     keyed : BOOLEAN, open : BOOLEAN, drops : BOOLEAN]

VARIABLES
    instant,        \* the clock
    state,          \* per resource, what the store holds: watermark, and the ghosts
                    \*   asOf: when the endpoint said what the rows say
    command,        \* the running command: flags, step, exit
    job,            \* its jobs, one per resource
    runsLeft

syncVars == <<instant, state, command, job, runsLeft>>

Never == 0
NoReply == [kind |-> "none", keyed |-> FALSE, open |-> FALSE, drops |-> FALSE]
NewJob == [step |-> "queued", at |-> Never, answered |-> Never, reply |-> NoReply,
           dropped |-> FALSE]

\* How a finished job is counted.  None is counted as a warning in this build:
\* isSyncAccessWarning recognises nothing and no path has placeholders.
Results == {"success", "errored", "critical"}

SyncInit ==
    /\ instant = 1
    /\ state = [r \in Resource |-> [watermark |-> Never, asOf |-> Never]]
    /\ command = [flags |-> CHOOSE f \in Flags : TRUE, step |-> "none", exit |-> "none"]
    /\ job = [r \in Resource |-> NewJob]
    /\ runsLeft = Runs

-----------------------------------------------------------------------------

\* --full and --latest-only zero the watermark of every resource first, but a
\* preview changes nothing.
Cleared(f) == (f.full \/ f.latest) /\ ~f.dry

StartSync(f) ==
    /\ command.step \in {"none", "ended"} /\ runsLeft > 0
    /\ runsLeft' = runsLeft - 1
    /\ command' = [flags |-> f, step |-> "pool", exit |-> "none"]
    /\ job' = [r \in Resource |-> NewJob]
    /\ state' = IF Cleared(f)
                THEN [r \in Resource |-> [state[r] EXCEPT !.watermark = Never]]
                ELSE state
    /\ UNCHANGED instant

Finish(r, result) ==
    /\ job' = [job EXCEPT ![r] = [NewJob EXCEPT !.step = result,
                                                 !.dropped = job[r].reply.drops]]
    /\ UNCHANGED <<instant, command, runsLeft>>

Busies == {"requested", "answered", "stored", "unstored"}
Busy == {r \in Resource : job[r].step \in Busies}

\* Broken: a resource nobody knows is passed over.
TakeKnownJob(r) ==
    /\ command.step = "pool" /\ job[r].step = "queued"
    /\ r \notin Unknown /\ Cardinality(Busy) < Workers
    /\ job' = [job EXCEPT ![r] = [NewJob EXCEPT !.step = "requested", !.at = instant]]
    /\ UNCHANGED <<instant, state, command, runsLeft>>

\* A worker takes the resource; syncResourcePath knows it or the job has failed.
TakeJob(r) ==
    /\ command.step = "pool" /\ job[r].step = "queued"
    /\ Cardinality(Busy) < Workers
    /\ job' = [job EXCEPT ![r] = IF r \in Unknown THEN [NewJob EXCEPT !.step = "errored"]
                                ELSE [NewJob EXCEPT !.step = "requested", !.at = instant]]
    /\ UNCHANGED <<instant, state, command, runsLeft>>

\* syncResource's order: failure, no items and not JSON, an empty page, one object.
ReplyTo(answer, cursorParam) ==
    [kind |-> KindOf(answer),
     keyed |-> extractPageItems(answer) = "objects" /\ RowsStored(answer.items) # {},
     open |-> answer.full /\ KindOf(answer) = "items" /\ HasMore(answer, cursorParam),
     drops |-> CarriesRecords(answer) /\
               (KindOf(answer) = "items"
                  => Cardinality(RowsStored(answer.items)) < Len(answer.items))]

CursorReplies == {ReplyTo(answer, TRUE) : answer \in Answer}
CursorlessReplies == {ReplyTo(answer, FALSE) : answer \in Answer}

TakeReply(r) ==
    /\ job[r].step = "requested" /\ ~command.flags.dry
    /\ \E reply \in (IF r \in Cursorless THEN CursorlessReplies ELSE CursorReplies)
                     \cup {[NoReply EXCEPT !.kind = "error"]} :
         job' = [job EXCEPT ![r].step = "answered", ![r].answered = instant,
                            ![r].reply = reply]
    /\ UNCHANGED <<instant, state, command, runsLeft>>

\* The dry-run client answers with a sentinel.
Previewed(r) ==
    /\ job[r].step = "requested" /\ command.flags.dry
    /\ Finish(r, "success") /\ UNCHANGED state

Refusal(reply) ==
    CASE reply.kind = "error"   -> "errored"
      [] reply.kind = "failure" -> "critical"
      [] reply.kind = "items" /\ ~reply.keyed -> "critical"
      [] OTHER -> "none"

RefuseReply(r) ==
    /\ job[r].step = "answered"
    /\ Refusal(job[r].reply) # "none"
    /\ Finish(r, Refusal(job[r].reply)) /\ UNCHANGED state

\* UpsertBatchDetailed or upsertSingleObject, one transaction: items without an
\* identifier are skipped; a row that cannot be written undoes the batch.
Stored(r, reply, at) ==
    [state EXCEPT ![r].asOf = at]

StoreRows(r) ==
    /\ job[r].step = "answered" /\ Refusal(job[r].reply) = "none"
    /\ job[r].reply.kind # "text"
    /\ \/ /\ state' = Stored(r, job[r].reply, job[r].answered)
          /\ job' = [job EXCEPT ![r].step = "stored"]
          /\ UNCHANGED <<instant, command, runsLeft>>
       \/ /\ job[r].reply.kind # "empty"
          /\ Finish(r, "errored") /\ UNCHANGED state

\* A 200 that is not JSON ends the page loop; the job goes on to its state row.
SkipText(r) ==
    /\ job[r].step = "answered" /\ job[r].reply.kind = "text"
    /\ job' = [job EXCEPT ![r].step = "unstored"]
    /\ UNCHANGED <<instant, state, command, runsLeft>>

\* outcome.complete: the endpoint has no more pages.  Without --max-pages a
\* resource that declares no pagination is complete after one page, full or not.
Complete(r) ==
    LET reply == job[r].reply
    IN  /\ job[r].step = "stored"
        /\ command.flags.capped \/ command.flags.latest => ~reply.open

\* Broken: the time at which the rows were stored.
WatermarkNow(r) == instant

\* SaveSyncStateAt with the time the job began, or SaveSyncProgress, which
\* leaves the watermark alone.
Watermark(r) == job[r].at

SaveState(r) ==
    /\ job[r].step \in {"stored", "unstored"}
    /\ \/ /\ state' = IF Complete(r) THEN [state EXCEPT ![r].watermark = Watermark(r)] ELSE state
          /\ Finish(r, "success")
       \/ Finish(r, "critical") /\ UNCHANGED state

Count(result) == Cardinality({r \in Resource : job[r].step = result})

ExitPolicy ==
    CASE command.flags.strict /\ Count("errored") + Count("critical") > 0 -> "failed"
      [] Count("critical") > 0 -> "failed"
      [] Count("success") = 0 /\ Count("errored") > 0 -> "failed"
      [] OTHER -> "ok"

\* The results channel closes after the last worker.
EndSync ==
    /\ command.step = "pool" /\ \A r \in Resource : job[r].step \in Results
    /\ command' = [command EXCEPT !.step = "ended", !.exit = ExitPolicy]
    /\ UNCHANGED <<instant, state, job, runsLeft>>

\* The process is killed: what is committed stays.
KillSync ==
    /\ command.step = "pool"
    /\ command' = [command EXCEPT !.step = "ended", !.exit = "killed"]
    /\ job' = [r \in Resource |-> NewJob]
    /\ UNCHANGED <<instant, state, runsLeft>>

PassTime ==
    /\ instant < LastInstant
    /\ instant' = instant + 1
    /\ UNCHANGED <<state, command, job, runsLeft>>

Work(r) == TakeJob(r) \/ TakeReply(r) \/ Previewed(r) \/ RefuseReply(r) \/ StoreRows(r)
           \/ SkipText(r) \/ SaveState(r)

SyncNext ==
    \/ \E f \in Flags : StartSync(f)
    \/ \E r \in Resource : Work(r)
    \/ EndSync \/ KillSync \/ PassTime

\* A worker is always given time, and the HTTP client ends every request.
SyncSpec == SyncInit /\ [][SyncNext]_syncVars /\ WF_syncVars(\E r \in Resource : Work(r))
            /\ WF_syncVars(EndSync)

-----------------------------------------------------------------------------

SyncTypeOK ==
    /\ instant \in 1..LastInstant /\ runsLeft \in 0..Runs
    /\ state \in [Resource -> [watermark : 0..LastInstant, asOf : 0..LastInstant]]
    /\ command \in [flags : Flags, step : {"none", "pool", "ended"},
                    exit : {"none", "ok", "failed", "killed"}]
    /\ Cardinality(Busy) <= Workers
    /\ \A r \in Resource :
         /\ job[r].step \in {"queued"} \cup Busies \cup Results
         /\ {job[r].at, job[r].answered} \subseteq 0..LastInstant
         /\ job[r].reply \in Replies

\* The watermark of a resource is never later than the answer its rows come
\* from: a record changed after that answer is still ahead of the watermark,
\* however long the batch took, and after failures and kills.
WatermarkNotAhead == \A r \in Resource : state[r].watermark <= state[r].asOf

\* A zero exit means what its comment promises: no job lost data it had been
\* given, unless --strict was passed at least one job succeeded, and where an
\* answer's one list holds records that can be told apart, it was not passed over
\* for an empty page or an object, and each record has a row.
SyncHonest ==
    command.exit = "ok" =>
        /\ Count("critical") = 0 /\ Count("success") > 0
        /\ command.flags.strict => Count("errored") = 0
        /\ \A r \in Resource : job[r].step = "success" => ~job[r].dropped

\* A command that has started ends, however its jobs go.
SyncEnds == command.step = "pool" ~> command.step = "ended"
=============================================================================
