----------------------------- MODULE DataSource ------------------------------
(***************************************************************************)
(* Where a read command takes its answer from (cli/data_source.go): the    *)
(* API through the response cache, or the local store, which live answers  *)
(* are written through to and which a sync replaces.                       *)
(*                                                                         *)
(* One resource is modelled.  The API's records all change together: what  *)
(* it says of them is its version.  A read asks for a scope, a set of      *)
(* records (one endpoint with its parameters), that has one cached body;   *)
(* half-written bodies are ClientRequest's matter.                         *)
(***************************************************************************)
EXTENDS Integers, FiniteSets, ResponseCache

CONSTANTS
    Record,         \* the records the API has
    Reader,         \* processes that read
    Scope,          \* what the read commands ask for: non-empty sets of records
    Envelope,       \* shapes an answer may come in
    Source,         \* values of --data-source
    ReadsEach,      \* bound: reads per process
    LastVersion     \* bound: changes of the API

\* What a field of an answer may hold.
Value == {"absent", "other", "empty", "objects", "scalars"}
Lists == {"empty", "objects", "scalars"}

\* An object, by the fields that decide what is stored of it; a bare array is
\* stored as the list of a wrapper is.
Envelopes ==
    [id     : BOOLEAN,  \* it has an identifier itself
     wrapper: Value,    \* a key such as "data", "results", "items"
     named  : Value,    \* the key that is the resource's name
     nested : Value,    \* a wrapper key of the object under "data"
     lone   : Value,    \* the only other key that holds a list
     more   : BOOLEAN]  \* keys that are neither lists nor paging metadata

ASSUME DataSourceAssumption ==
    /\ Scope \subseteq SUBSET Record \ {{}}
    /\ Envelope \subseteq Envelopes
    /\ Source \subseteq {"auto", "live", "local"}
    /\ ReadsEach \in Nat /\ LastVersion \in Nat

VARIABLES
    form,           \* per scope: the shape its answers have, which never changes
    version,        \* what the API says now
    body,           \* per scope: its cached body
    stored,         \* per record: what the local store says of it
    sync,           \* the answer a sync is about to store; -1: none
    read            \* per process: the read it performs

dataVars == <<form, version, body, stored, sync, read>>

NotStored == -1
Nothing == -1

NoRead == [step |-> "idle", scope |-> Record, from |-> "auto",
           says |-> [r \in {} |-> 0],
           label |-> "none", left |-> ReadsEach]

DataInit ==
    /\ form \in [Scope -> Envelope]
    /\ version = 0
    /\ body = [s \in Scope |-> Absent(0)]
    /\ stored = [r \in Record |-> NotStored]
    /\ sync = Nothing
    /\ read = [p \in Reader |-> NoRead]

-----------------------------------------------------------------------------
(* What is written through of an answer                                    *)

\* extractWriteThroughListItems: the field whose list holds the rows.
ListField(e) ==
    CASE e.wrapper \in {"objects", "scalars"}                         -> "wrapper"
      [] e.wrapper \notin {"objects", "scalars"} /\ ~e.id
           /\ e.named \in {"empty", "objects"}                        -> "named"
      [] OTHER -> IF e.nested \in Lists THEN "nested"
                  ELSE IF ~e.id /\ ~e.more /\ e.lone = "objects" /\ e.named # "other"
                  THEN "lone" ELSE "none"

\* Broken: an identifier is no reason to keep an object with an empty list.
EmptyPageByList(e) == e.wrapper = "empty"

\* Only paging metadata around an empty list: a page without rows.
EmptyPage(e) ==
    /\ e.wrapper = "empty"
    /\ ~e.id /\ ~e.more /\ e.named = "absent" /\ e.lone = "absent"

\* The rows that UpsertBatch finds an identifier in: those of the list, or the
\* object as one row.
RowsOf(e, records) ==
    CASE ListField(e) # "none" -> IF e[ListField(e)] = "objects" THEN records ELSE {}
      [] OTHER                 -> IF e.id /\ ~EmptyPage(e) THEN records ELSE {}

\* Answers that show their records: as a list, or one as an object.
Shows(shape, records) ==
    \/ Cardinality(records) = 1 /\ shape.id /\ shape.nested \notin Lists
         /\ shape.wrapper \notin {"objects", "scalars"}
    \/ ~shape.id /\ "objects" \in {shape.wrapper, shape.named, shape.lone}
         /\ ListField(shape) # "none" /\ shape[ListField(shape)] = "objects"

-----------------------------------------------------------------------------
(* resolveRead and resolvePaginatedRead                                    *)

InStep(p, step) == read[p].step = step
Deliver(p, label, says) ==
    read' = [read EXCEPT ![p].step = "idle", ![p].label = label, ![p].says = says]
Fail(p) == Deliver(p, "error", [r \in {} |-> 0])

\* resolveLocal: everything stored, or the one record the path names.
Local(s) == LET known == {r \in s : stored[r] # NotStored} IN [r \in known |-> stored[r]]

AnswerLocally(p, s) == IF DOMAIN Local(s) = {} THEN Fail(p) ELSE Deliver(p, "local", Local(s))

ReadLocal(p, s) ==
    /\ InStep(p, "idle") /\ read[p].left > 0 /\ "local" \in Source
    /\ read' = [read EXCEPT ![p] =
         [NoRead EXCEPT !.left = read[p].left - 1, !.scope = s, !.from = "local",
                        !.label = IF DOMAIN Local(s) = {} THEN "error" ELSE "local",
                        !.says = Local(s)]]
    /\ UNCHANGED <<form, version, body, stored, sync>>

\* The client answers from a fresh cached body, or asks the API.
StartRead(p, s, from) ==
    /\ InStep(p, "idle") /\ read[p].left > 0 /\ from \in Source \ {"local"}
    /\ read' = [read EXCEPT ![p] =
         [NoRead EXCEPT !.left = read[p].left - 1, !.scope = s, !.from = from,
                        !.step = IF Fresh(body[s]) THEN "answered" ELSE "asked",
                        !.says = [r \in s |-> body[s].body]]]
    /\ UNCHANGED <<form, version, body, stored, sync>>

Answered(p) ==
    /\ InStep(p, "asked")
    /\ read' = [read EXCEPT ![p].step = "answered",
                            ![p].says = [r \in read[p].scope |-> version]]
    /\ body' = [body EXCEPT ![read[p].scope] = Written(version)]
    /\ UNCHANGED <<form, version, stored, sync>>

\* A status of 400 or more, or a body that is not JSON: no fallback.
RefusedRead(p) ==
    /\ InStep(p, "asked")
    /\ Fail(p)
    /\ UNCHANGED <<form, version, body, stored, sync>>

\* isNetworkError: only "auto" looks into the store instead.
Unreachable(p) ==
    /\ InStep(p, "asked")
    /\ IF read[p].from = "auto" THEN AnswerLocally(p, read[p].scope) ELSE Fail(p)
    /\ UNCHANGED <<form, version, body, stored, sync>>

\* writeThroughCache: one transaction, whose failure nobody hears of.
WriteThrough(p) ==
    /\ InStep(p, "answered") /\ read[p].from = "auto"
    /\ LET rows == RowsOf(form[read[p].scope], read[p].scope)
       IN  stored' = [r \in Record |-> IF r \in rows THEN read[p].says[r] ELSE stored[r]]
    /\ Deliver(p, "live", read[p].says)
    /\ UNCHANGED <<form, version, body, sync>>

WriteThroughFails(p) ==
    /\ InStep(p, "answered") /\ read[p].from = "auto"
    /\ Deliver(p, "unstored", read[p].says)
    /\ UNCHANGED <<form, version, body, stored, sync>>

AnswerLive(p) ==
    /\ InStep(p, "answered") /\ read[p].from = "live"
    /\ Deliver(p, "live", read[p].says)
    /\ UNCHANGED <<form, version, body, stored, sync>>

-----------------------------------------------------------------------------
(* The rest of the world                                                   *)

\* A sync asks the API past the cache ...
SyncAsks ==
    /\ sync = Nothing
    /\ sync' = version
    /\ UNCHANGED <<form, version, body, stored, read>>

\* ... and replaces the rows.
SyncStores ==
    /\ sync # Nothing
    /\ stored' = [r \in Record |-> sync]
    /\ sync' = Nothing
    /\ UNCHANGED <<form, version, body, read>>

ApiChanges ==
    /\ version < LastVersion
    /\ version' = version + 1
    /\ UNCHANGED <<form, body, stored, sync, read>>

CacheAges ==
    /\ \E s \in Scope : Fresh(body[s])
    /\ body' = [s \in Scope |-> Aged(body[s])]
    /\ UNCHANGED <<form, version, stored, sync, read>>

DataNext ==
    \/ \E p \in Reader :
         \/ \E s \in Scope : ReadLocal(p, s) \/ StartRead(p, s, "auto") \/ StartRead(p, s, "live")
         \/ Answered(p) \/ RefusedRead(p) \/ Unreachable(p)
         \/ WriteThrough(p) \/ WriteThroughFails(p) \/ AnswerLive(p)
    \/ SyncAsks \/ SyncStores \/ ApiChanges \/ CacheAges

DataSpec == DataInit /\ [][DataNext]_dataVars

-----------------------------------------------------------------------------

DataTypeOK ==
    /\ version \in 0 .. LastVersion
    /\ body \in [Scope -> Entry(0 .. LastVersion)]
    /\ stored \in [Record -> -1 .. LastVersion]
    /\ \A p \in Reader : read[p].label \in {"none", "live", "unstored", "local", "error"}

(* "FTS search covers everything the user has looked up": a live answer    *)
(* that shows its records leaves them in the store, whatever its shape, so *)
(* that they can be read when the API is unreachable.                      *)
LookedUpIsStored ==
    \A p \in Reader :
        InStep(p, "idle") /\ read[p].label = "live" /\ read[p].from = "auto"
          /\ Shows(form[read[p].scope], read[p].scope)
        => \A r \in read[p].scope : stored[r] # NotStored
=============================================================================
