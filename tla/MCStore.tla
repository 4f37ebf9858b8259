------------------------------- MODULE MCStore -------------------------------
(***************************************************************************)
(* One run for the machines around the local store: opening it, filling it *)
(* with a sync, exporting, reading from it, the tenant gate in front of it *)
(* and the migration to a profile's own.  They share no variable here:     *)
(* each keeps of the store what its own properties speak of.  A behaviour  *)
(* of this module is one of the machine in focus, the others at rest.      *)
(***************************************************************************)
EXTENDS StoreSchema, SyncRun, Export, DataSource, ClientProfiles

VARIABLE focus

storeVars == <<focus, schemaVars, syncVars, exportVars, dataVars, profilesVars>>

\* answers: what is not an object, and objects of some keys, one perhaps nested
NoObject(kind, items) ==
  [form |-> kind, top |-> Bare, inner |-> Bare, items |-> items, full |-> FALSE]

Object(top, inner, items, full) ==
  [form |-> "object", top |-> top, inner |-> inner, items |-> items, full |-> full]

Known(id, own, name, wrapped) == [id |-> id, own |-> own, name |-> name, wrapped |-> wrapped]
Nameless == Known("absent", "absent", "absent", "absent")

\* records: told apart by one field or another, perhaps of one name; or not at all
Lists2 == {
  <<Known("a", "absent", "b", "absent"), Known("b", "absent", "b", "absent")>>,
  <<Known("blank", "a", "b", "absent"), Known("absent", "b", "b", "absent")>>,
  <<Known("absent", "tree", "a", "absent"), Nameless>>,
  <<Known("absent", "absent", "absent", "a"), Known("absent", "absent", "absent", "b")>>,
  <<Known("absent", "absent", "a", "a"), Known("absent", "absent", "a", "b")>>,
  <<Nameless>>}

Two == CHOOSE items \in Lists2 : TellsApart(items, "own")

TwoKeys(a, x, b, y) == [Bare EXCEPT ![a] = x, ![b] = y]

ListKeys == {"data", "results", "items", "other"}

Objects ==
  {Object(TwoKeys(k, x, j, y), Bare, items, y # "empty") :
     k \in ListKeys, x \in {"null", "empty", "objects", "scalars"}, items \in {Two, <<Nameless>>},
     j \in {"errors", "another", "total", "success", "status", "has_more", "next", "links", "meta"},
     y \in {"empty", "objects", "null", "zero", "error", "true", "false", "token", "url"}}

Nested ==
  {Object(TwoKeys(k, "object", j, y), TwoKeys("items", x, "other", z), Two, TRUE) :
     k \in {"data", "result", "_embedded", "another"}, j \in {"errors", "next", "total"},
     x, z \in {"absent", "empty", "objects"}, y \in {"absent", "objects", "url", "zero"}}

SomeAnswers ==
  {NoObject(kind, <<>>) : kind \in {"text", "null", "scalar", "empty"}}
    \cup {NoObject("scalars", <<Nameless>>)} \cup {NoObject("objects", items) : items \in Lists2}
    \cup Objects \cup Nested

Flag(on) == [full |-> "full" \in on, latest |-> "latest" \in on, dry |-> "dry" \in on,
             strict |-> "strict" \in on, capped |-> "capped" \in on]

SomeFlags == {Flag({}), Flag({"full", "dry"}), Flag({"latest", "strict"}), Flag({"full", "capped"})}

Shape(id, wrapper, named, nested, more) ==
  [id |-> id, wrapper |-> wrapper, named |-> named, nested |-> nested, lone |-> "absent",
   more |-> more]

\* lists: bare or in a wrapper, and inside a JSend answer
ListShapes == {Shape(FALSE, "objects", "absent", "absent", FALSE),
               Shape(FALSE, "other", "absent", "objects", FALSE)}

\* details: one with an empty list under a wrapper's name
DetailShapes == {Shape(TRUE, "empty", "absent", "absent", TRUE)}

SomeShapes == ListShapes \cup DetailShapes

One == {CHOOSE r \in Record : TRUE}
ListAndOne == {Record, One}

StoreInit ==
  /\ focus \in {"schema", "sync", "export", "data", "gate", "migrate"}
  /\ SchemaInit /\ SyncInit /\ ExportInit /\ DataInit /\ ProfilesInit
  /\ form[One] \in DetailShapes /\ form[Record] \in ListShapes
  /\ focus # "data" => form[Record].wrapper = "objects"
  /\ focus # "schema" =>
       /\ file.version = 0 /\ file.key = "absent"
       /\ \A p, q \in Opener : opener[p].release <= opener[q].release
  /\ focus # "gate" => profile = [n \in Profile |-> NoStanza] /\ hashKey = 1
  /\ invocationsLeft = CASE focus = "gate" -> Invocations
                       [] focus = "migrate" -> 2 [] OTHER -> 0
  /\ focus # "migrate" => owner = Nobody /\ target = [n \in Profile |-> Gone]

Opening(A) == focus = "schema" /\ A /\ UNCHANGED <<focus, syncVars, exportVars, dataVars, profilesVars>>
Syncing(A) == focus = "sync" /\ A /\ UNCHANGED <<focus, schemaVars, exportVars, dataVars, profilesVars>>
Exporting(A) ==
  focus = "export" /\ A /\ UNCHANGED <<focus, schemaVars, syncVars, dataVars, profilesVars>>
Reading(A) ==
  focus = "data" /\ A /\ UNCHANGED <<focus, schemaVars, syncVars, exportVars, profilesVars>>

Gated(A) == A /\ UNCHANGED <<focus, schemaVars, syncVars, exportVars, dataVars>>

StoreNext ==
  \/ Opening(SchemaNext) \/ Syncing(SyncNext) \/ Exporting(ExportNext)
  \/ Reading(DataNext)
  \/ focus = "gate" /\ Gated(GateNext)
  \/ focus = "migrate" /\ Gated(MigrateNext)

StoreSpec ==
  /\ StoreInit /\ [][StoreNext]_storeVars
  /\ WF_storeVars(Syncing(\E r \in Resource : Work(r)))
  /\ WF_storeVars(Syncing(EndSync))

\* Each credential opens the tenant of its name.
SameTenant == [c \in Credential |-> c]

\* Every machine keeps to its ranges.
StoreTypeOK == SchemaTypeOK /\ SyncTypeOK /\ ExportTypeOK /\ DataTypeOK /\ ProfilesTypeOK

\* What a zero exit promises, of a sync and of an export.
ExitHonest == SyncHonest /\ ExportHonest
=============================================================================
