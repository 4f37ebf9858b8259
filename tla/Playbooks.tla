------------------------------ MODULE Playbooks ------------------------------
(***************************************************************************)
(* The playbooks of query families (store/playbooks.go), the commands that *)
(* teach and amend them (cli/teach_playbook.go, cli/teach.go), the seeding *)
(* of those a release brings along (cli/playbook_init.go) and what recall  *)
(* shows of them (learn/recall.go).                                        *)
(*                                                                         *)
(* A playbook is a choreography and notes.  Its notes are a text, of a     *)
(* release or taught, and the amends appended to it, each with a marker.   *)
(* Every start of the program seeds when the release recorded in the store *)
(* is not its own: family by family, each looked at and written in two     *)
(* transactions, and the record last.  Commands write in one.              *)
(***************************************************************************)
EXTENDS Integers, FiniteSets, FiniteSetsExt

CONSTANTS
    Family,         \* query families, in the order they are seeded: numbers
    Release,        \* seed versions
    Embedded,       \* what each release brings for a family: "nothing", "json"
                    \* or "json and notes"
    Starter,        \* processes that start
    Amends          \* bound: amends of the store's life

ASSUME PlaybooksAssumption ==
    /\ Family \subseteq Nat /\ IsFiniteSet(Family)
    /\ {"nothing", "taught"} \cap Release = {}
    /\ Embedded \in [Release -> [Family -> {"nothing", "json", "json and notes"}]]
    /\ Amends \in Nat

Nothing == "nothing"
ByUser == "taught"

VARIABLES
    playbook,       \* learning_playbooks: choreography, notes, amends
    sentinel,       \* the seed version recorded in the store
    seeder,         \* each process that starts: its release, families to do, ...
    amended,        \* history: per family, the amends that were acknowledged
    excused,        \* history: those a teach replaced, or a seeder that did not see them
    whole           \* history: no other release seeded along with the last to end

playbookVars == <<playbook, sentinel, seeder, amended, excused, whole>>

Row(c, n, a) == [choreography |-> c, notes |-> n, amends |-> a]
NoRow == Row(Nothing, Nothing, {})
NoSeed == [step |-> "idle", release |-> Nothing, todo |-> {}, preserve |-> FALSE, since |-> 0,
         failed |-> FALSE, alone |-> TRUE]

PlaybooksInit ==
    /\ playbook = [f \in Family |-> NoRow]
    /\ sentinel = Nothing
    /\ seeder = [p \in Starter |-> NoSeed]
    /\ amended = [f \in Family |-> {}] /\ excused = [f \in Family |-> {}]
    /\ whole = TRUE

-----------------------------------------------------------------------------
(* Rows                                                                    *)

HasNotes(row) == row.notes # Nothing \/ row.amends # {}

\* upsertPlaybookTx: what is not given stays; given notes replace the old ones
\* with their amends, unless those are to be preserved.
UpsertedPlaybook(row, choreography, notes, preserve) ==
    LET keep == notes = Nothing \/ (preserve /\ HasNotes(row)) IN
    Row(IF choreography = Nothing THEN row.choreography ELSE choreography,
        IF keep THEN row.notes ELSE notes,
        IF keep THEN row.amends ELSE {})

\* appendPlaybookNotesTx
Appended(row, amend) == [row EXCEPT !.amends = @ \cup {amend}]

\* Every amend of the store's life has a number of its own.
NextAmend == Cardinality(UNION {amended[f] : f \in Family}) + 1

\* What recall attaches to an answer: nothing to an empty row.
Attached(f) == {row \in {playbook[f]} : HasNotes(row) \/ row.choreography # Nothing}

-----------------------------------------------------------------------------
(* Commands                                                                *)

\* teach-playbook, and teach with a playbook: at least one of the two.
TeachPlaybook(f, choreography, notes) ==
    /\ choreography # Nothing \/ notes # Nothing
    /\ playbook' = [playbook EXCEPT ![f] = UpsertedPlaybook(@, choreography, notes, FALSE)]
    /\ excused' = [excused EXCEPT ![f] = IF notes = Nothing THEN @ ELSE @ \cup amended[f]]
    /\ UNCHANGED <<sentinel, seeder, amended, whole>>

\* playbook amend: a family without a row gets one with the amend alone.
Amend(f) ==
    /\ NextAmend <= Amends
    /\ playbook' = [playbook EXCEPT ![f] = Appended(@, NextAmend)]
    /\ amended' = [amended EXCEPT ![f] = @ \cup {NextAmend}]
    /\ UNCHANGED <<sentinel, seeder, excused, whole>>

-----------------------------------------------------------------------------
(* Seeding                                                                 *)

Seeding(p, step) == seeder[p].step = step
Strangers(p, r) == {q \in Starter \ {p} : ~Seeding(q, "idle") /\ seeder[q].release # r}

Bundled(r) == {f \in Family : Embedded[r][f] # Nothing}

\* A start of a release that the store does not record.
BeginSeed(p, r) ==
    /\ Seeding(p, "idle") /\ sentinel # r
    /\ seeder' = [q \in Starter |->
         IF q = p THEN [NoSeed EXCEPT !.step = "look", !.release = r, !.todo = Bundled(r),
                                      !.alone = Strangers(p, r) = {}]
         ELSE IF q \in Strangers(p, r) THEN [seeder[q] EXCEPT !.alone = FALSE]
         ELSE seeder[q]]
    /\ whole' = FALSE
    /\ UNCHANGED <<playbook, sentinel, amended, excused>>

Current(p) == Min(seeder[p].todo)

\* Broken: the marker is looked for after a line break, where the first amend
\* of a family without a row does not have it.
MarkedAfterNewline(row) == row.amends # {} /\ row.notes # Nothing

\* amendMarkerRe
Marked(row) == row.amends # {}

LookForAmends(p) ==
    /\ Seeding(p, "look") /\ seeder[p].todo # {}
    /\ seeder' = [seeder EXCEPT ![p].step = "upsert",
                                ![p].preserve = Marked(playbook[Current(p)]),
                                ![p].since = NextAmend]
    /\ UNCHANGED <<playbook, sentinel, amended, excused, whole>>

\* A look that fails counts as one at a family without amends.
LookFails(p) ==
    /\ Seeding(p, "look") /\ seeder[p].todo # {}
    /\ seeder' = [seeder EXCEPT ![p].step = "upsert", ![p].preserve = FALSE, ![p].since = 0]
    /\ UNCHANGED <<playbook, sentinel, amended, excused, whole>>

SeedNotes(p) ==
    IF Embedded[seeder[p].release][Current(p)] = "json and notes" THEN seeder[p].release ELSE Nothing

Done(p, failed) == [seeder EXCEPT ![p].step = "look", ![p].todo = @ \ {Current(p)},
                                  ![p].failed = @ \/ failed]

SeedFamily(p) ==
    /\ Seeding(p, "upsert")
    /\ playbook' = [playbook EXCEPT ![Current(p)] =
         UpsertedPlaybook(@, seeder[p].release, SeedNotes(p), seeder[p].preserve)]
    /\ excused' = [excused EXCEPT ![Current(p)] = @ \cup
         {a \in amended[Current(p)] \ playbook'[Current(p)].amends : a >= seeder[p].since}]
    /\ seeder' = Done(p, FALSE)
    /\ UNCHANGED <<sentinel, amended, whole>>

\* A file that cannot be read or parsed, or a failed transaction: on to the next.
SeedFamilyFails(p) ==
    /\ Seeding(p, "upsert")
    /\ seeder' = Done(p, TRUE)
    /\ UNCHANGED <<playbook, sentinel, amended, excused, whole>>

\* The record is only written when every family was.
EndSeed(p) ==
    /\ Seeding(p, "look") /\ seeder[p].todo = {}
    /\ sentinel' = IF seeder[p].failed THEN sentinel ELSE seeder[p].release
    /\ whole' = IF seeder[p].failed THEN whole ELSE seeder[p].alone
    /\ seeder' = [seeder EXCEPT ![p] = NoSeed]
    /\ UNCHANGED <<playbook, amended, excused>>

\* A cancelled context, or a failed write of the record, ends it the same way.
SeederDies(p) ==
    /\ ~Seeding(p, "idle")
    /\ seeder' = [seeder EXCEPT ![p] = NoSeed]
    /\ UNCHANGED <<playbook, sentinel, amended, excused, whole>>

CommandNext ==
    \E f \in Family :
        \/ \E c, n \in {Nothing, ByUser} : TeachPlaybook(f, c, n)
        \/ Amend(f)

SeedNext ==
    \E p \in Starter :
        \/ \E r \in Release : BeginSeed(p, r)
        \/ LookForAmends(p) \/ LookFails(p) \/ SeedFamily(p) \/ SeedFamilyFails(p)
        \/ EndSeed(p) \/ SeederDies(p)

PlaybooksNext == CommandNext \/ SeedNext

PlaybooksSpec == PlaybooksInit /\ [][PlaybooksNext]_playbookVars

-----------------------------------------------------------------------------

PlaybookRow ==
    [choreography : {Nothing, ByUser} \cup Release, notes : {Nothing, ByUser} \cup Release,
     amends : SUBSET (1 .. Amends)]

SeederState ==
    [step : {"idle", "look", "upsert"}, release : {Nothing} \cup Release,
     todo : SUBSET Family, preserve : BOOLEAN, since : 0 .. Amends + 1,
     failed : BOOLEAN, alone : BOOLEAN]

PlaybooksTypeOK ==
    /\ playbook \in [Family -> PlaybookRow]
    /\ sentinel \in {Nothing} \cup Release
    /\ seeder \in [Starter -> SeederState]
    /\ amended \in [Family -> SUBSET (1 .. Amends)]
    /\ excused \in [Family -> SUBSET (1 .. Amends)]
    /\ whole \in BOOLEAN

AmendsKept ==
    \A f \in Family : amended[f] \subseteq playbook[f].amends \cup excused[f]

\* What recall shows of a family that the recorded release brings along.
SeedComplete ==
    sentinel # Nothing /\ whole =>
        \A f \in Bundled(sentinel) : \E row \in Attached(f) :
            /\ row.choreography \in {sentinel, ByUser}
            /\ Embedded[sentinel][f] = "json and notes" =>
                 row.notes \in {sentinel, ByUser} \/ row.amends # {}

\* An amend stays in the notes through every release that is installed later,
\* by any number of processes that start, fail and die, unless notes are taught
\* in its place, or a seeder writes its own without having seen it: because its
\* look at the family failed, or the amend came between its look and its write.
\* And once a release is recorded as installed, recall shows what it brings along
\* for every family, or what was taught since, as long as no other release has
\* begun to seed besides or after it.
PlaybooksKept == AmendsKept /\ SeedComplete
=============================================================================
