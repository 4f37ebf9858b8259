------------------------------ MODULE Candidates ------------------------------
(***************************************************************************)
(* Improvement candidates (internal/store/candidates.go), the commands     *)
(* that judge them (internal/cli/learnings_candidates.go) and the teach    *)
(* flow that promotes and synthesizes them (internal/cli/teach.go,         *)
(* internal/learn/synthesize.go), run by several processes over one        *)
(* database.                                                               *)
(*                                                                         *)
(* A flag_alias candidate is known by its derivation signature, a          *)
(* playbook_candidate by the query family its signature is made of.  The   *)
(* table holds at most one row per signature (UNIQUE), so it is a function *)
(* of signatures.  A payload is what it is about and, for a playbook, its  *)
(* number of steps, which is all the supersede rule looks at.  Sighting    *)
(* counts, which only order listings, are left out.                        *)
(*                                                                         *)
(* A statement or a transaction is one step; a failed one changes nothing. *)
(***************************************************************************)
EXTENDS Integers

CONSTANTS
  Process,     \* processes running a command
  FlagAlias,   \* signatures of flag corrections
  Family,      \* query families
  Purging,     \* whether "learnings purge" is run
  MaxSteps,    \* bound: steps of a synthesized playbook
  MaxId        \* bound: row ids

ASSUME CandidatesAssumption ==
  /\ FlagAlias \intersect Family = {}
  /\ Family # {}
  /\ Purging \in BOOLEAN
  /\ MaxSteps \in Nat \ {0}
  /\ MaxId \in Nat

VARIABLES
  rows,      \* learn_candidates
  playbook,  \* learning_playbooks: steps of a family's playbook
  notes,     \* notes_text of the family: the corrections noted in it
  lacking,   \* history: families whose candidate was settled on a row of notes
             \* alone, corrections whose note later notes replaced
  pc,        \* where the process is
  held,      \* the row it has read
  family,    \* the family its teach is about
  fresh      \* steps of the episode its teach synthesizes

playbookVars == <<playbook, notes, lacking>>
tableVars == <<rows, playbookVars>>
vars == <<tableVars, pc, held, family, fresh>>

Signature == FlagAlias \union Family
Status == {"none", "open", "confirmed", "rejected", "expired"}

\* of, steps: the payload; stale: unseen for longer than the TTL
Row == [id : 0 .. MaxId, status : Status, of : Signature, steps : 0 .. MaxSteps,
        stale : BOOLEAN]
NoRow(s) == [id |-> 0, status |-> "none", of |-> s, steps |-> 0, stale |-> FALSE]

\* A playbook an agent wrote itself; a row that has notes and no choreography
Taught == -1
NotesOnly == -2
NoPlaybook == 0

TypeOK ==
  /\ rows \in [Signature -> Row]
  /\ playbook \in [Family -> {Taught, NotesOnly} \union 0 .. MaxSteps]
  /\ notes \in [Family -> SUBSET FlagAlias]
  /\ lacking \subseteq Signature
  /\ pc \in [Process -> {"idle", "confirm", "purge", "teach", "promote", "covered",
                         "settle", "materialize", "synthesize", "derive", "read",
                         "refresh"}]
  /\ held \in [Process -> [sig : Signature, row : Row]]
  /\ family \in [Process -> Family]
  /\ fresh \in [Process -> 0 .. MaxSteps]

NoneHeld == [sig |-> CHOOSE s \in Signature : TRUE,
             row |-> NoRow(CHOOSE s \in Signature : TRUE)]

Init ==
  /\ rows = [s \in Signature |-> NoRow(s)]
  /\ playbook = [f \in Family |-> NoPlaybook]
  /\ notes = [f \in Family |-> {}]
  /\ lacking = {}
  /\ pc = [p \in Process |-> "idle"]
  /\ held = [p \in Process |-> NoneHeld]
  /\ family = [p \in Process |-> CHOOSE f \in Family : TRUE]
  /\ fresh = [p \in Process |-> 0]

Goto(p, place) == pc' = [pc EXCEPT ![p] = place]

\* The command ends
Leave(p) ==
  /\ Goto(p, "idle")
  /\ held' = [held EXCEPT ![p] = NoneHeld]
  /\ family' = [family EXCEPT ![p] = CHOOSE f \in Family : TRUE]
  /\ fresh' = [fresh EXCEPT ![p] = 0]

-----------------------------------------------------------------------------
(* The statements of the store *)

\* id INTEGER PRIMARY KEY without AUTOINCREMENT: one more than the largest in use
IsNewId(i) ==
  /\ \A s \in Signature : rows[s].id < i
  /\ i = 1 \/ \E s \in Signature : rows[s].id = i - 1

\* Broken: a sighting reopens whatever was settled.
SightedReopening(row) == [row EXCEPT !.status = "open", !.stale = FALSE]

\* ON CONFLICT: the payload stays, an expired row reopens, a tombstone is left alone
Sighted(row) ==
  IF row.status = "rejected" THEN row
  ELSE [row EXCEPT !.status = IF @ = "expired" THEN "open" ELSE @, !.stale = FALSE]

\* One upsert on the signature
DeriveCandidate(s, steps) ==
  IF rows[s].status = "none"
    THEN \E i \in 1 .. MaxId :
           /\ IsNewId(i)
           /\ rows' = [rows EXCEPT ![s] = [id |-> i, status |-> "open", of |-> s,
                                           steps |-> steps, stale |-> FALSE]]
    ELSE rows' = [rows EXCEPT ![s] = Sighted(@)]

\* A row id names the row that has it now
OpenRow(id, s) == rows[s].id = id /\ rows[s].status = "open"

MarkConfirmed(s) == rows' = [rows EXCEPT ![s].status = "confirmed"]

\* A row of notes alone where there was none; a choreography stays
Noted(f) == IF playbook[f] = NoPlaybook THEN NotesOnly ELSE playbook[f]

\* Notes given replace the notes of the row
ReplaceNotes(f) ==
  /\ notes' = [notes EXCEPT ![f] = {}]
  /\ lacking' = lacking \union notes[f]

\* A column given empty is left alone: notes given or not, but one of the two
UpsertPlaybook(f, steps) ==
  /\ playbook' = [playbook EXCEPT ![f] = steps]
  /\ ReplaceNotes(f) \/ UNCHANGED <<notes, lacking>>

AppendPlaybookNotes(f, alias) ==
  /\ playbook' = [playbook EXCEPT ![f] = Noted(f)]
  /\ notes' = [notes EXCEPT ![f] = @ \union {alias}]
  /\ UNCHANGED lacking

\* The transaction of ConfirmCandidateWithPlaybook and ...WithPlaybookNote: it
\* writes the payload the caller holds and marks the row that has the id,
\* which must be open and of the same class.  A correction goes to the family it
\* was derived under, else to the one this session recalled last.
ConfirmAndMaterialize(h) ==
  \E s \in Signature :
    /\ OpenRow(h.row.id, s)
    /\ s \in FlagAlias <=> h.sig \in FlagAlias
    /\ MarkConfirmed(s)
    /\ IF h.sig \in Family
         THEN UpsertPlaybook(h.sig, h.row.steps)
         ELSE \E f \in Family : AppendPlaybookNotes(f, h.sig)

-----------------------------------------------------------------------------
(* learnings confirm, reject, purge; the derivation pass; time *)

\* confirm reads the row and prints it
Show(p, s) ==
  /\ pc[p] = "idle"
  /\ rows[s].status = "open"
  /\ held' = [held EXCEPT ![p] = [sig |-> s, row |-> rows[s]]]
  /\ Goto(p, "confirm")
  /\ UNCHANGED <<tableVars, family, fresh>>

Confirm(p) ==
  /\ pc[p] = "confirm"
  /\ ConfirmAndMaterialize(held[p])
  /\ Leave(p)

\* No open row with the id any more, no family to note under, a busy database
ConfirmFails(p) ==
  /\ pc[p] = "confirm"
  /\ Leave(p)
  /\ UNCHANGED tableVars

Rejectable(s) ==
  \/ rows[s].status \in {"open", "expired"}
  \/ rows[s].status = "confirmed" /\ s \in Family

Reject(s) ==
  /\ Rejectable(s)
  /\ rows' = [rows EXCEPT ![s].status = "rejected"]
  /\ UNCHANGED <<playbookVars, pc, held, family, fresh>>

ExpireCandidates(p) ==
  /\ Purging
  /\ pc[p] = "idle"
  /\ rows' = [s \in Signature |->
                IF rows[s].status = "open" /\ rows[s].stale
                  THEN [rows[s] EXCEPT !.status = "expired"] ELSE rows[s]]
  /\ Goto(p, "purge")
  /\ UNCHANGED <<playbookVars, held, family, fresh>>

PurgeCandidates(p) ==
  /\ pc[p] = "purge"
  /\ \E settled \in {{"expired", "confirmed"}, {"expired", "confirmed", "rejected"}} :
       rows' = [s \in Signature |->
                  IF rows[s].status \in settled THEN NoRow(s) ELSE rows[s]]
  /\ Leave(p)
  /\ UNCHANGED <<playbookVars>>

\* The derivation pass of some command
DeriveFlagAlias(s) ==
  /\ DeriveCandidate(s, 0)
  /\ UNCHANGED <<playbookVars, pc, held, family, fresh>>

Age(s) ==
  /\ rows[s].status = "open"
  /\ rows' = [rows EXCEPT ![s].stale = TRUE]
  /\ UNCHANGED <<playbookVars, pc, held, family, fresh>>

-----------------------------------------------------------------------------
(* teach *)

Teach(p, f) ==
  /\ pc[p] = "idle"
  /\ family' = [family EXCEPT ![p] = f]
  /\ Goto(p, "teach")
  /\ UNCHANGED <<tableVars, held, fresh>>

\* --playbook-file and the like, with or without notes; or notes alone
TeachPlaybook(p) ==
  /\ pc[p] = "teach"
  /\ \/ UpsertPlaybook(family[p], Taught)
     \/ /\ playbook' = [playbook EXCEPT ![family[p]] = Noted(family[p])]
        /\ ReplaceNotes(family[p])
  /\ Goto(p, "promote")
  /\ UNCHANGED <<rows, held, family, fresh>>

\* No playbook given, or its upsert failed
TeachNoPlaybook(p) ==
  /\ pc[p] = "teach"
  /\ Goto(p, "promote")
  /\ UNCHANGED <<tableVars, held, family, fresh>>

\* The open candidate of the family; a signature per family, so at most one
ListOpen(p) ==
  /\ pc[p] = "promote"
  /\ IF rows[family[p]].status = "open"
       THEN /\ held' = [held EXCEPT ![p] = [sig |-> family[p], row |-> rows[family[p]]]]
            /\ Goto(p, "covered")
       ELSE /\ Goto(p, "synthesize")
            /\ UNCHANGED held
  /\ UNCHANGED <<tableVars, family, fresh>>

\* Broken: the promotion takes the family to be covered.
CoveredAlways(f) == TRUE

\* Broken: a playbook the agent wrote itself does not count.
CoveredBySynthesis(f) == playbook[f] \notin {NoPlaybook, Taught}

\* Any row counts, one of notes alone included
Covered(f) == playbook[f] # NoPlaybook

GetPlaybookByFamily(p) ==
  /\ pc[p] = "covered"
  /\ Goto(p, IF Covered(family[p]) THEN "settle" ELSE "materialize")
  /\ UNCHANGED <<tableVars, held, family, fresh>>

PromoteMaterializing(p) ==
  /\ pc[p] = "materialize"
  /\ ConfirmAndMaterialize(held[p])
  /\ Goto(p, "synthesize")
  /\ UNCHANGED <<held, family, fresh>>

\* ConfirmCandidate: the row with the id, whatever its class
PromoteSettling(p) ==
  /\ pc[p] = "settle"
  /\ \E s \in Signature : OpenRow(held[p].row.id, s) /\ MarkConfirmed(s)
  /\ lacking' = IF playbook[family[p]] = NotesOnly THEN lacking \union {family[p]} ELSE lacking
  /\ Goto(p, "synthesize")
  /\ UNCHANGED <<playbook, notes, held, family, fresh>>

\* A promotion that fails is logged
PromoteFails(p) ==
  /\ pc[p] \in {"promote", "covered", "settle", "materialize"}
  /\ Goto(p, "synthesize")
  /\ UNCHANGED <<tableVars, held, family, fresh>>

\* The dedup gate, then the episode in the journal
Synthesize(p) ==
  /\ pc[p] = "synthesize"
  /\ playbook[family[p]] = NoPlaybook
  /\ \E n \in 1 .. MaxSteps : fresh' = [fresh EXCEPT ![p] = n]
  /\ Goto(p, "derive")
  /\ UNCHANGED <<tableVars, held, family>>

\* Covered by a playbook, no episode, an error: the teach is done
TeachDone(p) ==
  /\ pc[p] \in {"synthesize", "derive", "read", "refresh"}
  /\ Leave(p)
  /\ UNCHANGED tableVars

DeriveSynthesis(p) ==
  /\ pc[p] = "derive"
  /\ DeriveCandidate(family[p], fresh[p])
  /\ Goto(p, "read")
  /\ UNCHANGED <<playbookVars, held, family, fresh>>

\* Broken: the longer episode supersedes.
SupersedesLonger(n, row) == n > row.steps

Supersedes(n, row) == n < row.steps

\* The row as stored decides on the refresh
ReadSynthesis(p) ==
  /\ pc[p] = "read"
  /\ rows[family[p]].status \notin {"none", "rejected"}
  /\ Supersedes(fresh[p], rows[family[p]])
  /\ held' = [held EXCEPT ![p] = [sig |-> family[p], row |-> rows[family[p]]]]
  /\ Goto(p, "refresh")
  /\ UNCHANGED <<tableVars, family, fresh>>

\* Broken: the refresh does not look at the status.
RefreshableAny(id, s) == rows[s].id = id

Refreshable(id, s) == OpenRow(id, s)

\* UPDATE ... WHERE id = ? AND status = 'open'
RefreshShorterSynthesis(p) ==
  /\ pc[p] = "refresh"
  /\ \E s \in Signature :
       /\ Refreshable(held[p].row.id, s)
       /\ rows' = [rows EXCEPT ![s].of = family[p], ![s].steps = fresh[p]]
  /\ Leave(p)
  /\ UNCHANGED <<playbookVars>>

-----------------------------------------------------------------------------
Kill(p) ==
  /\ pc[p] # "idle"
  /\ Leave(p)
  /\ UNCHANGED tableVars

TeachStep(p) ==
  \/ TeachPlaybook(p) \/ TeachNoPlaybook(p) \/ ListOpen(p) \/ GetPlaybookByFamily(p)
  \/ PromoteMaterializing(p) \/ PromoteSettling(p) \/ PromoteFails(p)
  \/ Synthesize(p) \/ TeachDone(p) \/ DeriveSynthesis(p) \/ ReadSynthesis(p)
  \/ RefreshShorterSynthesis(p)

Next ==
  \/ \E p \in Process :
       \/ \E s \in Signature : Show(p, s)
       \/ Confirm(p) \/ ConfirmFails(p)
       \/ ExpireCandidates(p) \/ PurgeCandidates(p)
       \/ \E f \in Family : Teach(p, f)
       \/ TeachStep(p)
       \/ Kill(p)
  \/ \E s \in Signature : Reject(s) \/ Age(s)
  \/ \E s \in FlagAlias : DeriveFlagAlias(s)

Spec == Init /\ [][Next]_vars

-----------------------------------------------------------------------------
(* Properties. *)

\* A playbook with steps, a correction noted
Shown(s) ==
  IF s \in Family THEN playbook[s] \notin {NoPlaybook, NotesOnly}
                  ELSE \E f \in Family : s \in notes[f]

\* A confirmed candidate has something to show for it: its family a playbook, its
\* correction a note.  Two exceptions, which the code makes: a teach settles the
\* candidate on a row of notes alone, and the playbook that was captured is never
\* written ("so exactly one artifact remains either way",
\* learnings_candidates.go:539, takes any row for a playbook); and notes given to
\* a later teach replace those of the family.  It holds as long as no two
\* commands overlap a purge.
ConfirmedMaterialized ==
  \A s \in Signature :
    rows[s].status = "confirmed" =>
      /\ Shown(s) \/ s \in lacking
      /\ s \in Family => playbook[s] # NoPlaybook

\* "A tighter choreography supersedes a noisier first capture, never the reverse"
\* (synthesize.go:203): the playbook of a candidate never grows.
NeverLonger ==
  [][\A f \in Family :
       rows[f].status # "none" /\ rows'[f].status # "none"
         => rows'[f].steps <= rows[f].steps]_vars

\* A promotion on teach never replaces a playbook the family already has.  It
\* holds of one process at a time.
PromotionKeepsPlaybook ==
  [][\A p \in Process :
       PromoteMaterializing(p) => playbook[held[p].sig] = NoPlaybook]_vars

\* A judged payload is final: what a settled row says is not rewritten, so a
\* tombstone or a confirmed row keeps what was judged until it is purged.
SettledKept ==
  [][\A s \in Signature :
       rows[s].status \in {"confirmed", "rejected"} /\ rows'[s].status # "none"
         => rows'[s].of = rows[s].of /\ rows'[s].steps = rows[s].steps]_vars

\* What was ever written for a signature: a row for its family, a correction note
Artifacts ==
  {f \in Family : playbook[f] # NoPlaybook}
    \union {a \in FlagAlias : Shown(a) \/ a \in lacking}

\* The rows move as CandidateLifecycle says.
Lifecycle == INSTANCE CandidateLifecycle
  WITH status <- [s \in Signature |-> rows[s].status], artifacts <- Artifacts
LifecycleSpec == Lifecycle!Spec
=============================================================================
