--------------------------- MODULE CandidatesProofs ---------------------------
(***************************************************************************)
(* Theorems about Candidates, for any processes, signatures and bounds.    *)
(***************************************************************************)
EXTENDS Candidates, TLAPS

LEMMA ConstantFacts ==
  /\ FlagAlias \intersect Family = {}
  /\ MaxSteps \in Nat \ {0}
  /\ MaxId \in Nat
  /\ (CHOOSE f \in Family : TRUE) \in Family
  /\ (CHOOSE s \in Signature : TRUE) \in Signature
BY CandidatesAssumption DEF Signature

LEMMA NoRowType ==
  ASSUME NEW s \in Signature
  PROVE  NoRow(s) \in Row
BY ConstantFacts DEF NoRow, Row, Status

LEMMA LeaveType ==
  ASSUME TypeOK, NEW p \in Process, Leave(p)
  PROVE  /\ pc' \in [Process -> {"idle", "confirm", "purge", "teach", "promote", "covered",
                                 "settle", "materialize", "synthesize", "derive", "read",
                                 "refresh"}]
         /\ held' \in [Process -> [sig : Signature, row : Row]]
         /\ family' \in [Process -> Family]
         /\ fresh' \in [Process -> 0 .. MaxSteps]
<1>1. NoneHeld \in [sig : Signature, row : Row]
  BY ConstantFacts, NoRowType DEF NoneHeld
<1> QED
  BY <1>1, ConstantFacts DEF TypeOK, Leave, Goto

\* A row with another status, payload or age is still a row.
LEMMA RowUpdates ==
  ASSUME NEW r \in Row
  PROVE  /\ \A st \in Status : [r EXCEPT !.status = st] \in Row
         /\ [r EXCEPT !.stale = TRUE] \in Row
         /\ \A f \in Family, n \in 0 .. MaxSteps : [r EXCEPT !.of = f, !.steps = n] \in Row
BY DEF Row, Signature

LEMMA DeriveType ==
  ASSUME TypeOK, NEW s \in Signature, NEW n \in 0 .. MaxSteps, DeriveCandidate(s, n)
  PROVE  rows' \in [Signature -> Row]
<1>1. CASE rows[s].status = "none"
  <2>1. PICK i \in 1 .. MaxId :
          rows' = [rows EXCEPT ![s] = [id |-> i, status |-> "open", of |-> s,
                                       steps |-> n, stale |-> FALSE]]
    BY <1>1 DEF DeriveCandidate
  <2>2. [id |-> i, status |-> "open", of |-> s, steps |-> n, stale |-> FALSE] \in Row
    BY ConstantFacts DEF Row, Status
  <2> QED
    BY <2>1, <2>2 DEF TypeOK
<1>2. CASE rows[s].status # "none"
  <2>1. Sighted(rows[s]) \in Row
    <3> DEFINE r == rows[s]
               st == IF r.status = "expired" THEN "open" ELSE r.status
    <3>1. r \in Row /\ st \in Status
      BY DEF TypeOK, Row, Status
    <3>2. [[r EXCEPT !.status = st] EXCEPT !.stale = FALSE] \in Row
      BY <3>1 DEF Row
    <3> QED
      BY <3>1, <3>2 DEF Sighted
  <2> QED
    BY <1>2, <2>1 DEF DeriveCandidate, TypeOK
<1> QED
  BY <1>1, <1>2

\* The writes of learning_playbooks keep to its ranges.
LEMMA PlaybookType ==
  ASSUME TypeOK, NEW f \in Family,
         \/ \E n \in {Taught} \union 0 .. MaxSteps : UpsertPlaybook(f, n)
         \/ ReplaceNotes(f) /\ playbook' = [playbook EXCEPT ![f] = Noted(f)]
         \/ \E a \in FlagAlias : AppendPlaybookNotes(f, a)
  PROVE  /\ playbook' \in [Family -> {Taught, NotesOnly} \union 0 .. MaxSteps]
         /\ notes' \in [Family -> SUBSET FlagAlias]
         /\ lacking' \subseteq Signature
<1>1. Noted(f) \in {Taught, NotesOnly} \union 0 .. MaxSteps
  BY DEF Noted, TypeOK
<1>2. CASE \E n \in {Taught} \union 0 .. MaxSteps : UpsertPlaybook(f, n)
  BY <1>2 DEF UpsertPlaybook, ReplaceNotes, TypeOK, Signature
<1>3. CASE ReplaceNotes(f) /\ playbook' = [playbook EXCEPT ![f] = Noted(f)]
  BY <1>1, <1>3 DEF ReplaceNotes, TypeOK, Signature
<1>4. CASE \E a \in FlagAlias : AppendPlaybookNotes(f, a)
  BY <1>1, <1>4 DEF AppendPlaybookNotes, TypeOK
<1> QED
  BY <1>2, <1>3, <1>4

LEMMA ConfirmType ==
  ASSUME TypeOK, NEW p \in Process, ConfirmAndMaterialize(held[p])
  PROVE  /\ rows' \in [Signature -> Row]
         /\ playbook' \in [Family -> {Taught, NotesOnly} \union 0 .. MaxSteps]
         /\ notes' \in [Family -> SUBSET FlagAlias]
         /\ lacking' \subseteq Signature
<1>1. held[p].sig \in Signature /\ held[p].row.steps \in 0 .. MaxSteps
  BY DEF TypeOK, Row
<1>2. PICK s \in Signature : MarkConfirmed(s)
  BY DEF ConfirmAndMaterialize
<1>3. rows' \in [Signature -> Row]
  BY <1>2, RowUpdates DEF MarkConfirmed, TypeOK, Status
<1>4. \/ held[p].sig \in Family /\ UpsertPlaybook(held[p].sig, held[p].row.steps)
      \/ held[p].sig \in FlagAlias /\ \E f \in Family : AppendPlaybookNotes(f, held[p].sig)
  BY <1>1 DEF ConfirmAndMaterialize, Signature
<1> QED
  BY <1>1, <1>3, <1>4, PlaybookType

LEMMA TypeInit == Init => TypeOK
<1> SUFFICES ASSUME Init PROVE TypeOK
  OBVIOUS
<1>1. NoneHeld \in [sig : Signature, row : Row]
  BY ConstantFacts, NoRowType DEF NoneHeld
<1>2. rows \in [Signature -> Row]
  BY NoRowType DEF Init
<1> QED
  BY <1>1, <1>2, ConstantFacts DEF Init, TypeOK, NoPlaybook

LEMMA TypeNext == TypeOK /\ [Next]_vars => TypeOK'
<1> SUFFICES ASSUME TypeOK, [Next]_vars PROVE TypeOK'
  OBVIOUS
<1>0. CASE UNCHANGED vars
  BY <1>0 DEF vars, tableVars, playbookVars, TypeOK
<1> USE ConstantFacts DEF tableVars, playbookVars, Goto
<1>1. ASSUME NEW p \in Process, NEW s \in Signature, Show(p, s) PROVE TypeOK'
  BY <1>1 DEF TypeOK, Show
<1>2. ASSUME NEW p \in Process, Confirm(p) PROVE TypeOK'
  BY <1>2, ConfirmType, LeaveType DEF TypeOK, Confirm
<1>3. ASSUME NEW p \in Process, ConfirmFails(p) \/ TeachDone(p) \/ Kill(p) PROVE TypeOK'
  BY <1>3, LeaveType DEF TypeOK, ConfirmFails, TeachDone, Kill
<1>4. ASSUME NEW p \in Process, ExpireCandidates(p) PROVE TypeOK'
  <2>1. rows' \in [Signature -> Row]
    BY <1>4, RowUpdates DEF TypeOK, ExpireCandidates, Status
  <2> QED
    BY <1>4, <2>1 DEF TypeOK, ExpireCandidates
<1>5. ASSUME NEW p \in Process, PurgeCandidates(p) PROVE TypeOK'
  <2>1. rows' \in [Signature -> Row]
    BY <1>5, NoRowType DEF TypeOK, PurgeCandidates
  <2> QED
    BY <1>5, <2>1, LeaveType DEF TypeOK, PurgeCandidates
<1>6. ASSUME NEW p \in Process, NEW f \in Family, Teach(p, f) PROVE TypeOK'
  BY <1>6 DEF TypeOK, Teach
<1>7. ASSUME NEW p \in Process, TeachPlaybook(p) \/ TeachNoPlaybook(p) \/ PromoteFails(p)
      PROVE  TypeOK'
  <2>1. CASE TeachPlaybook(p)
    <3>1. family[p] \in Family
      BY DEF TypeOK
    <3>2. /\ playbook' \in [Family -> {Taught, NotesOnly} \union 0 .. MaxSteps]
          /\ notes' \in [Family -> SUBSET FlagAlias]
          /\ lacking' \subseteq Signature
      BY <2>1, <3>1, PlaybookType DEF TeachPlaybook
    <3> QED
      BY <2>1, <3>2 DEF TypeOK, TeachPlaybook
  <2> QED
    BY <1>7, <2>1 DEF TypeOK, TeachNoPlaybook, PromoteFails
<1>8. ASSUME NEW p \in Process, ListOpen(p) PROVE TypeOK'
  <2>1. family[p] \in Signature /\ rows[family[p]] \in Row
    BY DEF TypeOK, Signature
  <2> DEFINE looked == [sig |-> family[p], row |-> rows[family[p]]]
  <2>2. looked \in [sig : Signature, row : Row]
    BY <2>1
  <2>3. held' = [held EXCEPT ![p] = looked] \/ held' = held
    BY <1>8 DEF ListOpen
  <2>4. held' \in [Process -> [sig : Signature, row : Row]]
    <3> HIDE DEF looked
    <3> QED BY <2>2, <2>3 DEF TypeOK
  <2> HIDE DEF looked
  <2> QED
    BY <1>8, <2>4 DEF TypeOK, ListOpen
<1>9. ASSUME NEW p \in Process, GetPlaybookByFamily(p) PROVE TypeOK'
  BY <1>9 DEF TypeOK, GetPlaybookByFamily
<1>10. ASSUME NEW p \in Process, PromoteMaterializing(p) PROVE TypeOK'
  BY <1>10, ConfirmType DEF TypeOK, PromoteMaterializing
<1>11. ASSUME NEW p \in Process, PromoteSettling(p) PROVE TypeOK'
  <2>0. PICK s \in Signature : MarkConfirmed(s)
    BY <1>11 DEF PromoteSettling
  <2>1. rows' \in [Signature -> Row]
    BY <2>0, RowUpdates DEF TypeOK, MarkConfirmed, Status
  <2>2. lacking' \subseteq Signature
    BY <1>11 DEF TypeOK, PromoteSettling, Signature
  <2> QED
    BY <1>11, <2>1, <2>2 DEF TypeOK, PromoteSettling
<1>12. ASSUME NEW p \in Process, Synthesize(p) PROVE TypeOK'
  BY <1>12 DEF TypeOK, Synthesize
<1>13. ASSUME NEW p \in Process, DeriveSynthesis(p) PROVE TypeOK'
  <2>1. family[p] \in Signature /\ fresh[p] \in 0 .. MaxSteps
    BY DEF TypeOK, Signature
  <2>2. rows' \in [Signature -> Row]
    BY <1>13, <2>1, DeriveType DEF DeriveSynthesis
  <2> QED
    BY <1>13, <2>2 DEF TypeOK, DeriveSynthesis
<1>14. ASSUME NEW p \in Process, ReadSynthesis(p) PROVE TypeOK'
  BY <1>14 DEF TypeOK, ReadSynthesis, Signature
<1>15. ASSUME NEW p \in Process, RefreshShorterSynthesis(p) PROVE TypeOK'
  <2>1. rows' \in [Signature -> Row]
    <3>1. PICK s \in Signature :
            rows' = [rows EXCEPT ![s] = [@ EXCEPT !.of = family[p], !.steps = fresh[p]]]
      BY <1>15 DEF RefreshShorterSynthesis, TypeOK
    <3> QED
      BY <3>1, RowUpdates DEF TypeOK
  <2> QED
    BY <1>15, <2>1, LeaveType DEF TypeOK, RefreshShorterSynthesis
<1>16. ASSUME NEW s \in Signature, Reject(s) \/ Age(s) PROVE TypeOK'
  <2>1. CASE Reject(s)
    <3>1. rows' \in [Signature -> Row]
      BY <2>1, RowUpdates DEF TypeOK, Reject, Status
    <3> QED
      BY <2>1, <3>1 DEF TypeOK, Reject
  <2>2. CASE Age(s)
    <3>1. rows' \in [Signature -> Row]
      BY <2>2, RowUpdates DEF TypeOK, Age
    <3> QED
      BY <2>2, <3>1 DEF TypeOK, Age
  <2> QED
    BY <1>16, <2>1, <2>2
<1>17. ASSUME NEW s \in FlagAlias, DeriveFlagAlias(s) PROVE TypeOK'
  <2>1. rows' \in [Signature -> Row]
    BY <1>17, DeriveType DEF DeriveFlagAlias, Signature
  <2> QED
    BY <1>17, <2>1 DEF TypeOK, DeriveFlagAlias
<1> QED
  BY <1>0, <1>1, <1>2, <1>3, <1>4, <1>5, <1>6, <1>7, <1>8, <1>9, <1>10, <1>11, <1>12,
     <1>13, <1>14, <1>15, <1>16, <1>17 DEF Next, TeachStep

\* Rows, playbooks and what a process holds keep to their ranges.
THEOREM TypeCorrect == Spec => []TypeOK
BY TypeInit, TypeNext, PTL DEF Spec

-----------------------------------------------------------------------------
(* Without purges a row id names one signature for good, so what a process *)
(* holds is still what the table says.                                     *)

\* Ids are those of rows, and no two rows share one.
IdsUnique ==
  /\ \A s \in Signature : rows[s].id = 0 <=> rows[s].status = "none"
  /\ \A s, t \in Signature : rows[s].id = rows[t].id /\ rows[s].id # 0 => s = t

\* A candidate's payload is about its own signature, and a playbook is not empty.
OwnPayload ==
  \A s \in Signature :
    /\ rows[s].of = s
    /\ s \in Family /\ rows[s].status # "none" => rows[s].steps # 0

RowsInv == IdsUnique /\ OwnPayload /\ ConfirmedMaterialized

\* The row a process holds has kept its id.
HeldInv(p) ==
  pc[p] \in {"confirm", "covered", "settle", "materialize", "refresh"} =>
    /\ held[p].row.id # 0
    /\ rows[held[p].sig].id = held[p].row.id
    /\ held[p].sig \in Family => held[p].row.steps # 0

TeachInv(p) ==
  /\ pc[p] # "purge"
  /\ pc[p] \in {"covered", "settle", "materialize", "refresh"} => held[p].sig = family[p]
  /\ pc[p] = "settle" => playbook[family[p]] # NoPlaybook
  /\ pc[p] \in {"derive", "read", "refresh"} => fresh[p] # 0

Inv == TypeOK /\ RowsInv /\ \A p \in Process : HeldInv(p) /\ TeachInv(p)

\* Rows keep their ids and artifacts stay.
TablesKeep ==
  /\ \A s \in Signature : rows[s].id # 0 => rows'[s].id = rows[s].id
  /\ \A f \in Family : playbook[f] # NoPlaybook => playbook'[f] # NoPlaybook

\* What a signature has to show stays, or is known to be gone.
ShownKeep ==
  /\ \A f \in Family : playbook[f] # NoPlaybook => playbook'[f] # NoPlaybook
  /\ \A s \in Signature : Shown(s) \/ s \in lacking => Shown(s)' \/ s \in lacking'

\* Every write of a playbook or its notes is of this kind.
LEMMA WritesKeep ==
  ASSUME TypeOK, NEW f \in Family,
         \/ \E n \in {Taught} \union 1 .. MaxSteps : UpsertPlaybook(f, n)
         \/ ReplaceNotes(f) /\ playbook' = [playbook EXCEPT ![f] = Noted(f)]
         \/ \E a \in FlagAlias : AppendPlaybookNotes(f, a)
  PROVE  /\ ShownKeep
         /\ playbook'[f] # NoPlaybook
         /\ \A g \in Family \ {f} : playbook'[g] = playbook[g]
<1> USE DEF Taught, NotesOnly, NoPlaybook
<1>1. /\ \A g \in Family \ {f} : playbook'[g] = playbook[g]
      /\ \/ playbook'[f] \in {Taught} \union 1 .. MaxSteps
         \/ playbook'[f] = Noted(f)
  BY DEF UpsertPlaybook, AppendPlaybookNotes, TypeOK
<1>2. /\ playbook'[f] # NoPlaybook
      /\ playbook[f] \notin {NotesOnly, NoPlaybook} => playbook'[f] # NotesOnly
  BY <1>1, ConstantFacts DEF Noted
<1>3. \/ notes' = notes /\ lacking' = lacking
      \/ notes' = [notes EXCEPT ![f] = {}] /\ lacking' = lacking \union notes[f]
      \/ \E a \in FlagAlias : /\ AppendPlaybookNotes(f, a)
                              /\ notes' = [notes EXCEPT ![f] = @ \union {a}]
                              /\ lacking' = lacking
  BY DEF UpsertPlaybook, ReplaceNotes, AppendPlaybookNotes
<1>4. ASSUME NEW g \in Family, Shown(g) \/ g \in lacking
      PROVE  Shown(g)' \/ g \in lacking'
  <2>1. lacking \subseteq lacking'
    BY <1>3
  <2> QED
    BY <1>1, <1>2, <1>4, <2>1 DEF Shown
<1>5. ASSUME NEW a \in FlagAlias, Shown(a) \/ a \in lacking
      PROVE  Shown(a)' \/ a \in lacking'
  <2>1. a \notin Family
    BY ConstantFacts
  <2>2. CASE a \in lacking
    BY <1>3, <2>2
  <2>3. CASE a \notin lacking
    <3>1. PICK g \in Family : a \in notes[g]
      BY <1>5, <2>1, <2>3 DEF Shown
    <3>2. a \in notes'[g] \/ a \in lacking'
      BY <1>3, <3>1 DEF TypeOK
    <3> QED
      BY <2>1, <3>2 DEF Shown
  <2> QED
    BY <2>2, <2>3
<1> QED
  BY <1>1, <1>2, <1>4, <1>5 DEF ShownKeep, Signature

LEMMA DeriveKeeps ==
  ASSUME TypeOK, RowsInv, NEW s \in Signature, NEW n \in 0 .. MaxSteps,
         s \in Family => n # 0, DeriveCandidate(s, n), UNCHANGED playbookVars
  PROVE  RowsInv' /\ TablesKeep
<1>1. CASE rows[s].status = "none"
  <2>1. PICK i \in 1 .. MaxId :
          /\ IsNewId(i)
          /\ rows' = [rows EXCEPT ![s] = [id |-> i, status |-> "open", of |-> s,
                                          steps |-> n, stale |-> FALSE]]
    BY <1>1 DEF DeriveCandidate
  <2>2. /\ rows'[s] = [id |-> i, status |-> "open", of |-> s, steps |-> n, stale |-> FALSE]
        /\ \A t \in Signature : t # s => rows'[t] = rows[t]
    BY <2>1 DEF TypeOK
  <2>3. i # 0 /\ \A t \in Signature : rows[t].id # i
    BY <2>1, ConstantFacts DEF IsNewId, TypeOK, Row
  <2>4. rows[s].id = 0
    BY <1>1 DEF RowsInv, IdsUnique
  <2>5. IdsUnique'
    BY <2>2, <2>3 DEF RowsInv, IdsUnique
  <2>6. OwnPayload'
    BY <2>2 DEF RowsInv, OwnPayload
  <2>7. ConfirmedMaterialized'
    BY <2>2 DEF RowsInv, ConfirmedMaterialized, playbookVars, Shown
  <2> QED
    BY <2>2, <2>4, <2>5, <2>6, <2>7 DEF RowsInv, TablesKeep, playbookVars
<1>2. CASE rows[s].status # "none"
  <2>1. rows' = [rows EXCEPT ![s] = Sighted(rows[s])]
    BY <1>2 DEF DeriveCandidate
  <2>2. \A t \in Signature : t # s => rows'[t] = rows[t]
    BY <2>1 DEF TypeOK
  <2>3. /\ rows'[s].id = rows[s].id /\ rows'[s].of = rows[s].of
        /\ rows'[s].steps = rows[s].steps /\ rows'[s].status # "none"
        /\ rows'[s].status = "confirmed" => rows[s].status = "confirmed"
    <3> DEFINE r == rows[s]
    <3>1. rows'[s] = Sighted(r) /\ r \in Row
      BY <2>1 DEF TypeOK
    <3> HIDE DEF r
    <3>2. /\ Sighted(r).id = r.id /\ Sighted(r).of = r.of /\ Sighted(r).steps = r.steps
          /\ Sighted(r).status \in {"open", r.status}
      BY <3>1 DEF Sighted, Row
    <3> QED
      BY <3>1, <3>2, <1>2 DEF r
  <2>5. IdsUnique'
    BY <1>2, <2>2, <2>3 DEF RowsInv, IdsUnique
  <2>6. OwnPayload'
    BY <1>2, <2>2, <2>3 DEF RowsInv, OwnPayload
  <2>7. ConfirmedMaterialized'
    BY <2>2, <2>3 DEF RowsInv, ConfirmedMaterialized, playbookVars, Shown
  <2> QED
    BY <2>2, <2>3, <2>5, <2>6, <2>7 DEF RowsInv, TablesKeep, playbookVars
<1> QED
  BY <1>1, <1>2

\* Another status for a row that exists disturbs no id and no payload.
LEMMA StatusKeeps ==
  ASSUME TypeOK, RowsInv, NEW s \in Signature, rows[s].status # "none",
         NEW st \in Status \ {"none"}, rows' = [rows EXCEPT ![s].status = st]
  PROVE  /\ IdsUnique' /\ OwnPayload'
         /\ \A t \in Signature : rows'[t].id = rows[t].id
         /\ rows'[s].status = st
         /\ \A t \in Signature \ {s} : rows'[t] = rows[t]
<1>1. /\ \A t \in Signature \ {s} : rows'[t] = rows[t]
      /\ rows'[s] = [rows[s] EXCEPT !.status = st]
  BY DEF TypeOK
<1>2. /\ rows'[s].id = rows[s].id /\ rows'[s].of = rows[s].of
      /\ rows'[s].steps = rows[s].steps /\ rows'[s].status = st
  <2> DEFINE r == rows[s]
  <2>1. r \in Row /\ rows'[s] = [r EXCEPT !.status = st]
    BY <1>1 DEF TypeOK
  <2> HIDE DEF r
  <2>2. /\ [r EXCEPT !.status = st].id = r.id /\ [r EXCEPT !.status = st].of = r.of
        /\ [r EXCEPT !.status = st].steps = r.steps /\ [r EXCEPT !.status = st].status = st
    BY <2>1 DEF Row
  <2> QED
    BY <2>1, <2>2 DEF r
<1>3. IdsUnique'
  BY <1>1, <1>2 DEF RowsInv, IdsUnique
<1>4. OwnPayload'
  BY <1>1, <1>2 DEF RowsInv, OwnPayload
<1> QED
  BY <1>1, <1>2, <1>3, <1>4

\* The row that has the id a process holds is the row it read.
LEMMA HeldRow ==
  ASSUME TypeOK, RowsInv, NEW p \in Process, HeldInv(p),
         pc[p] \in {"confirm", "covered", "settle", "materialize", "refresh"},
         NEW s \in Signature, OpenRow(held[p].row.id, s)
  PROVE  /\ s = held[p].sig /\ rows[s].status = "open"
         /\ held[p].sig \in Family => held[p].row.steps # 0
BY DEF TypeOK, RowsInv, IdsUnique, HeldInv, OpenRow

LEMMA ConfirmMarks ==
  ASSUME TypeOK, RowsInv, NEW p \in Process, HeldInv(p),
         pc[p] \in {"confirm", "materialize"}, ConfirmAndMaterialize(held[p])
  PROVE  LET s == held[p].sig IN
         /\ rows[s].status = "open" /\ MarkConfirmed(s)
         /\ s \in Family => \E n \in 1 .. MaxSteps : UpsertPlaybook(s, n)
         /\ s \notin Family => s \in FlagAlias /\ \E f \in Family : AppendPlaybookNotes(f, s)
<1>1. PICK s \in Signature :
        /\ OpenRow(held[p].row.id, s)
        /\ MarkConfirmed(s)
        /\ IF held[p].sig \in Family
             THEN UpsertPlaybook(held[p].sig, held[p].row.steps)
             ELSE \E f \in Family : AppendPlaybookNotes(f, held[p].sig)
  BY DEF ConfirmAndMaterialize
<1>2. /\ s = held[p].sig /\ rows[s].status = "open"
      /\ held[p].sig \in Family => held[p].row.steps # 0
  BY <1>1, HeldRow
<1>3. held[p].sig \in Signature /\ held[p].row.steps \in 0 .. MaxSteps
  BY DEF TypeOK, Row
<1>4. held[p].sig \in Family => held[p].row.steps \in 1 .. MaxSteps
  BY <1>2, <1>3, ConstantFacts
<1> QED
  BY <1>1, <1>2, <1>3, <1>4 DEF Signature

LEMMA ConfirmKeeps ==
  ASSUME TypeOK, RowsInv, NEW p \in Process, HeldInv(p),
         pc[p] \in {"confirm", "materialize"}, ConfirmAndMaterialize(held[p])
  PROVE  RowsInv' /\ TablesKeep
<1>2. PICK s \in Signature : s = held[p].sig
  BY DEF TypeOK
<1>1. /\ rows[s].status = "open" /\ MarkConfirmed(s)
      /\ s \in Family => \E n \in 1 .. MaxSteps : UpsertPlaybook(s, n)
      /\ s \notin Family => s \in FlagAlias /\ \E f \in Family : AppendPlaybookNotes(f, s)
  BY <1>2, ConfirmMarks
<1>3. /\ IdsUnique' /\ OwnPayload'
      /\ \A t \in Signature : rows'[t].id = rows[t].id
      /\ \A t \in Signature \ {s} : rows'[t] = rows[t]
  BY <1>1, <1>2, StatusKeeps DEF MarkConfirmed, Status
<1>4. ShownKeep
  BY <1>1, WritesKeep
<1>5. Shown(s)' /\ (s \in Family => playbook'[s] # NoPlaybook)
  <2>1. CASE s \in Family
    <3>1. PICK n \in 1 .. MaxSteps : playbook'[s] = n
      BY <1>1, <2>1 DEF UpsertPlaybook, TypeOK
    <3>2. n # NoPlaybook /\ n # NotesOnly
      BY ConstantFacts DEF NoPlaybook, NotesOnly
    <3> QED
      BY <2>1, <3>1, <3>2 DEF Shown
  <2>2. CASE s \notin Family
    <3>1. PICK f \in Family : s \in notes'[f]
      BY <1>1, <2>2 DEF AppendPlaybookNotes, TypeOK
    <3> QED
      BY <2>2, <3>1 DEF Shown
  <2> QED
    BY <2>1, <2>2
<1>6. ConfirmedMaterialized'
  BY <1>3, <1>4, <1>5, <1>2 DEF RowsInv, ConfirmedMaterialized, ShownKeep
<1> QED
  BY <1>3, <1>4, <1>6 DEF RowsInv, TablesKeep, ShownKeep

\* A process that does nothing keeps what it knows while rows keep their ids.
LEMMA OthersKeep ==
  ASSUME TypeOK, TablesKeep, NEW q \in Process, HeldInv(q), TeachInv(q),
         pc'[q] = pc[q], held'[q] = held[q], family'[q] = family[q], fresh'[q] = fresh[q]
  PROVE  HeldInv(q)' /\ TeachInv(q)'
BY DEF TypeOK, TablesKeep, HeldInv, TeachInv

\* A process that is idle, or has nothing to remember, knows nothing.
LEMMA NothingKnown ==
  ASSUME NEW q \in Process, pc'[q] \in {"idle", "teach", "promote", "synthesize"}
  PROVE  HeldInv(q)' /\ TeachInv(q)'
BY DEF HeldInv, TeachInv

LEMMA LeaveIdle ==
  ASSUME TypeOK, NEW p \in Process, Leave(p)
  PROVE  /\ pc'[p] = "idle"
         /\ \A q \in Process \ {p} : /\ pc'[q] = pc[q] /\ held'[q] = held[q]
                                     /\ family'[q] = family[q] /\ fresh'[q] = fresh[q]
BY DEF TypeOK, Leave, Goto

LEMMA SameTables ==
  ASSUME RowsInv, UNCHANGED tableVars
  PROVE  RowsInv' /\ TablesKeep
BY DEF tableVars, playbookVars, RowsInv, IdsUnique, OwnPayload, ConfirmedMaterialized, Shown,
   TablesKeep

LEMMA InvInit == Init => Inv
<1> SUFFICES ASSUME Init PROVE Inv
  OBVIOUS
<1>1. TypeOK
  BY TypeInit
<1>2. RowsInv
  BY DEF Init, RowsInv, IdsUnique, OwnPayload, ConfirmedMaterialized, NoRow
<1>3. ASSUME NEW p \in Process PROVE HeldInv(p) /\ TeachInv(p)
  BY DEF Init, HeldInv, TeachInv
<1> QED
  BY <1>1, <1>2, <1>3 DEF Inv

\* One process takes a step; what the others know stays true.
LEMMA StepKeeps ==
  ASSUME Inv, TypeOK', RowsInv', TablesKeep, NEW p \in Process,
         HeldInv(p)', TeachInv(p)',
         \A q \in Process \ {p} : /\ pc'[q] = pc[q] /\ held'[q] = held[q]
                                 /\ family'[q] = family[q] /\ fresh'[q] = fresh[q]
  PROVE  Inv'
<1>1. ASSUME NEW q \in Process, q # p PROVE HeldInv(q)' /\ TeachInv(q)'
  BY <1>1, OthersKeep DEF Inv
<1> QED
  BY <1>1 DEF Inv

\* A step of the table alone.
LEMMA TableStepKeeps ==
  ASSUME Inv, TypeOK', RowsInv', TablesKeep, UNCHANGED <<pc, held, family, fresh>>
  PROVE  Inv'
BY OthersKeep DEF Inv

LEMMA LeaveKeeps ==
  ASSUME Inv, TypeOK', RowsInv', TablesKeep, NEW p \in Process, Leave(p)
  PROVE  Inv'
BY LeaveIdle, NothingKnown, StepKeeps DEF Inv

LEMMA InvNext ==
  ASSUME ~Purging, Inv, [Next]_vars
  PROVE  Inv'
<1>0. TypeOK /\ RowsInv /\ TypeOK' /\ \A p \in Process : HeldInv(p) /\ TeachInv(p)
  BY TypeNext DEF Inv
<1>a. CASE UNCHANGED vars
  BY <1>0, <1>a, SameTables, TableStepKeeps DEF vars
<1>1. ASSUME NEW p \in Process, NEW s \in Signature, Show(p, s) PROVE Inv'
  <2>1. RowsInv' /\ TablesKeep
    BY <1>0, <1>1, SameTables DEF Show
  <2>2. HeldInv(p)' /\ TeachInv(p)'
    BY <1>0, <1>1
       DEF Show, Goto, tableVars, TypeOK, RowsInv, IdsUnique, OwnPayload, HeldInv, TeachInv
  <2> QED
    BY <1>0, <1>1, <2>1, <2>2, StepKeeps DEF Show, Goto, TypeOK
<1>2. ASSUME NEW p \in Process, Confirm(p) PROVE Inv'
  BY <1>0, <1>2, ConfirmKeeps, LeaveKeeps DEF Confirm
<1>3. ASSUME NEW p \in Process, ConfirmFails(p) \/ TeachDone(p) \/ Kill(p) PROVE Inv'
  BY <1>0, <1>3, SameTables, LeaveKeeps DEF ConfirmFails, TeachDone, Kill
<1>4. ASSUME NEW p \in Process, ExpireCandidates(p) \/ PurgeCandidates(p) PROVE Inv'
  BY <1>0, <1>4 DEF ExpireCandidates, PurgeCandidates, TeachInv
<1>5. ASSUME NEW p \in Process, NEW f \in Family, Teach(p, f) PROVE Inv'
  <2>1. RowsInv' /\ TablesKeep
    BY <1>0, <1>5, SameTables DEF Teach
  <2>2. HeldInv(p)' /\ TeachInv(p)'
    BY <1>0, <1>5, NothingKnown DEF Teach, Goto, TypeOK
  <2> QED
    BY <1>0, <1>5, <2>1, <2>2, StepKeeps DEF Teach, Goto, TypeOK
<1>6. ASSUME NEW p \in Process, TeachPlaybook(p) PROVE Inv'
  <2>1. ShownKeep
    <3>1. family[p] \in Family
      BY <1>0 DEF TypeOK
    <3> QED
      BY <1>0, <1>6, <3>1, WritesKeep DEF TeachPlaybook
  <2>2. RowsInv' /\ TablesKeep
    BY <1>0, <1>6, <2>1
       DEF TeachPlaybook, RowsInv, IdsUnique, OwnPayload, ConfirmedMaterialized, ShownKeep,
           TablesKeep
  <2>3. HeldInv(p)' /\ TeachInv(p)'
    BY <1>0, <1>6, NothingKnown DEF TeachPlaybook, Goto, TypeOK
  <2> QED
    BY <1>0, <1>6, <2>2, <2>3, StepKeeps DEF TeachPlaybook, Goto, TypeOK
<1>7. ASSUME NEW p \in Process, TeachNoPlaybook(p) \/ PromoteFails(p) PROVE Inv'
  <2>1. RowsInv' /\ TablesKeep
    BY <1>0, <1>7, SameTables DEF TeachNoPlaybook, PromoteFails
  <2>2. HeldInv(p)' /\ TeachInv(p)'
    BY <1>0, <1>7, NothingKnown DEF TeachNoPlaybook, PromoteFails, Goto, TypeOK
  <2> QED
    BY <1>0, <1>7, <2>1, <2>2, StepKeeps DEF TeachNoPlaybook, PromoteFails, Goto, TypeOK
<1>8. ASSUME NEW p \in Process, ListOpen(p) PROVE Inv'
  <2>1. RowsInv' /\ TablesKeep
    BY <1>0, <1>8, SameTables DEF ListOpen
  <2>2. HeldInv(p)' /\ TeachInv(p)'
    <3>1. CASE rows[family[p]].status = "open"
      <4>1. /\ held'[p] = [sig |-> family[p], row |-> rows[family[p]]]
            /\ pc'[p] = "covered" /\ rows' = rows /\ family' = family
        BY <1>0, <1>8, <3>1 DEF ListOpen, Goto, tableVars, TypeOK
      <4>2. family[p] \in Family /\ family[p] \in Signature
        BY <1>0 DEF TypeOK, Signature
      <4>3. rows[family[p]].id # 0 /\ rows[family[p]].steps # 0
        BY <1>0, <3>1, <4>2 DEF RowsInv, IdsUnique, OwnPayload
      <4> QED
        BY <4>1, <4>3 DEF HeldInv, TeachInv
    <3>2. CASE rows[family[p]].status # "open"
      BY <1>0, <1>8, <3>2, NothingKnown DEF ListOpen, Goto, TypeOK
    <3> QED
      BY <3>1, <3>2
  <2> QED
    BY <1>0, <1>8, <2>1, <2>2, StepKeeps DEF ListOpen, Goto, TypeOK
<1>9. ASSUME NEW p \in Process, GetPlaybookByFamily(p) PROVE Inv'
  <2>1. RowsInv' /\ TablesKeep
    BY <1>0, <1>9, SameTables DEF GetPlaybookByFamily
  <2>2. HeldInv(p)' /\ TeachInv(p)'
    BY <1>0, <1>9
       DEF GetPlaybookByFamily, Goto, tableVars, playbookVars, TypeOK, HeldInv, TeachInv, Covered
  <2> QED
    BY <1>0, <1>9, <2>1, <2>2, StepKeeps DEF GetPlaybookByFamily, Goto, TypeOK
<1>10. ASSUME NEW p \in Process, PromoteMaterializing(p) PROVE Inv'
  <2>1. RowsInv' /\ TablesKeep
    BY <1>0, <1>10, ConfirmKeeps DEF PromoteMaterializing
  <2>2. HeldInv(p)' /\ TeachInv(p)'
    BY <1>0, <1>10, NothingKnown DEF PromoteMaterializing, Goto, TypeOK
  <2> QED
    BY <1>0, <1>10, <2>1, <2>2, StepKeeps DEF PromoteMaterializing, Goto, TypeOK
<1>11. ASSUME NEW p \in Process, PromoteSettling(p) PROVE Inv'
  <2>1. PICK s \in Signature : OpenRow(held[p].row.id, s) /\ MarkConfirmed(s)
    BY <1>11 DEF PromoteSettling
  <2>2. /\ s = held[p].sig /\ s = family[p] /\ rows[s].status = "open"
        /\ playbook[family[p]] # NoPlaybook
    BY <1>0, <1>11, <2>1, HeldRow DEF PromoteSettling, TeachInv
  <2>3. /\ IdsUnique' /\ OwnPayload'
        /\ \A t \in Signature : rows'[t].id = rows[t].id
        /\ \A t \in Signature \ {s} : rows'[t] = rows[t]
    BY <1>0, <2>1, <2>2, StatusKeeps DEF MarkConfirmed, Status
  <2>4. /\ playbook' = playbook /\ notes' = notes /\ family[p] \in Family
        /\ lacking \subseteq lacking' /\ (playbook[s] = NotesOnly => s \in lacking')
    BY <1>0, <1>11, <2>2 DEF PromoteSettling, TypeOK
  <2>5. ConfirmedMaterialized'
    <3>1. \A t \in Signature : Shown(t)' <=> Shown(t)
      BY <2>4 DEF Shown
    <3>2. Shown(s) \/ s \in lacking'
      BY <2>2, <2>4 DEF Shown
    <3> QED
      BY <1>0, <2>2, <2>3, <2>4, <3>1, <3>2 DEF RowsInv, ConfirmedMaterialized
  <2>6. RowsInv' /\ TablesKeep
    BY <2>3, <2>4, <2>5 DEF RowsInv, TablesKeep
  <2>7. HeldInv(p)' /\ TeachInv(p)'
    BY <1>0, <1>11, NothingKnown DEF PromoteSettling, Goto, TypeOK
  <2> QED
    BY <1>0, <1>11, <2>6, <2>7, StepKeeps DEF PromoteSettling, Goto, TypeOK
<1>12. ASSUME NEW p \in Process, Synthesize(p) PROVE Inv'
  <2>1. RowsInv' /\ TablesKeep
    BY <1>0, <1>12, SameTables DEF Synthesize
  <2>2. HeldInv(p)' /\ TeachInv(p)'
    BY <1>0, <1>12, ConstantFacts DEF Synthesize, Goto, TypeOK, HeldInv, TeachInv
  <2> QED
    BY <1>0, <1>12, <2>1, <2>2, StepKeeps DEF Synthesize, Goto, TypeOK
<1>13. ASSUME NEW p \in Process, DeriveSynthesis(p) PROVE Inv'
  <2>1. family[p] \in Signature /\ fresh[p] \in 0 .. MaxSteps /\ fresh[p] # 0
    BY <1>0, <1>13 DEF DeriveSynthesis, TypeOK, Signature, TeachInv
  <2>2. RowsInv' /\ TablesKeep
    BY <1>0, <1>13, <2>1, DeriveKeeps DEF DeriveSynthesis
  <2>3. HeldInv(p)' /\ TeachInv(p)'
    BY <1>0, <1>13, <2>1 DEF DeriveSynthesis, Goto, TypeOK, HeldInv, TeachInv
  <2> QED
    BY <1>0, <1>13, <2>2, <2>3, StepKeeps DEF DeriveSynthesis, Goto, TypeOK
<1>14. ASSUME NEW p \in Process, ReadSynthesis(p) PROVE Inv'
  <2>1. RowsInv' /\ TablesKeep
    BY <1>0, <1>14, SameTables DEF ReadSynthesis
  <2>2. HeldInv(p)' /\ TeachInv(p)'
    <3>1. /\ held'[p] = [sig |-> family[p], row |-> rows[family[p]]]
          /\ pc'[p] = "refresh" /\ rows' = rows /\ family' = family /\ fresh' = fresh
          /\ rows[family[p]].status # "none"
      BY <1>0, <1>14 DEF ReadSynthesis, Goto, tableVars, TypeOK
    <3>2. family[p] \in Family /\ family[p] \in Signature
      BY <1>0 DEF TypeOK, Signature
    <3>3. rows[family[p]].id # 0 /\ rows[family[p]].steps # 0
      BY <1>0, <3>1, <3>2 DEF RowsInv, IdsUnique, OwnPayload
    <3> QED
      BY <1>0, <1>14, <3>1, <3>3 DEF ReadSynthesis, HeldInv, TeachInv
  <2> QED
    BY <1>0, <1>14, <2>1, <2>2, StepKeeps DEF ReadSynthesis, Goto, TypeOK
<1>15. ASSUME NEW p \in Process, RefreshShorterSynthesis(p) PROVE Inv'
  <2>1. PICK s \in Signature :
          /\ OpenRow(held[p].row.id, s)
          /\ rows' = [rows EXCEPT ![s] = [@ EXCEPT !.of = family[p], !.steps = fresh[p]]]
    BY <1>0, <1>15 DEF RefreshShorterSynthesis, Refreshable, TypeOK
  <2>2. s = family[p] /\ fresh[p] # 0
    BY <1>0, <1>15, <2>1, HeldRow DEF RefreshShorterSynthesis, TeachInv
  <2>3. /\ rows'[s].id = rows[s].id /\ rows'[s].status = rows[s].status
        /\ rows'[s].of = s /\ rows'[s].steps = fresh[p]
        /\ \A t \in Signature \ {s} : rows'[t] = rows[t]
    <3> DEFINE r == rows[s]
    <3>1. r \in Row /\ rows'[s] = [r EXCEPT !.of = family[p], !.steps = fresh[p]]
      BY <1>0, <2>1 DEF TypeOK
    <3>2. \A t \in Signature \ {s} : rows'[t] = rows[t]
      BY <1>0, <2>1 DEF TypeOK
    <3> HIDE DEF r
    <3>3. /\ rows'[s].id = r.id /\ rows'[s].status = r.status
          /\ rows'[s].of = family[p] /\ rows'[s].steps = fresh[p]
      BY <3>1 DEF Row
    <3> QED
      BY <2>2, <3>2, <3>3 DEF r
  <2>4. UNCHANGED playbookVars
    BY <1>15 DEF RefreshShorterSynthesis
  <2>5. IdsUnique' /\ OwnPayload'
    BY <1>0, <2>2, <2>3 DEF RowsInv, IdsUnique, OwnPayload
  <2>6. ConfirmedMaterialized'
    BY <1>0, <2>3, <2>4 DEF RowsInv, ConfirmedMaterialized, playbookVars, Shown
  <2>7. RowsInv' /\ TablesKeep
    BY <2>3, <2>4, <2>5, <2>6 DEF RowsInv, TablesKeep, playbookVars
  <2> QED
    BY <1>0, <1>15, <2>7, LeaveKeeps DEF RefreshShorterSynthesis
<1>16. ASSUME NEW s \in Signature, Reject(s) PROVE Inv'
  <2>1. rows[s].status # "none" /\ rows' = [rows EXCEPT ![s].status = "rejected"]
    BY <1>16 DEF Reject, Rejectable
  <2>2. /\ IdsUnique' /\ OwnPayload'
        /\ \A t \in Signature : rows'[t].id = rows[t].id
        /\ rows'[s].status = "rejected"
        /\ \A t \in Signature \ {s} : rows'[t] = rows[t]
    BY <1>0, <2>1, StatusKeeps DEF Status
  <2>3. UNCHANGED playbookVars
    BY <1>16 DEF Reject
  <2>4. ConfirmedMaterialized'
    BY <1>0, <2>2, <2>3 DEF RowsInv, ConfirmedMaterialized, playbookVars, Shown
  <2>5. RowsInv' /\ TablesKeep
    BY <2>2, <2>3, <2>4 DEF RowsInv, TablesKeep, playbookVars
  <2> QED
    BY <1>0, <1>16, <2>5, TableStepKeeps DEF Reject
<1>17. ASSUME NEW s \in Signature, Age(s) PROVE Inv'
  <2>1. /\ rows'[s].id = rows[s].id /\ rows'[s].status = rows[s].status
        /\ rows'[s].of = rows[s].of /\ rows'[s].steps = rows[s].steps
        /\ \A t \in Signature \ {s} : rows'[t] = rows[t]
    <3> DEFINE r == rows[s]
    <3>1. r \in Row /\ rows'[s] = [r EXCEPT !.stale = TRUE]
      BY <1>0, <1>17 DEF Age, TypeOK
    <3>2. \A t \in Signature \ {s} : rows'[t] = rows[t]
      BY <1>0, <1>17 DEF Age, TypeOK
    <3> HIDE DEF r
    <3>3. /\ rows'[s].id = r.id /\ rows'[s].status = r.status
          /\ rows'[s].of = r.of /\ rows'[s].steps = r.steps
      BY <3>1 DEF Row
    <3> QED
      BY <3>2, <3>3 DEF r
  <2>2. UNCHANGED playbookVars
    BY <1>17 DEF Age
  <2>3. IdsUnique' /\ OwnPayload'
    BY <1>0, <2>1 DEF RowsInv, IdsUnique, OwnPayload
  <2>4. ConfirmedMaterialized'
    BY <1>0, <2>1, <2>2 DEF RowsInv, ConfirmedMaterialized, playbookVars, Shown
  <2>5. RowsInv' /\ TablesKeep
    BY <2>1, <2>2, <2>3, <2>4 DEF RowsInv, TablesKeep, playbookVars
  <2> QED
    BY <1>0, <1>17, <2>5, TableStepKeeps DEF Age
<1>18. ASSUME NEW s \in FlagAlias, DeriveFlagAlias(s) PROVE Inv'
  <2>1. s \in Signature /\ s \notin Family /\ 0 \in 0 .. MaxSteps
    BY ConstantFacts DEF Signature
  <2>2. RowsInv' /\ TablesKeep
    BY <1>0, <1>18, <2>1, DeriveKeeps DEF DeriveFlagAlias
  <2> QED
    BY <1>0, <1>18, <2>2, TableStepKeeps DEF DeriveFlagAlias
<1> QED
  BY <1>a, <1>1, <1>2, <1>3, <1>4, <1>5, <1>6, <1>7, <1>8, <1>9, <1>10, <1>11, <1>12,
     <1>13, <1>14, <1>15, <1>16, <1>17, <1>18 DEF Next, TeachStep

\* As long as nothing is purged, every confirmed candidate has its playbook or note,
\* however many processes judge and teach at once.
THEOREM ConfirmedMaterializedCorrect ==
  ASSUME ~Purging
  PROVE  Spec => []ConfirmedMaterialized
<1>1. Inv => ConfirmedMaterialized
  BY DEF Inv, RowsInv
<1>2. Inv /\ [Next]_vars => Inv'
  BY InvNext
<1> QED
  BY InvInit, <1>1, <1>2, PTL DEF Spec

-----------------------------------------------------------------------------
(* Candidates implements CandidateLifecycle while nothing is purged. *)

Statuses == [s \in Signature |-> rows[s].status]

LEMMA NothingMoves ==
  ASSUME \A s \in Signature : rows'[s].status = rows[s].status, UNCHANGED playbookVars
  PROVE  UNCHANGED Lifecycle!vars
BY DEF Lifecycle!vars, Artifacts, Shown, playbookVars

LEMMA OneMoves ==
  ASSUME NEW s \in Signature, NEW st, rows'[s].status = st,
         \A t \in Signature \ {s} : rows'[t].status = rows[t].status
  PROVE  Statuses' = [Statuses EXCEPT ![s] = st]
BY DEF Statuses

LEMMA DeriveMaps ==
  ASSUME TypeOK, NEW s \in Signature, NEW n, DeriveCandidate(s, n),
         UNCHANGED playbookVars
  PROVE  Lifecycle!Sight(s) \/ UNCHANGED Lifecycle!vars
<1>0. \A t \in Signature \ {s} : rows'[t] = rows[t]
  <2>1. \E r : rows' = [rows EXCEPT ![s] = r]
    BY DEF DeriveCandidate
  <2> QED
    BY <2>1 DEF TypeOK
<1>1. Artifacts' = Artifacts
  BY DEF Artifacts, Shown, playbookVars
<1>2. CASE rows[s].status \in {"none", "expired"}
  <2>1. rows'[s].status = "open"
    <3>1. CASE rows[s].status = "none"
      BY <3>1 DEF DeriveCandidate, TypeOK
    <3>2. CASE rows[s].status = "expired"
      <4> DEFINE r == rows[s]
      <4>1. r \in Row /\ r.status = "expired" /\ rows'[s] = Sighted(r)
        BY <3>2 DEF DeriveCandidate, TypeOK
      <4> HIDE DEF r
      <4>2. Sighted(r).status = "open"
        BY <4>1 DEF Sighted, Row
      <4> QED
        BY <4>1, <4>2
    <3> QED
      BY <1>2, <3>1, <3>2
  <2>2. Statuses' = [Statuses EXCEPT ![s] = "open"]
    BY <1>0, <2>1, OneMoves
  <2> QED
    BY <1>1, <1>2, <2>2 DEF Lifecycle!Sight, Statuses
<1>3. CASE rows[s].status \notin {"none", "expired"}
  <2>1. rows'[s].status = rows[s].status
    <3> DEFINE r == rows[s]
    <3>1. r \in Row /\ r.status # "expired" /\ rows'[s] = Sighted(r)
      BY <1>3 DEF DeriveCandidate, TypeOK
    <3> HIDE DEF r
    <3>2. Sighted(r).status = r.status
      BY <3>1 DEF Sighted, Row
    <3> QED
      BY <3>1, <3>2 DEF r
  <2> QED
    BY <1>0, <2>1, NothingMoves
<1> QED
  BY <1>2, <1>3

\* A playbook or notes for a family: its row is there, corrections stay.
LEMMA UpsertMaps ==
  ASSUME TypeOK, NEW f \in Family,
         \/ \E n \in {Taught} \union 1 .. MaxSteps : UpsertPlaybook(f, n)
         \/ ReplaceNotes(f) /\ playbook' = [playbook EXCEPT ![f] = Noted(f)]
  PROVE  Artifacts' = Artifacts \union {f}
<1>1. /\ ShownKeep /\ playbook'[f] # NoPlaybook
      /\ \A g \in Family \ {f} : playbook'[g] = playbook[g]
  BY WritesKeep
<1>2. ASSUME NEW a \in FlagAlias
      PROVE  Shown(a)' \/ a \in lacking' <=> Shown(a) \/ a \in lacking
  <2>1. a \notin Family /\ a \in Signature
    BY ConstantFacts DEF Signature
  <2>2. CASE notes' = notes /\ lacking' = lacking
    BY <2>1, <2>2 DEF Shown
  <2>3. CASE ReplaceNotes(f)
    <3>1. /\ \A g \in Family : notes'[g] \subseteq notes[g]
          /\ lacking' = lacking \union notes[f]
      BY <2>3 DEF ReplaceNotes, TypeOK
    <3> QED
      BY <1>1, <2>1, <3>1 DEF Shown, ShownKeep
  <2> QED
    BY <2>2, <2>3 DEF UpsertPlaybook
<1> QED
  BY <1>1, <1>2 DEF Artifacts

\* A correction noted: its row is there too.
LEMMA AppendMaps ==
  ASSUME TypeOK, NEW f \in Family, NEW s \in FlagAlias, AppendPlaybookNotes(f, s)
  PROVE  Artifacts' = Artifacts \union {s, f}
<1>1. /\ playbook'[f] # NoPlaybook
      /\ \A g \in Family \ {f} : playbook'[g] = playbook[g]
  BY WritesKeep
<1>2. /\ notes' = [notes EXCEPT ![f] = @ \union {s}]
      /\ lacking' = lacking
  BY DEF AppendPlaybookNotes
<1>3. ASSUME NEW a \in FlagAlias
      PROVE  Shown(a)' <=> Shown(a) \/ a = s
  <2>1. a \notin Family
    BY ConstantFacts
  <2>2. /\ notes'[f] = notes[f] \union {s}
        /\ \A g \in Family \ {f} : notes'[g] = notes[g]
    BY <1>2 DEF TypeOK
  <2> QED
    BY <2>1, <2>2 DEF Shown
<1>4. s \notin Family
  BY ConstantFacts
<1> QED
  BY <1>1, <1>2, <1>3, <1>4 DEF Artifacts

LEMMA ConfirmMaps ==
  ASSUME TypeOK, RowsInv, NEW p \in Process, HeldInv(p),
         pc[p] \in {"confirm", "materialize"}, ConfirmAndMaterialize(held[p])
  PROVE  \E s \in Signature : Lifecycle!Confirm(s)
<1> DEFINE s == held[p].sig
<1>1. /\ rows[s].status = "open" /\ MarkConfirmed(s)
      /\ s \in Family => \E n \in 1 .. MaxSteps : UpsertPlaybook(s, n)
      /\ s \notin Family => s \in FlagAlias /\ \E f \in Family : AppendPlaybookNotes(f, s)
  BY ConfirmMarks
<1>2. s \in Signature
  BY DEF TypeOK
<1> HIDE DEF s
<1>3. rows'[s].status = "confirmed" /\ \A t \in Signature \ {s} : rows'[t] = rows[t]
  BY <1>1, <1>2, StatusKeeps DEF MarkConfirmed, Status
<1>4. Statuses' = [Statuses EXCEPT ![s] = "confirmed"]
  BY <1>2, <1>3, OneMoves
<1>5. \E f \in Family : /\ s \in Family => f = s
                       /\ Artifacts' = Artifacts \union {s, f}
  <2>1. PICK f \in Family :
          \/ s \in Family /\ f = s /\ \E n \in 1 .. MaxSteps : UpsertPlaybook(f, n)
          \/ s \in FlagAlias /\ AppendPlaybookNotes(f, s)
    BY <1>1
  <2>2. Artifacts' = Artifacts \union {s, f}
    BY <2>1, UpsertMaps, AppendMaps
  <2> QED
    BY <2>1, <2>2, ConstantFacts
<1>6. PICK t \in Signature : t = s
  BY <1>2
<1>7. Lifecycle!Confirm(t)
  BY <1>1, <1>4, <1>5, <1>6 DEF Lifecycle!Confirm, Statuses
<1> QED
  BY <1>7

LEMMA StepMaps ==
  ASSUME ~Purging, Inv, [Next]_vars
  PROVE  [Lifecycle!Next]_(Lifecycle!vars)
<1>0. TypeOK /\ RowsInv /\ \A p \in Process : HeldInv(p) /\ TeachInv(p)
  BY DEF Inv
<1> DEFINE Goal == Lifecycle!Next \/ UNCHANGED Lifecycle!vars
<1>s. ASSUME NEW s \in Signature, Lifecycle!Sight(s) \/ Lifecycle!Confirm(s) \/ Lifecycle!Reject(s)
      PROVE  Lifecycle!Next
  BY <1>s DEF Lifecycle!Next, Lifecycle!Signature, Signature
<1>1. ASSUME UNCHANGED tableVars PROVE Goal
  BY <1>1, NothingMoves DEF tableVars
<1>2. ASSUME NEW p \in Process, Confirm(p) \/ PromoteMaterializing(p) PROVE Goal
  <2>1. PICK s \in Signature : Lifecycle!Confirm(s)
    BY <1>0, <1>2, ConfirmMaps DEF Confirm, PromoteMaterializing
  <2> QED
    BY <2>1, <1>s
<1>3. ASSUME NEW p \in Process, ExpireCandidates(p) \/ PurgeCandidates(p) PROVE FALSE
  BY <1>0, <1>3 DEF ExpireCandidates, PurgeCandidates, TeachInv
<1>4. ASSUME NEW p \in Process, TeachPlaybook(p) PROVE Goal
  <2>1. family[p] \in Family
    BY <1>0 DEF TypeOK
  <2>2. Artifacts' = Artifacts \union {family[p]} /\ rows' = rows
    BY <1>0, <1>4, <2>1, UpsertMaps DEF TeachPlaybook
  <2>3. Lifecycle!Teach(family[p])
    BY <2>2 DEF Lifecycle!Teach
  <2> QED
    BY <2>1, <2>3 DEF Lifecycle!Next
<1>5. ASSUME NEW p \in Process, PromoteSettling(p) PROVE Goal
  <2>1. PICK s \in Signature : OpenRow(held[p].row.id, s) /\ MarkConfirmed(s)
    BY <1>5 DEF PromoteSettling
  <2>2. s = family[p] /\ rows[s].status = "open" /\ playbook[s] # NoPlaybook /\ s \in Family
    BY <1>0, <1>5, <2>1, HeldRow DEF PromoteSettling, TeachInv, TypeOK
  <2>3. rows'[s].status = "confirmed" /\ \A t \in Signature \ {s} : rows'[t] = rows[t]
    BY <1>0, <2>1, <2>2, StatusKeeps DEF MarkConfirmed, Status
  <2>4. Statuses' = [Statuses EXCEPT ![s] = "confirmed"]
    BY <2>3, OneMoves
  <2>5. Artifacts' = Artifacts \union {s, s}
    <3>1. playbook' = playbook /\ notes' = notes
      BY <1>5 DEF PromoteSettling
    <3>2. \A a \in FlagAlias : a \in lacking' <=> a \in lacking
      BY <1>5, <2>2, ConstantFacts DEF PromoteSettling
    <3> QED
      BY <2>2, <3>1, <3>2 DEF Artifacts, Shown
  <2>6. Lifecycle!Confirm(s)
    BY <2>2, <2>4, <2>5 DEF Lifecycle!Confirm, Statuses
  <2> QED
    BY <2>6, <1>s
<1>6. ASSUME NEW p \in Process, DeriveSynthesis(p) PROVE Goal
  <2>1. family[p] \in Signature
    BY <1>0 DEF TypeOK, Signature
  <2> QED
    BY <1>0, <1>6, <2>1, DeriveMaps, <1>s DEF DeriveSynthesis
<1>7. ASSUME NEW p \in Process, RefreshShorterSynthesis(p) PROVE Goal
  <2>1. PICK s \in Signature :
          rows' = [rows EXCEPT ![s] = [@ EXCEPT !.of = family[p], !.steps = fresh[p]]]
    BY <1>0, <1>7 DEF RefreshShorterSynthesis, TypeOK
  <2>2. rows'[s].status = rows[s].status /\ \A t \in Signature \ {s} : rows'[t] = rows[t]
    <3> DEFINE r == rows[s]
    <3>1. r \in Row /\ rows'[s] = [r EXCEPT !.of = family[p], !.steps = fresh[p]]
      BY <1>0, <2>1 DEF TypeOK
    <3>2. \A t \in Signature \ {s} : rows'[t] = rows[t]
      BY <1>0, <2>1 DEF TypeOK
    <3> HIDE DEF r
    <3>3. rows'[s].status = r.status
      BY <3>1 DEF Row
    <3> QED
      BY <3>2, <3>3 DEF r
  <2> QED
    BY <1>7, <2>2, NothingMoves DEF RefreshShorterSynthesis
<1>8. ASSUME NEW s \in Signature, Reject(s) PROVE Goal
  <2>1. /\ rows[s].status \in {"open", "expired"} \/ (rows[s].status = "confirmed" /\ s \in Family)
        /\ rows' = [rows EXCEPT ![s].status = "rejected"]
    BY <1>8 DEF Reject, Rejectable
  <2>2. rows'[s].status = "rejected" /\ \A t \in Signature \ {s} : rows'[t] = rows[t]
    BY <1>0, <2>1, StatusKeeps DEF Status
  <2>3. Statuses' = [Statuses EXCEPT ![s] = "rejected"]
    BY <2>2, OneMoves
  <2>4. Artifacts' = Artifacts
    BY <1>8 DEF Reject, Artifacts, Shown, playbookVars
  <2>5. Lifecycle!Reject(s)
    BY <2>1, <2>3, <2>4 DEF Lifecycle!Reject, Statuses
  <2> QED
    BY <2>5, <1>s
<1>9. ASSUME NEW s \in Signature, Age(s) PROVE Goal
  <2>1. rows'[s].status = rows[s].status /\ \A t \in Signature \ {s} : rows'[t] = rows[t]
    <3> DEFINE r == rows[s]
    <3>1. r \in Row /\ rows'[s] = [r EXCEPT !.stale = TRUE]
      BY <1>0, <1>9 DEF Age, TypeOK
    <3>2. \A t \in Signature \ {s} : rows'[t] = rows[t]
      BY <1>0, <1>9 DEF Age, TypeOK
    <3> HIDE DEF r
    <3>3. rows'[s].status = r.status
      BY <3>1 DEF Row
    <3> QED
      BY <3>2, <3>3 DEF r
  <2> QED
    BY <1>9, <2>1, NothingMoves DEF Age
<1>10. ASSUME NEW s \in FlagAlias, DeriveFlagAlias(s) PROVE Goal
  <2>1. s \in Signature
    BY DEF Signature
  <2> QED
    BY <1>0, <1>10, <2>1, DeriveMaps, <1>s DEF DeriveFlagAlias
<1>11. ASSUME NEW p \in Process,
              \/ \E s \in Signature : Show(p, s)
              \/ ConfirmFails(p)
              \/ \E f \in Family : Teach(p, f)
              \/ TeachNoPlaybook(p) \/ ListOpen(p) \/ GetPlaybookByFamily(p)
              \/ PromoteFails(p) \/ Synthesize(p) \/ TeachDone(p) \/ ReadSynthesis(p)
              \/ Kill(p)
       PROVE  UNCHANGED tableVars
  BY <1>11 DEF Show, ConfirmFails, Teach, TeachNoPlaybook, ListOpen, GetPlaybookByFamily,
              PromoteFails, Synthesize, TeachDone, ReadSynthesis, Kill
<1>12. CASE UNCHANGED vars
  BY <1>12, <1>1 DEF vars
<1> HIDE DEF Goal
<1>13. ASSUME NEW p \in Process,
              \/ \E s \in Signature : Show(p, s)
              \/ Confirm(p) \/ ConfirmFails(p)
              \/ ExpireCandidates(p) \/ PurgeCandidates(p)
              \/ \E f \in Family : Teach(p, f)
              \/ TeachStep(p)
              \/ Kill(p)
       PROVE  Goal
  BY <1>13, <1>1, <1>2, <1>3, <1>4, <1>5, <1>6, <1>7, <1>11 DEF TeachStep
<1>14. ASSUME NEW s \in Signature, Reject(s) \/ Age(s) PROVE Goal
  BY <1>8, <1>9, <1>14
<1>15. ASSUME Next PROVE Goal
  BY <1>10, <1>13, <1>14, <1>15 DEF Next
<1> QED
  BY <1>12, <1>15 DEF Goal

\* As long as nothing is purged, statuses move only along the edges of the state
\* machine, and a candidate is confirmed only together with its artifact.
THEOREM LifecycleImplemented ==
  ASSUME ~Purging
  PROVE  Spec => LifecycleSpec
<1>1. Init => Lifecycle!Init
  <2> SUFFICES ASSUME Init PROVE Lifecycle!Init
    OBVIOUS
  <2>1. \A s \in Signature : rows[s].status = "none"
    BY DEF Init, NoRow
  <2>2. Artifacts = {}
    BY DEF Init, Artifacts, Shown
  <2> QED
    BY <2>1, <2>2 DEF Lifecycle!Init, Lifecycle!Signature, Signature
<1>2. Inv /\ [Next]_vars => Inv' /\ [Lifecycle!Next]_(Lifecycle!vars)
  BY InvNext, StepMaps
<1> QED
  BY InvInit, <1>1, <1>2, PTL DEF Spec, LifecycleSpec, Lifecycle!Spec

-----------------------------------------------------------------------------
(* How a row may change, with or without purges. *)

Kept(s) ==
  /\ rows'[s].id = rows[s].id /\ rows'[s].of = rows[s].of /\ rows'[s].steps = rows[s].steps
  /\ rows'[s].status = "none" <=> rows[s].status = "none"

Created(s) ==
  /\ rows[s].status = "none" /\ rows'[s].status = "open" /\ rows'[s].id # 0
  /\ \A t \in Signature : /\ rows[t].id # rows'[s].id
                          /\ t # s => rows'[t] = rows[t]

Refreshed(s) ==
  \E p \in Process :
    /\ pc[p] = "refresh" /\ OpenRow(held[p].row.id, s)
    /\ rows'[s].id = rows[s].id /\ rows'[s].status = "open" /\ rows'[s].steps = fresh[p]

RowMoves(s) == Kept(s) \/ rows'[s] = NoRow(s) \/ Created(s) \/ Refreshed(s)

LEMMA StatusMoves ==
  ASSUME TypeOK, NEW s \in Signature, rows[s].status # "none",
         NEW st \in Status \ {"none"}, rows' = [rows EXCEPT ![s].status = st]
  PROVE  \A t \in Signature : Kept(t)
<1> DEFINE r == rows[s]
<1>1. /\ r \in Row /\ rows'[s] = [r EXCEPT !.status = st]
      /\ \A t \in Signature \ {s} : rows'[t] = rows[t]
  BY DEF TypeOK
<1> HIDE DEF r
<1>2. /\ [r EXCEPT !.status = st].id = r.id /\ [r EXCEPT !.status = st].of = r.of
      /\ [r EXCEPT !.status = st].steps = r.steps /\ [r EXCEPT !.status = st].status = st
  BY <1>1 DEF Row
<1>3. Kept(s)
  BY <1>1, <1>2 DEF Kept, r
<1> QED
  BY <1>1, <1>3 DEF Kept

LEMMA DeriveMoves ==
  ASSUME TypeOK, NEW s \in Signature, NEW n \in 0 .. MaxSteps, DeriveCandidate(s, n)
  PROVE  \A t \in Signature : RowMoves(t)
<1>1. CASE rows[s].status = "none"
  <2>1. PICK i \in 1 .. MaxId :
          /\ IsNewId(i)
          /\ rows' = [rows EXCEPT ![s] = [id |-> i, status |-> "open", of |-> s,
                                          steps |-> n, stale |-> FALSE]]
    BY <1>1 DEF DeriveCandidate
  <2>2. /\ rows'[s] = [id |-> i, status |-> "open", of |-> s, steps |-> n, stale |-> FALSE]
        /\ \A t \in Signature : t # s => rows'[t] = rows[t]
    BY <2>1 DEF TypeOK
  <2>3. i # 0 /\ \A t \in Signature : rows[t].id # i
    BY <2>1, ConstantFacts DEF IsNewId, TypeOK, Row
  <2> QED
    BY <1>1, <2>2, <2>3 DEF RowMoves, Created, Kept
<1>2. CASE rows[s].status # "none"
  <2> DEFINE r == rows[s]
  <2>1. /\ r \in Row /\ rows'[s] = Sighted(r)
        /\ \A t \in Signature : t # s => rows'[t] = rows[t]
    BY <1>2 DEF DeriveCandidate, TypeOK
  <2> HIDE DEF r
  <2>2. /\ Sighted(r).id = r.id /\ Sighted(r).of = r.of /\ Sighted(r).steps = r.steps
        /\ Sighted(r).status \in {"open", r.status}
    BY <2>1 DEF Sighted, Row
  <2>3. Kept(s)
    BY <1>2, <2>1, <2>2 DEF Kept, r
  <2> QED
    BY <2>1, <2>3 DEF RowMoves, Kept
<1> QED
  BY <1>1, <1>2

LEMMA RowsMove ==
  ASSUME TypeOK, [Next]_vars
  PROVE  \A s \in Signature : RowMoves(s)
<1> SUFFICES \A s \in Signature : RowMoves(s)
  OBVIOUS
<1>1. CASE UNCHANGED rows
  BY <1>1 DEF RowMoves, Kept
<1>2. ASSUME NEW p \in Process,
             Confirm(p) \/ PromoteMaterializing(p) \/ PromoteSettling(p)
      PROVE  \A s \in Signature : RowMoves(s)
  <2>1. PICK s \in Signature : rows[s].status = "open" /\ MarkConfirmed(s)
    BY <1>2 DEF Confirm, PromoteMaterializing, PromoteSettling, ConfirmAndMaterialize, OpenRow
  <2> QED
    BY <2>1, StatusMoves DEF MarkConfirmed, Status, RowMoves
<1>3. ASSUME NEW s \in Signature, Reject(s) PROVE \A t \in Signature : RowMoves(t)
  <2>1. rows[s].status # "none" /\ rows' = [rows EXCEPT ![s].status = "rejected"]
    BY <1>3 DEF Reject, Rejectable
  <2> QED
    BY <2>1, StatusMoves DEF Status, RowMoves
<1>4. ASSUME NEW s \in Signature, Age(s) PROVE \A t \in Signature : RowMoves(t)
  <2> DEFINE r == rows[s]
  <2>1. /\ r \in Row /\ rows'[s] = [r EXCEPT !.stale = TRUE]
        /\ \A t \in Signature \ {s} : rows'[t] = rows[t]
    BY <1>4 DEF Age, TypeOK
  <2> HIDE DEF r
  <2>2. /\ [r EXCEPT !.stale = TRUE].id = r.id /\ [r EXCEPT !.stale = TRUE].of = r.of
        /\ [r EXCEPT !.stale = TRUE].steps = r.steps
        /\ [r EXCEPT !.stale = TRUE].status = r.status
    BY <2>1 DEF Row
  <2>3. Kept(s)
    BY <2>1, <2>2 DEF Kept, r
  <2> QED
    BY <2>1, <2>3 DEF RowMoves, Kept
<1>5. ASSUME NEW p \in Process, ExpireCandidates(p) PROVE \A s \in Signature : RowMoves(s)
  <2>1. ASSUME NEW s \in Signature PROVE Kept(s)
    <3> DEFINE r == rows[s]
    <3>1. /\ r \in Row
          /\ \/ rows'[s] = r
             \/ rows'[s] = [r EXCEPT !.status = "expired"] /\ r.status = "open"
      BY <1>5 DEF ExpireCandidates, TypeOK
    <3> HIDE DEF r
    <3>2. /\ [r EXCEPT !.status = "expired"].id = r.id
          /\ [r EXCEPT !.status = "expired"].of = r.of
          /\ [r EXCEPT !.status = "expired"].steps = r.steps
          /\ [r EXCEPT !.status = "expired"].status = "expired"
      BY <3>1 DEF Row
    <3> QED
      BY <3>1, <3>2 DEF Kept, r
  <2> QED
    BY <2>1 DEF RowMoves
<1>6. ASSUME NEW p \in Process, PurgeCandidates(p) PROVE \A s \in Signature : RowMoves(s)
  <2>1. ASSUME NEW s \in Signature PROVE rows'[s] \in {NoRow(s), rows[s]}
    BY <1>6 DEF PurgeCandidates
  <2> QED
    BY <2>1 DEF RowMoves, Kept
<1>7. ASSUME NEW s \in FlagAlias, DeriveFlagAlias(s) PROVE \A t \in Signature : RowMoves(t)
  BY <1>7, DeriveMoves, ConstantFacts DEF DeriveFlagAlias, Signature
<1>8. ASSUME NEW p \in Process, DeriveSynthesis(p) PROVE \A s \in Signature : RowMoves(s)
  BY <1>8, DeriveMoves DEF DeriveSynthesis, TypeOK, Signature
<1>9. ASSUME NEW p \in Process, RefreshShorterSynthesis(p)
      PROVE  \A s \in Signature : RowMoves(s)
  <2>1. PICK s \in Signature :
          /\ OpenRow(held[p].row.id, s) /\ pc[p] = "refresh"
          /\ rows' = [rows EXCEPT ![s].of = family[p], ![s].steps = fresh[p]]
    BY <1>9 DEF RefreshShorterSynthesis, Refreshable
  <2> DEFINE r == rows[s]
  <2>2. /\ r \in Row /\ rows'[s] = [r EXCEPT !.of = family[p], !.steps = fresh[p]]
        /\ \A t \in Signature \ {s} : rows'[t] = rows[t]
    BY <2>1 DEF TypeOK
  <2> HIDE DEF r
  <2>3. /\ rows'[s].id = r.id /\ rows'[s].status = r.status /\ rows'[s].steps = fresh[p]
    BY <2>2 DEF Row
  <2>4. Refreshed(s)
    BY <2>1, <2>3 DEF Refreshed, OpenRow, r
  <2> QED
    BY <2>2, <2>4 DEF RowMoves, Kept
<1>10. ASSUME NEW p \in Process,
              \/ \E s \in Signature : Show(p, s)
              \/ ConfirmFails(p) \/ \E f \in Family : Teach(p, f)
              \/ TeachPlaybook(p) \/ TeachNoPlaybook(p) \/ ListOpen(p)
              \/ GetPlaybookByFamily(p) \/ PromoteFails(p) \/ Synthesize(p) \/ TeachDone(p)
              \/ ReadSynthesis(p) \/ Kill(p)
       PROVE  UNCHANGED rows
  BY <1>10 DEF Show, ConfirmFails, Teach, TeachPlaybook, TeachNoPlaybook, ListOpen,
     GetPlaybookByFamily, PromoteFails, Synthesize, TeachDone, ReadSynthesis, Kill, tableVars
<1> QED
  BY <1>1, <1>2, <1>3, <1>4, <1>5, <1>6, <1>7, <1>8, <1>9, <1>10
     DEF Next, TeachStep, vars, tableVars

\* A settled row keeps what was judged until it is purged, for any number of processes,
\* with or without purges.
THEOREM SettledKeptCorrect == Spec => SettledKept
<1>1. TypeOK /\ [Next]_vars =>
        [\A s \in Signature :
           rows[s].status \in {"confirmed", "rejected"} /\ rows'[s].status # "none"
             => rows'[s].of = rows[s].of /\ rows'[s].steps = rows[s].steps]_vars
  <2> SUFFICES ASSUME TypeOK, [Next]_vars, NEW s \in Signature,
                      rows[s].status \in {"confirmed", "rejected"}, rows'[s].status # "none"
               PROVE  rows'[s].of = rows[s].of /\ rows'[s].steps = rows[s].steps
    OBVIOUS
  <2>1. RowMoves(s)
    BY RowsMove
  <2> QED
    BY <2>1 DEF RowMoves, Kept, Created, Refreshed, OpenRow, NoRow
<1> QED
  BY <1>1, TypeCorrect, PTL DEF Spec, SettledKept

-----------------------------------------------------------------------------
(* One process at a time, with or without purges: what it looked at is still *)
(* so when it acts on it.                                                    *)

\* A row's number of steps shrinks.
ShrinksOnly ==
  \A f \in Family :
    rows[f].status # "none" /\ rows'[f].status # "none" => rows'[f].steps <= rows[f].steps

\* The family a promotion materializes has no playbook, and the row a refresh is
\* about has more steps than the episode.
LookStands(p) ==
  /\ pc[p] \in {"covered", "settle", "materialize", "refresh"} => held[p].sig = family[p]
  /\ pc[p] = "materialize" => playbook[family[p]] = NoPlaybook
  /\ pc[p] = "refresh" =>
       /\ held[p].row.id # 0 /\ held[p].row.id = rows[family[p]].id
       /\ fresh[p] < rows[family[p]].steps

AloneInv == IdsUnique /\ \A p \in Process : LookStands(p)

LEMMA IdsStayUnique ==
  ASSUME TypeOK, IdsUnique, [Next]_vars
  PROVE  IdsUnique'
<1>1. \A s \in Signature : RowMoves(s)
  BY RowsMove
<1>2. ASSUME NEW s \in Signature
      PROVE  \/ Created(s)
             \/ rows'[s] = NoRow(s)
             \/ /\ rows'[s].id = rows[s].id
                /\ rows'[s].status = "none" <=> rows[s].status = "none"
  <2>1. CASE Kept(s)
    BY <2>1 DEF Kept
  <2>2. CASE Refreshed(s)
    BY <2>2 DEF Refreshed, OpenRow
  <2> QED
    BY <1>1, <2>1, <2>2 DEF RowMoves
<1>3. ASSUME NEW s \in Signature
      PROVE  rows'[s].id = 0 <=> rows'[s].status = "none"
  <2>1. CASE Created(s)
    BY <2>1 DEF Created
  <2>2. CASE rows'[s] = NoRow(s)
    BY <2>2 DEF NoRow
  <2>3. CASE rows'[s].id = rows[s].id /\ (rows'[s].status = "none" <=> rows[s].status = "none")
    BY <2>3 DEF IdsUnique
  <2> QED
    BY <1>2, <2>1, <2>2, <2>3
<1>4. ASSUME NEW s \in Signature, NEW t \in Signature,
             rows'[s].id = rows'[t].id, rows'[s].id # 0
      PROVE  s = t
  <2>1. /\ Created(s) \/ rows'[s].id = rows[s].id
        /\ Created(t) \/ rows'[t].id = rows[t].id
    <3>1. rows'[s] # NoRow(s) /\ rows'[t] # NoRow(t)
      BY <1>4 DEF NoRow
    <3> QED
      BY <1>2, <3>1
  <2>2. CASE Created(s)
    BY <1>4, <2>2 DEF Created
  <2>3. CASE Created(t)
    BY <1>4, <2>3 DEF Created
  <2> QED
    BY <1>4, <2>1, <2>2, <2>3 DEF IdsUnique
<1> QED
  BY <1>3, <1>4 DEF IdsUnique

\* Only a refresh changes a number of steps, and it is that of the row it read.
LEMMA StepsShrink ==
  ASSUME TypeOK, AloneInv, [Next]_vars
  PROVE  ShrinksOnly
<1> SUFFICES ASSUME NEW f \in Family, rows[f].status # "none", rows'[f].status # "none"
             PROVE  rows'[f].steps <= rows[f].steps
  BY DEF ShrinksOnly
<1>1. f \in Signature /\ rows[f].steps \in Int
  BY DEF Signature, TypeOK, Row
<1>2. RowMoves(f)
  BY <1>1, RowsMove
<1>3. CASE Kept(f)
  BY <1>1, <1>3 DEF Kept
<1>4. CASE Refreshed(f)
  <2>1. PICK p \in Process : /\ pc[p] = "refresh" /\ OpenRow(held[p].row.id, f)
                             /\ rows'[f].steps = fresh[p]
    BY <1>4 DEF Refreshed
  <2>2. /\ held[p].row.id # 0 /\ held[p].row.id = rows[family[p]].id
        /\ fresh[p] < rows[family[p]].steps /\ family[p] \in Signature
    BY <2>1 DEF AloneInv, LookStands, TypeOK, Signature
  <2>3. family[p] = f
    BY <1>1, <2>1, <2>2 DEF AloneInv, IdsUnique, OpenRow
  <2> QED
    BY <1>1, <2>1, <2>2, <2>3 DEF TypeOK
<1> QED
  BY <1>2, <1>3, <1>4 DEF RowMoves, NoRow, Created

LEMMA AloneInit == Init => AloneInv
<1> SUFFICES ASSUME Init PROVE AloneInv
  OBVIOUS
<1>1. IdsUnique
  BY DEF Init, IdsUnique, NoRow
<1>2. ASSUME NEW p \in Process PROVE LookStands(p)
  BY DEF Init, LookStands
<1> QED
  BY <1>1, <1>2 DEF AloneInv

\* What happens beside a process that does nothing.
LEMMA LookOutlasts ==
  ASSUME TypeOK, AloneInv, NEW p \in Process, UNCHANGED <<pc, held, family, fresh, playbook>>,
         \A f \in Family : Kept(f)
  PROVE  LookStands(p)'
<1>1. LookStands(p) /\ family[p] \in Family
  BY DEF AloneInv, TypeOK
<1> QED
  BY <1>1 DEF LookStands, Kept

LEMMA AloneNext ==
  ASSUME NEW P, Process = {P}, TypeOK, AloneInv, [Next]_vars
  PROVE  AloneInv'
<1>1. P \in Process /\ \A p \in Process : p = P
  OBVIOUS
<1>2. IdsUnique'
  BY IdsStayUnique DEF AloneInv
<1> SUFFICES LookStands(P)'
  BY <1>1, <1>2 DEF AloneInv
<1>3. LookStands(P) /\ family[P] \in Family /\ held[P].sig \in Signature
  BY <1>1 DEF AloneInv, TypeOK
<1>4. CASE UNCHANGED vars
  BY <1>3, <1>4 DEF vars, tableVars, playbookVars, LookStands
<1>5. ASSUME NEW s \in Signature, Reject(s) \/ Age(s) PROVE LookStands(P)'
  <2>1. \A f \in Family : Kept(f)
    <3>1. CASE Reject(s)
      <4>1. rows[s].status # "none" /\ rows' = [rows EXCEPT ![s].status = "rejected"]
        BY <3>1 DEF Reject, Rejectable
      <4> QED
        BY <4>1, StatusMoves DEF Status, Signature
    <3>2. CASE Age(s)
      <4>1. \A t \in Signature : Kept(t)
        <5> SUFFICES ASSUME NEW t \in Signature PROVE Kept(t)
          OBVIOUS
        <5> DEFINE r == rows[t]
        <5>1. r \in Row /\ rows'[t] \in {r, [r EXCEPT !.stale = TRUE]}
          BY <3>2 DEF Age, TypeOK
        <5> HIDE DEF r
        <5>2. /\ [r EXCEPT !.stale = TRUE].id = r.id /\ [r EXCEPT !.stale = TRUE].of = r.of
              /\ [r EXCEPT !.stale = TRUE].steps = r.steps
              /\ [r EXCEPT !.stale = TRUE].status = r.status
          BY <5>1 DEF Row
        <5> QED
          BY <5>1, <5>2 DEF Kept, r
      <4> QED
        BY <4>1 DEF Signature
    <3> QED
      BY <1>5, <3>1, <3>2
  <2>2. UNCHANGED <<pc, held, family, fresh, playbook>>
    BY <1>5 DEF Reject, Age, playbookVars
  <2> QED
    BY <1>1, <2>1, <2>2, LookOutlasts
<1>6. ASSUME NEW s \in FlagAlias, DeriveFlagAlias(s) PROVE LookStands(P)'
  <2>1. \A f \in Family : rows'[f] = rows[f]
    BY <1>6, ConstantFacts DEF DeriveFlagAlias, DeriveCandidate, TypeOK, Signature
  <2>2. UNCHANGED <<pc, held, family, fresh, playbook>> /\ \A f \in Family : Kept(f)
    BY <1>6, <2>1 DEF DeriveFlagAlias, Kept, playbookVars
  <2> QED
    BY <1>1, <2>2, LookOutlasts
<1>7. ASSUME NEW p \in Process, pc'[p] \notin {"covered", "settle", "materialize", "refresh"}
      PROVE  LookStands(P)'
  BY <1>1, <1>7 DEF LookStands
<1>8. ASSUME NEW p \in Process, ListOpen(p) PROVE LookStands(P)'
  BY <1>1, <1>3, <1>8 DEF ListOpen, Goto, tableVars, TypeOK, LookStands
<1>9. ASSUME NEW p \in Process, GetPlaybookByFamily(p) PROVE LookStands(P)'
  BY <1>1, <1>3, <1>9
     DEF GetPlaybookByFamily, Covered, Goto, tableVars, playbookVars, TypeOK, LookStands
<1>10. ASSUME NEW p \in Process, ReadSynthesis(p) PROVE LookStands(P)'
  <2>1. /\ p = P /\ pc'[P] = "refresh" /\ held'[P] = [sig |-> family[P], row |-> rows[family[P]]]
        /\ rows' = rows /\ family' = family /\ fresh' = fresh
        /\ rows[family[P]].status # "none" /\ fresh[P] < rows[family[P]].steps
    BY <1>1, <1>10 DEF ReadSynthesis, Supersedes, Goto, tableVars, TypeOK
  <2>2. rows[family[P]].id # 0
    BY <1>3, <2>1 DEF AloneInv, IdsUnique, Signature
  <2> QED
    BY <2>1, <2>2 DEF LookStands
<1>11. ASSUME NEW p \in Process,
              \/ \E s \in Signature : Show(p, s)
              \/ Confirm(p) \/ ConfirmFails(p) \/ ExpireCandidates(p) \/ PurgeCandidates(p)
              \/ \E f \in Family : Teach(p, f)
              \/ TeachPlaybook(p) \/ TeachNoPlaybook(p) \/ PromoteMaterializing(p)
              \/ PromoteSettling(p) \/ PromoteFails(p) \/ Synthesize(p) \/ TeachDone(p)
              \/ DeriveSynthesis(p) \/ RefreshShorterSynthesis(p) \/ Kill(p)
       PROVE  LookStands(P)'
  <2>1. pc'[p] \notin {"covered", "settle", "materialize", "refresh"}
    BY <1>11 DEF Show, Confirm, ConfirmFails, ExpireCandidates, PurgeCandidates, Teach,
       TeachPlaybook, TeachNoPlaybook, PromoteMaterializing, PromoteSettling, PromoteFails,
       Synthesize, TeachDone, DeriveSynthesis, RefreshShorterSynthesis, Kill, Leave, Goto, TypeOK
  <2> QED
    BY <1>7, <2>1
<1> QED
  BY <1>4, <1>5, <1>6, <1>8, <1>9, <1>10, <1>11 DEF Next, TeachStep

\* Teaches that do not overlap: a refresh never makes a captured playbook longer,
\* whatever is judged, aged and purged in between.
THEOREM NeverLongerCorrect ==
  ASSUME NEW P, Process = {P}
  PROVE  Spec => NeverLonger
<1>1. TypeOK /\ AloneInv /\ [Next]_vars => AloneInv'
  BY AloneNext
<1>2. TypeOK /\ AloneInv /\ [Next]_vars =>
        [\A f \in Family :
           rows[f].status # "none" /\ rows'[f].status # "none"
             => rows'[f].steps <= rows[f].steps]_vars
  BY StepsShrink DEF ShrinksOnly
<1> QED
  BY <1>1, <1>2, AloneInit, TypeCorrect, PTL DEF Spec, NeverLonger

\* Teaches that do not overlap: a promotion writes a playbook only for a family that
\* has none.
THEOREM PromotionKeepsPlaybookCorrect ==
  ASSUME NEW P, Process = {P}
  PROVE  Spec => PromotionKeepsPlaybook
<1>1. TypeOK /\ AloneInv /\ [Next]_vars => AloneInv'
  BY AloneNext
<1>2. AloneInv /\ [Next]_vars =>
        [\A p \in Process :
           PromoteMaterializing(p) => playbook[held[p].sig] = NoPlaybook]_vars
  BY DEF AloneInv, LookStands, PromoteMaterializing
<1> QED
  BY <1>1, <1>2, AloneInit, TypeCorrect, PTL DEF Spec, PromotionKeepsPlaybook
=============================================================================
