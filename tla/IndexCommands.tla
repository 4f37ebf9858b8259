---------------------------- MODULE IndexCommands ----------------------------
(***************************************************************************)
(* The commands that read the icon mirror (internal/cli: set-pick, swap,   *)
(* audit, shadcn) and the one that fills it (index), each process running  *)
(* one at a time over the mirror of IconIndex.  A reader first makes sure  *)
(* the sets it needs are there (ensureIndexed), which may run a Build of   *)
(* its own, and then answers from the rows; shadcn builds nothing and asks *)
(* the API about the sets that are not there.                              *)
(*                                                                         *)
(* The name part of a reference is left out: a reader's answer about a set *)
(* is good when it looked at that set's rows.                              *)
(***************************************************************************)
EXTENDS IconIndex

CONSTANTS
  Command,      \* commands in use: [kind, sets]; sets are those it names
  Bootstrap,    \* bootstrapSets: what set-pick indexes into an empty mirror
  NoCache,      \* whether the processes run with --no-cache
  Mortal        \* processes that may be killed

ASSUME IndexCommandsAssumption ==
  /\ Command \subseteq [kind : {"index", "set-pick", "swap", "audit", "shadcn"}, sets : SUBSET Prefix]
  /\ Bootstrap \subseteq Prefix /\ Bootstrap # {}
  /\ NoCache \in BOOLEAN
  /\ \A only \in SUBSET Prefix : [only |-> only, force |-> FALSE, noCache |-> NoCache] \in Request
  /\ Mortal \subseteq Process
  /\ Tolerance > 1

VARIABLES
  cmd,          \* the command the process runs
  stage,        \* how far it is
  needed        \* the sets it will answer about from the rows

commandVars == <<cmd, stage, needed>>
allVars == <<vars, commandVars>>
NoCommand == [kind |-> "none", sets |-> {}]

CommandInit ==
  /\ Init
  /\ cmd = [b \in Process |-> NoCommand]
  /\ stage = [b \in Process |-> "none"]
  /\ needed = [b \in Process |-> {}]

MoveTo(b, s) == stage' = [stage EXCEPT ![b] = s]

Unindexed(S) == {p \in S : rows[p] = 0}

\* IconifyIndexed counts no set or no visible icon.
IndexEmpty == known = {} \/ \A p \in Prefix : rows[p] = 0

\* Build(Only: only) is called.
StartBuild(b, only) ==
  /\ Start(b, [only |-> only, force |-> FALSE, noCache |-> NoCache])
  /\ MoveTo(b, "building")

\* The process opens the mirror; set-pick answers at once unless it is empty.
Invoke(b, c) ==
  /\ stage[b] = "none"
  /\ cmd' = [cmd EXCEPT ![b] = c]
  /\ needed' = [needed EXCEPT ![b] = IF c.kind = "swap" THEN c.sets ELSE {}]
  /\ IF c.kind = "index"
     THEN StartBuild(b, c.sets)
     ELSE /\ MoveTo(b, CASE c.kind = "audit" -> "filter"
                         [] c.kind = "set-pick" /\ ~IndexEmpty -> "read"
                         [] c.kind = "shadcn" -> IF IndexEmpty THEN "read" ELSE "divide"
                         [] OTHER -> "ensure")
          /\ UNCHANGED vars

\* shadcn asks the API about its sets that have no rows, and, of an empty mirror,
\* about all.
Divide(b) ==
  /\ stage[b] = "divide"
  /\ needed' = [needed EXCEPT ![b] = cmd[b].sets \ Unindexed(cmd[b].sets)]
  /\ MoveTo(b, "read")
  /\ UNCHANGED <<vars, cmd>>

\* audit keeps the references whose prefix is in icon_sets, or in /collections
\* while icon_sets has no row.
Filter(b) ==
  LET real == IF known = {} THEN Live ELSE known
      refs == cmd[b].sets \intersect real
  IN  /\ stage[b] = "filter"
      /\ needed' = [needed EXCEPT ![b] = refs]
      /\ MoveTo(b, IF refs = {} THEN "read" ELSE "ensure")
      /\ UNCHANGED <<vars, cmd>>

\* GET /collections fails while icon_sets has no row.
FilterFails(b) ==
  /\ stage[b] = "filter" /\ known = {}
  /\ MoveTo(b, "failed")
  /\ UNCHANGED <<vars, cmd, needed>>

Answering(b) == IF cmd[b].kind = "swap" THEN "verify" ELSE "read"

\* ensureIndexed: the sets without rows are built; for set-pick, the bootstrap
\* sets, and only into an empty mirror.
EnsureIndexed(b) ==
  LET want == IF cmd[b].kind = "set-pick"
              THEN IF IndexEmpty THEN Bootstrap ELSE {}
              ELSE Unindexed(needed[b])
  IN  /\ stage[b] = "ensure"
      /\ IF want = {}
         THEN MoveTo(b, Answering(b)) /\ UNCHANGED vars
         ELSE StartBuild(b, want)
      /\ UNCHANGED <<cmd, needed>>

\* Build returns; its error is the command's.
BuildReturned(b) ==
  /\ stage[b] = "building"
  /\ MoveTo(b, CASE outcome[b] = "error" -> "failed"
                 [] outcome[b] # "error" /\ cmd[b].kind = "index" -> "answered"
                 [] OTHER -> Answering(b))
  /\ Exit(b)
  /\ UNCHANGED <<cmd, needed>>

\* Broken: only the set CrossSet indexes is looked at.
WithholdsOne(b) == Cardinality(Unindexed(needed[b])) > 1

\* swap gives no verdict when UnindexedPrefixes names one of its sets.
Withholds(b) == Unindexed(needed[b]) # {}

Verify(b) ==
  /\ stage[b] = "verify"
  /\ MoveTo(b, IF Withholds(b) THEN "withheld" ELSE "read")
  /\ UNCHANGED <<vars, cmd, needed>>

\* The answer is read from the rows, CoverageBySet, CrossSet, Resolve, or, for the
\* sets shadcn asks the API about, from a response.
Answer(b) ==
  /\ stage[b] = "read"
  /\ MoveTo(b, "answered")
  /\ UNCHANGED <<vars, cmd, needed>>

\* The command has printed its answer or its error and the process ends.
Leave(b) ==
  /\ cmd' = [cmd EXCEPT ![b] = NoCommand]
  /\ needed' = [needed EXCEPT ![b] = {}]
  /\ MoveTo(b, "none")

End(b) ==
  /\ stage[b] \in {"answered", "withheld", "failed"}
  /\ Leave(b)
  /\ UNCHANGED vars

\* The process is killed while it builds.
Kill(b) ==
  /\ b \in Mortal
  /\ stage[b] = "building"
  /\ Crash(b)
  /\ Leave(b)

CommandNext ==
  \/ World /\ UNCHANGED commandVars
  \/ \E b \in Process :
       \/ \E c \in Command : Invoke(b, c)
       \/ Filter(b) \/ FilterFails(b) \/ Divide(b)
       \/ EnsureIndexed(b)
       \/ BuildStep(b) /\ UNCHANGED commandVars
       \/ BuildReturned(b)
       \/ Verify(b)
       \/ Answer(b)
       \/ End(b)
       \/ Kill(b)

CommandSpec == CommandInit /\ [][CommandNext]_allVars

-----------------------------------------------------------------------------
(* Properties. *)

AnswerOf(b, kind) == Answer(b) /\ cmd[b].kind = kind

\* No command answers from a mirror that lacks what the answer is about, whatever
\* another process has got around to: swap compares two sets only while both have
\* rows, so an unindexed source never reads as a free migration; set-pick answers
\* only from a mirror that has icons; and audit, as long as it needs fewer than
\* Tolerance sets, and shadcn call a name missing from the index only after looking
\* at that set's rows.
AnswersLooked ==
  [][\A b \in Process :
       /\ AnswerOf(b, "swap") => Unindexed(cmd[b].sets) = {}
       /\ AnswerOf(b, "set-pick") => \E p \in Prefix : rows[p] # 0
       /\ AnswerOf(b, "audit") /\ Cardinality(needed[b]) < Tolerance
            => Unindexed(needed[b]) = {}
       /\ AnswerOf(b, "shadcn") => Unindexed(needed[b]) = {}]_allVars
=============================================================================
