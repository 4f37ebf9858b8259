------------------------------ MODULE MCLearning ------------------------------
(***************************************************************************)
(* A small instance of Learnings and of Playbooks: two countries, the name *)
(* of one within that of the other, and an alias; two resources that hold  *)
(* one of them, and queries about them and about neither.                  *)
(* In one part of the behaviours processes teach, in the other they        *)
(* refresh lookups: what a refresh inserts is to a teach a lookup like     *)
(* those it finds.                                                         *)
(* In a third, commands and starts of two releases write playbooks.        *)
(***************************************************************************)
EXTENDS Learnings, Playbooks

CONSTANTS niger, nigeria, win, beat

VARIABLE focus

learningVars == <<focus, learnVars, playbookVars>>

About(words, marked) == [words |-> words, marked |-> marked]
Odds(country) == [frame |-> "odds", holds |-> country, tail |-> ""]

SomeWords == {niger, nigeria, win, beat}
SomeParts == [w \in SomeWords |-> IF w = nigeria THEN {niger, nigeria} ELSE {w}]
SomeQueries == {About({win, niger}, {niger}), About({win, nigeria}, {nigeria}),
                About({beat, win}, {beat}),
                About({beat, niger, nigeria}, {beat}), About({nigeria}, {nigeria}),
                About({}, {})}
SomeResources == {Odds(niger), Odds(nigeria)}
SomeNames == [r \in SomeResources |-> {r.holds, beat}]
SomeTaught == {Lookup(niger, nigeria, "taught"), Lookup(nigeria, nigeria, "taught")}
SomePatterns ==
  {[words |-> {beat}, frame |-> "odds", tail |-> "", prefix |-> TRUE, kind |-> "country"]}

\* a family that both releases bring along, and one of the newer alone
SomeEmbedded ==
  [r \in Release |-> [f \in Family |->
     IF f = 1 THEN "json and notes" ELSE IF r = "r2" THEN "json" ELSE "nothing"]]

LearningInit == LearnInit /\ PlaybooksInit /\ focus \in {"teach", "refresh", "playbooks"}

LearningNext ==
  /\ UNCHANGED focus
  /\ \/ focus = "teach" /\ (TeachNext \/ DataNext) /\ UNCHANGED playbookVars
     \/ focus = "refresh" /\ (RefreshNext \/ DataNext) /\ UNCHANGED playbookVars
     \/ focus = "playbooks" /\ PlaybooksNext /\ UNCHANGED learnVars

LearningSpec == LearningInit /\ [][LearningNext]_learningVars

\* The learnings and the playbooks keep to their ranges.
LearningTypeOK == LearnTypeOK /\ PlaybooksTypeOK
=============================================================================
