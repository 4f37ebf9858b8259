---------------------------- MODULE MCLearnJournal ----------------------------
(* Instances of LearnJournal for TLC. *)
EXTENDS LearnJournal, TLC

ProcessSymmetry == Permutations(Process)
KeySymmetry == Permutations(Key)

\* bound: a third entry is composed in the first tick only, and sees no fourth
SomeDays == Len(log') > 2 => (\A i \in DOMAIN log' : log'[i].ts = 0) /\ now' <= 2
DaysSpec == Init /\ [][Next /\ SomeDays]_vars
=============================================================================
