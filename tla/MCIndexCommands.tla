--------------------------- MODULE MCIndexCommands ---------------------------
(* Instances of IndexCommands for TLC: which commands the processes run. *)
EXTENDS IndexCommands, TLC

Requests == [only : SUBSET Prefix, force : {FALSE}, noCache : {NoCache}]

Commands(kinds, named) == [kind : kinds, sets : named]

Pairs == {S \in SUBSET Prefix : Cardinality(S) = 2}

\* index of everything or of one set, set-pick, swap of any two sets, audit of
\* any references, shadcn of names of any two sets
AllCommands ==
  Commands({"index"}, {{}} \union {{p} : p \in Live})
    \union Commands({"set-pick"}, {{}})
    \union Commands({"swap", "shadcn"}, Pairs)
    \union Commands({"audit"}, SUBSET Prefix \ {{}})

ProcessSymmetry == Permutations(Process)
=============================================================================
