----------------------------- MODULE MCIconIndex -----------------------------
(* Instances of IconIndex for TLC: which builds the processes run. *)
EXTENDS IconIndex, TLC

Builds(onlys, forces, noCaches) ==
  [only : onlys, force : forces, noCache : noCaches]

\* "index --no-cache", with and without --force
UncachedForced == Builds({{}}, BOOLEAN, {TRUE})

\* plain "index"
CachedBuilds == Builds({{}}, {FALSE}, {FALSE})

\* "index" of every set or, with --only, of one, listed upstream or not
CachedScoped == Builds({S \in SUBSET Prefix : Cardinality(S) <= 1}, {FALSE}, {FALSE})

ProcessSymmetry == Permutations(Process)
=============================================================================
