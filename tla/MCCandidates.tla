----------------------------- MODULE MCCandidates -----------------------------
(* Instances of Candidates for TLC. *)
EXTENDS Candidates, TLC

ProcessSymmetry == Permutations(Process)

\* Nothing the processes do depends on the notes or on the history
WithoutNotes == <<rows, playbook, pc, held, family, fresh>>
=============================================================================
