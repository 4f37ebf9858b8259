----------------------------- MODULE IndexMirror -----------------------------
(***************************************************************************)
(* What the mirror of internal/iconindex promises whoever reads it, with   *)
(* builds, caches and processes left out: the rows of a set are some       *)
(* version upstream has published, and they are replaced together with a   *)
(* timestamp that is no newer than they are.  A set whose timestamp is     *)
(* upstream's is therefore current, which is what lets a build skip it.    *)
(***************************************************************************)
EXTENDS Naturals

CONSTANTS Prefix, Live, MaxVersion

VARIABLES
  up,           \* upstream's version of each set
  rows,         \* version of the rows in the mirror; 0: none
  stamp         \* the timestamp recorded with them; 0: unknown

Init ==
  /\ up = [p \in Live |-> 1]
  /\ rows = [p \in Prefix |-> 0]
  /\ stamp = [p \in Prefix |-> 0]

Publish(p) ==
  /\ up[p] < MaxVersion
  /\ up' = [up EXCEPT ![p] = @ + 1]
  /\ UNCHANGED <<rows, stamp>>

\* Some build replaces the rows of p, by an older version than they had if it
\* downloaded them before another build did.
Refresh(p) ==
  \E v \in 1 .. up[p] : \E s \in 0 .. v :
    /\ rows' = [rows EXCEPT ![p] = v]
    /\ stamp' = [stamp EXCEPT ![p] = s]
    /\ UNCHANGED up

Next == \E p \in Live : Publish(p) \/ Refresh(p)

Spec == Init /\ [][Next]_<<up, rows, stamp>>
=============================================================================
