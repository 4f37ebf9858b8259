-------------------------- MODULE CandidateLifecycle --------------------------
(***************************************************************************)
(* What the improvement candidates promise (the state machine in the head  *)
(* comment of internal/store/candidates.go): the status of a signature     *)
(* moves only along these edges, and an observation is confirmed only      *)
(* together with, or after, the artifact it stands for.                    *)
(***************************************************************************)
CONSTANTS FlagAlias, Family

VARIABLES
  status,     \* of each signature; none: no row
  artifacts   \* signatures for which a playbook row or a correction note was written

vars == <<status, artifacts>>

Signature == FlagAlias \union Family

Init ==
  /\ status = [s \in Signature |-> "none"]
  /\ artifacts = {}

Sight(s) ==
  /\ status[s] \in {"none", "expired"}
  /\ status' = [status EXCEPT ![s] = "open"]
  /\ UNCHANGED artifacts

\* The artifact is written in the same step, or was there before; the note of a
\* correction makes the row of the family it goes to
Confirm(s) ==
  /\ status[s] = "open"
  /\ status' = [status EXCEPT ![s] = "confirmed"]
  /\ \E f \in Family : /\ s \in Family => f = s
                      /\ artifacts' = artifacts \union {s, f}

\* The note of a confirmed flag correction cannot be taken back
Reject(s) ==
  /\ status[s] \in {"open", "expired"} \/ (status[s] = "confirmed" /\ s \in Family)
  /\ status' = [status EXCEPT ![s] = "rejected"]
  /\ UNCHANGED artifacts

Expire(gone) ==
  /\ \A s \in gone : status[s] = "open"
  /\ status' = [s \in Signature |-> IF s \in gone THEN "expired" ELSE status[s]]
  /\ UNCHANGED artifacts

\* Settled rows only; a tombstone only when asked for
Purge(gone) ==
  /\ \A s \in gone : status[s] # "open"
  /\ status' = [s \in Signature |-> IF s \in gone THEN "none" ELSE status[s]]
  /\ UNCHANGED artifacts

\* An agent writes the playbook of the family itself
Teach(f) ==
  /\ artifacts' = artifacts \union {f}
  /\ UNCHANGED status

Next ==
  \/ \E s \in Signature : Sight(s) \/ Confirm(s) \/ Reject(s)
  \/ \E gone \in SUBSET Signature : Expire(gone) \/ Purge(gone)
  \/ \E f \in Family : Teach(f)

Spec == Init /\ [][Next]_vars
=============================================================================
