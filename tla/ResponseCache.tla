---------------------------- MODULE ResponseCache ----------------------------
(***************************************************************************)
(* The GET response cache of internal/client/client.go.                    *)
(*                                                                         *)
(* Every cacheable GET owns one file, named by a hash of the request, that *)
(* all processes of one user share.  A read trusts the file while its      *)
(* modification time is at most five minutes old; nothing revalidates it.  *)
(* An entry is the body last written and its age in clock ticks; an entry  *)
(* older than TTL (or a file never written) is a miss, so one age past TTL *)
(* stands for all of them.                                                 *)
(***************************************************************************)
EXTENDS Naturals

CONSTANT TTL        \* ticks a cached body is trusted for (5 minutes)

ASSUME TTLAssumption == TTL \in Nat

Entry(Body) == [body : Body, age : 0 .. TTL + 1]

\* A key nobody has written yet; "body" is never looked at.
Absent(body) == [body |-> body, age |-> TTL + 1]

\* readCacheWithHeaders: the file counts while it is at most TTL old.
Fresh(e) == e.age <= TTL

\* writeCacheWithHeaders: the new body replaces the file, and its mtime is now.
Written(body) == [body |-> body, age |-> 0]

\* One tick of the wall clock.
Aged(e) == [e EXCEPT !.age = IF e.age <= TTL THEN e.age + 1 ELSE e.age]
=============================================================================
