--------------------------- MODULE ClientProfiles ---------------------------
(***************************************************************************)
(* Client profiles and the tenant gate (platform/profile.go, gate.go,      *)
(* migration.go; cli/platform_client.go; mcp/platform_gate.go), for one    *)
(* registered source.                                                      *)
(*                                                                         *)
(* A profile file names a credential by reference and the tenant it is     *)
(* expected to open.  Every invocation loads a profile and asks the        *)
(* provider whom the credential opens before it sends or reads anything;   *)
(* its responses are cached in a directory of the profile.  The migrate    *)
(* command writes a profile only behind that gate, copies a database from  *)
(* before there were profiles to the profile's place if its owner record   *)
(* is of the same tenant, and moves the old files to backups on request.   *)
(*                                                                         *)
(* A copy that was cut short has no first page, so it never verifies.      *)
(***************************************************************************)
EXTENDS Integers, FiniteSets

CONSTANTS
    Profile,        \* names of client profiles
    Tenant,
    Credential,     \* references that the resolver can resolve
    TenantOf,          \* the tenant each of them opens, which never changes
    Invoker,        \* processes: commands, tool invocations
    Invocations     \* bound: commands and tool invocations of all processes

ASSUME ProfilesAssumption ==
    TenantOf \in [Credential -> Tenant] /\ Invocations \in Nat

VARIABLES
    profile,        \* the profile files: this source's stanza in each
    hashKey,        \* the key file that fingerprints are made with: the n-th key
    responses,      \* the cached responses, with the tenant each is of
    owner,          \* the owner record of the old database
    old,            \* the old files: at their path, at their backup's
    target,         \* the database in each profile's place
    inv,            \* what each process is doing
    invocationsLeft,
    trampled,       \* TRUE once a process removed a copy another relied on
    withdrawn       \* how many keys have been removed again, after they were whole

keyVars == <<hashKey, withdrawn>>

profilesVars ==
    <<profile, keyVars, responses, owner, old, target, inv, invocationsLeft, trampled>>

None == "none"
Stanza == [expect : Tenant, ref : Credential]
NoKey == 0
Short == -1
NoStanza == [expect |-> None, ref |-> None]
Artifact == {"config", "database"}

Owner(n, expect, observed) == [name |-> n, expect |-> expect, observed |-> observed]
Nobody == Owner(None, None, None)

Gone == [state |-> "absent", by |-> None]

AtRest == [step |-> "rest", name |-> None, stanza |-> NoStanza, print |-> NoKey,
           body |-> None, known |-> FALSE, given |-> {}, status |-> [a \in Artifact |-> None],
           cleanup |-> FALSE, moved |-> {}]

ProfilesInit ==
    /\ profile \in [Profile -> Stanza \cup {NoStanza}]
    /\ hashKey \in {NoKey, 1} /\ withdrawn = 0
    /\ responses = {}
    /\ owner \in {Nobody} \cup {Owner(n, t, t) : n \in Profile, t \in Tenant}
    /\ old = [a \in Artifact |-> [path |-> TRUE, backup |-> FALSE]]
    \* a database at a profile's place that is not a copy has no owner record
    /\ target \in [Profile -> {Gone, [state |-> "other", by |-> None]}]
    /\ inv = [p \in Invoker |-> AtRest]
    /\ invocationsLeft \in 0 .. Invocations
    /\ trampled = FALSE

-----------------------------------------------------------------------------

Stands(p, step) == inv[p].step = step
Steps(p, step) == inv' = [inv EXCEPT ![p].step = step]

\* The end of a command.
Ends(p) == inv' = [inv EXCEPT ![p] = AtRest]

Invoke(p, n, step, stanza) ==
    /\ Stands(p, "rest") /\ invocationsLeft > 0
    /\ invocationsLeft' = invocationsLeft - 1
    /\ inv' = [inv EXCEPT ![p] = [AtRest EXCEPT !.step = step, !.name = n, !.stanza = stanza]]

Loads(n) == profile[n] # NoStanza

\* PrepareProfileSource: a tool invocation takes the profile its server is bound
\* to, a command the one it names or the default.
Prepare(p, n) ==
    /\ Loads(n)
    /\ Invoke(p, n, "prepared", profile[n])
    /\ UNCHANGED <<profile, keyVars, responses, owner, old, target, trampled>>

\* loadOrCreateFingerprintKey: the key file is made exclusively, then filled and
\* closed.  Who finds it short gives up; once it is filled, others use it.
OpenKey(p) ==
    /\ inv[p].step \in {"prepared", "migrate"} /\ inv[p].print = NoKey
    /\ hashKey # Short
    /\ hashKey' = IF hashKey = NoKey THEN Short ELSE hashKey
    /\ inv' = [inv EXCEPT ![p].print = hashKey']
    /\ UNCHANGED <<profile, responses, owner, old, target, invocationsLeft, trampled, withdrawn>>

\* A new key is one that was never there before.
FillKey(p) ==
    /\ inv[p].print = Short /\ hashKey = Short
    /\ hashKey' = withdrawn + 1
    /\ UNCHANGED <<profile, responses, owner, old, target, inv, invocationsLeft, trampled,
                   withdrawn>>

CloseKey(p) ==
    /\ inv[p].print = Short /\ hashKey # Short
    /\ inv' = [inv EXCEPT ![p].print = hashKey]
    /\ UNCHANGED <<profile, keyVars, responses, owner, old, target, invocationsLeft, trampled>>

\* The file cannot be filled, or not closed: it is removed, whoever uses it.
FillFails(p) ==
    /\ inv[p].print = Short
    /\ hashKey' = NoKey
    /\ withdrawn' = IF hashKey = Short THEN withdrawn ELSE hashKey
    /\ Ends(p)
    /\ UNCHANGED <<profile, responses, owner, old, target, invocationsLeft, trampled>>

Observed(p) == TenantOf[inv[p].stanza.ref]

\* compareIdentity
Identified(p) == Observed(p) = inv[p].stanza.expect

\* VerifyPreparedProfileSource, and what the command does when it succeeds.
Verify(p, from, to) ==
    /\ Stands(p, from) /\ inv[p].print \notin {NoKey, Short} /\ Identified(p)
    /\ Steps(p, to)
    /\ UNCHANGED <<profile, keyVars, responses, owner, old, target, invocationsLeft, trampled>>

\* Success; a mismatch, a probe that failed, for whichever reason, and any other
\* error that leaves everything as it is; the death of the process.
GiveUpOn(p) ==
    /\ ~Stands(p, "rest")
    /\ Ends(p)
    /\ UNCHANGED <<profile, keyVars, responses, owner, old, target, invocationsLeft, trampled>>

Fingerprint(p) == <<inv[p].print, inv[p].stanza.ref>>

\* Broken: a cached response belongs to whoever has the profile.
KeyByProfile(p) == [name |-> inv[p].name, expect |-> None, observed |-> None,
                    print |-> NoKey]

\* cacheKeyFor, with the directory it is in.
Key(p) == [name |-> inv[p].name, expect |-> inv[p].stanza.expect,
           observed |-> Observed(p), print |-> Fingerprint(p)]

Cached(p) == {r \in responses : r.key = Key(p)}

\* A GET of the bound client.
Get(p) ==
    /\ Stands(p, "verified")
    /\ IF Cached(p) # {}
       THEN /\ \E r \in Cached(p) :
                 inv' = [inv EXCEPT ![p] = [@ EXCEPT !.step = "served", !.body = r.of]]
            /\ UNCHANGED responses
       ELSE /\ responses' = responses \cup {[key |-> Key(p), of |-> Observed(p)]}
            /\ inv' = [inv EXCEPT ![p] = [@ EXCEPT !.step = "served", !.body = Observed(p)]]
    /\ UNCHANGED <<profile, keyVars, owner, old, target, invocationsLeft, trampled>>

-----------------------------------------------------------------------------
(* Managing profiles                                                       *)

\* add wants no such profile, source set wants one.
BeginWrite(p, n, stanza) ==
    /\ Invoke(p, n, "saving", stanza)
    /\ UNCHANGED <<profile, keyVars, responses, owner, old, target, trampled>>

\* A new file is renamed over the old one.
Replaced(n, stanza) == [profile EXCEPT ![n] = stanza]

SaveProfile(p, from, to) ==
    /\ Stands(p, from)
    /\ profile' = Replaced(inv[p].name, inv[p].stanza)
    /\ Steps(p, to)
    /\ UNCHANGED <<keyVars, responses, owner, old, target, invocationsLeft, trampled>>

DeleteProfile(n) ==
    /\ Loads(n)
    /\ profile' = Replaced(n, NoStanza)
    /\ UNCHANGED <<keyVars, responses, owner, old, target, inv, invocationsLeft, trampled>>

ClearCache(n) ==
    /\ Loads(n)
    /\ responses' = {r \in responses : r.key.name # n}
    /\ UNCHANGED <<profile, keyVars, owner, old, target, inv, invocationsLeft, trampled>>

-----------------------------------------------------------------------------
(* client migrate                                                          *)

\* The profile is new, or has this very stanza.
BeginMigrate(p, n, stanza) ==
    /\ profile[n] \in {NoStanza, stanza}
    /\ Invoke(p, n, "inspect", stanza)
    /\ UNCHANGED <<profile, keyVars, responses, owner, old, target, trampled>>

\* InspectLegacyMigrationPaths; a file that is at neither place is an error.
Inspect(p, given, cleanup) ==
    /\ Stands(p, "inspect")
    /\ inv' = [inv EXCEPT ![p].step = "migrate", ![p].given = given, ![p].cleanup = cleanup,
         ![p].known = profile[inv[p].name] = inv[p].stanza,
         ![p].status = [a \in Artifact |->
            IF a \notin given THEN None ELSE IF old[a].path THEN "pending" ELSE "backed up"]]
    /\ UNCHANGED <<profile, keyVars, responses, owner, old, target, invocationsLeft, trampled>>

\* alreadyMigrated leaves the file alone.
KeepProfile(p) ==
    /\ Stands(p, "gated") /\ inv[p].known
    /\ Steps(p, "adopt")
    /\ UNCHANGED <<profile, keyVars, responses, owner, old, target, invocationsLeft, trampled>>

Mine(p) == owner = Owner(inv[p].name, inv[p].stanza.expect, Observed(p))
Place(p) == target[inv[p].name]

\* VerifyTenantMetadata of the database at the profile's place.
Verifies(p) == Place(p).state = "whole" /\ Mine(p)

Settle(p, status, step) ==
    inv' = [inv EXCEPT ![p].status["database"] = status, ![p].step = step]

Quarantines(p) == ~old["database"].path \/ ~Mine(p)

\* AdoptVerifiedLegacyDatabase, up to the copy.
Adopt(p) ==
    /\ Stands(p, "adopt")
    /\ \/ inv[p].status["database"] = None /\ Steps(p, "adopted")
       \/ inv[p].status["database"] = "backed up" /\ Verifies(p) /\ Steps(p, "adopted")
       \/ /\ inv[p].status["database"] = "pending"
          /\ \/ Quarantines(p) /\ Settle(p, "quarantined", "adopted")
             \/ /\ ~Quarantines(p)
                /\ \/ Verifies(p) /\ Settle(p, "adopted", "adopted")
                   \/ Place(p).state = "absent" /\ Steps(p, "copy")
    /\ UNCHANGED <<profile, keyVars, responses, owner, old, target, invocationsLeft, trampled>>

\* VACUUM INTO
BeginCopy(p) ==
    /\ Stands(p, "copy") /\ Place(p).state = "absent"
    /\ target' = [target EXCEPT ![inv[p].name] = [state |-> "partial", by |-> p]]
    /\ Steps(p, "copying")
    /\ UNCHANGED <<profile, keyVars, responses, owner, old, invocationsLeft, trampled>>

\* The copy is complete, in the file it was begun in.
EndCopy(p) ==
    /\ Stands(p, "copying")
    /\ target' = IF Place(p) = [state |-> "partial", by |-> p]
                 THEN [target EXCEPT ![inv[p].name].state = "whole"] ELSE target
    /\ Steps(p, "copied")
    /\ UNCHANGED <<profile, keyVars, responses, owner, old, invocationsLeft, trampled>>

AcceptCopy(p) ==
    /\ Stands(p, "copied") /\ Verifies(p)
    /\ Settle(p, "adopted", "adopted")
    /\ UNCHANGED <<profile, keyVars, responses, owner, old, target, invocationsLeft, trampled>>

Relied(p) ==
    \/ Place(p).by # p \/ old["database"].backup
    \/ \E q \in Invoker \ {p} :
          inv[q].name = inv[p].name /\ inv[q].status["database"] = "adopted"

\* The copy cannot be made, as the file has appeared meanwhile, or breaks off;
\* or it cannot be secured, opened or verified.  What is at the place is removed.
CopyFails(p) ==
    /\ inv[p].step \in {"copy", "copying", "copied"}
    /\ target' = [target EXCEPT ![inv[p].name] = Gone]
    /\ trampled' = (trampled \/ (Place(p).state = "whole" /\ Relied(p)))
    /\ Ends(p)
    /\ UNCHANGED <<profile, keyVars, responses, owner, old, invocationsLeft>>

\* Broken: what is quarantined is cleaned up, too.
RefusesNone(p) == FALSE

\* BackupLegacyArtifacts: what it refuses before it moves anything.
Refuses(p) ==
    \/ inv[p].status["database"] = "quarantined"
    \/ \E a \in Artifact : inv[p].status[a] \notin {None, "backed up"} /\ old[a].backup

BeginBackup(p) ==
    /\ Stands(p, "adopted") /\ inv[p].cleanup /\ ~Refuses(p)
    /\ Steps(p, "backup")
    /\ UNCHANGED <<profile, keyVars, responses, owner, old, target, invocationsLeft, trampled>>

ToMove(p) == {a \in Artifact : inv[p].status[a] \notin {None, "backed up"}} \ inv[p].moved
Moved(a) == [old EXCEPT ![a] = [path |-> FALSE, backup |-> TRUE]]

\* The config goes first.
MoveOld(p) ==
    /\ Stands(p, "backup")
    /\ \E a \in ToMove(p) :
         /\ a = "database" => "config" \notin ToMove(p)
         /\ old[a].path
         /\ old' = Moved(a)
         /\ inv' = [inv EXCEPT ![p].moved = @ \cup {a}]
    /\ UNCHANGED <<profile, keyVars, responses, owner, target, invocationsLeft, trampled>>

\* A rename fails: those before are undone, as far as the file is still there.
MoveFails(p) ==
    /\ Stands(p, "backup") /\ ToMove(p) # {}
    /\ old' = [a \in Artifact |-> IF a \in inv[p].moved /\ old[a].backup
                                  THEN [path |-> TRUE, backup |-> FALSE] ELSE old[a]]
    /\ Ends(p)
    /\ UNCHANGED <<profile, keyVars, responses, owner, target, invocationsLeft, trampled>>

MigrateStep(p) ==
    \/ \E given \in SUBSET Artifact, cleanup \in BOOLEAN : Inspect(p, given, cleanup)
    \/ Verify(p, "migrate", "gated")
    \/ ~inv[p].known /\ SaveProfile(p, "gated", "adopt")
    \/ KeepProfile(p) \/ Adopt(p)
    \/ BeginCopy(p) \/ EndCopy(p) \/ AcceptCopy(p) \/ CopyFails(p)
    \/ BeginBackup(p) \/ MoveOld(p) \/ MoveFails(p)

GateNext ==
    \/ \E n \in Profile : DeleteProfile(n) \/ ClearCache(n)
    \/ \E p \in Invoker :
         \/ \E n \in Profile :
              Prepare(p, n) \/ \E stanza \in Stanza : BeginWrite(p, n, stanza)
         \/ Verify(p, "prepared", "verified") \/ Get(p)
         \/ OpenKey(p) \/ FillKey(p) \/ CloseKey(p) \/ FillFails(p)
         \/ SaveProfile(p, "saving", "saved") \/ GiveUpOn(p)

MigrateNext ==
    \E p \in Invoker :
       \/ \E n \in Profile, stanza \in Stanza : BeginMigrate(p, n, stanza)
       \/ OpenKey(p) \/ FillKey(p) \/ CloseKey(p) \/ FillFails(p) \/ MigrateStep(p) \/ GiveUpOn(p)

ProfilesNext == GateNext \/ MigrateNext

ProfilesSpec == ProfilesInit /\ [][ProfilesNext]_profilesVars

-----------------------------------------------------------------------------

ProfilesTypeOK ==
    /\ profile \in [Profile -> Stanza \cup {NoStanza}]
    /\ \A r \in responses : r.of \in Tenant
    /\ \A n \in Profile : target[n].state \in {"absent", "other", "partial", "whole"}
    /\ invocationsLeft \in 0 .. Invocations

\* "A response belongs to the tenant that the gate verified": whatever profiles
\* are changed, deleted and made anew in between, an invocation is answered with
\* a body of the tenant its stanza expects; and fingerprints that are in use are
\* made with the key on disk, so that nobody's cache is cut off from the others,
\* unless who made that key could not close it and removed it (profile.go:522).
ServedOwnTenant ==
    \A p \in Invoker :
        /\ inv[p].body # None => inv[p].body = inv[p].stanza.expect
        /\ inv[p].print \notin {NoKey, Short} =>
             inv[p].print = hashKey \/ inv[p].print \in 1 .. withdrawn

\* The old files are never lost: each is at its path or its backup, however
\* migrations interleave, fail and die.  A profile's place holds a copy only if
\* the owner record names that profile; and the old database is moved away only
\* behind a copy that is there, unless a failed migration of another process
\* removed it (which happens: what it removes may be a copy it has not made).
AdoptionKeeps ==
    /\ \A a \in Artifact : old[a].path # old[a].backup
    /\ \A n \in Profile : target[n].state = "whole" => owner.name = n
    /\ old["database"].backup =>
         trampled \/ \E n \in Profile : target[n].state = "whole"
=============================================================================
