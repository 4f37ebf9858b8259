----------------------------- MODULE MCRequests -----------------------------
(***************************************************************************)
(* One run for the machines a request and its result pass through.  They  *)
(* share no variable, so a behaviour of this module is one of the machine  *)
(* in focus, with the others at rest in one of their initial states.       *)
(***************************************************************************)
EXTENDS EndpointLedger, AdaptiveLimiter, ClientRequest, BoundedResults

VARIABLE focus

requestVars == <<focus, ledgerVars, limiterVars, clientVars, resultVars>>

Op4(verb, mutating, lookup, store) ==
  [verb |-> verb, keyed |-> FALSE, readOnly |-> FALSE, mutating |-> mutating,
   lookup |-> lookup, store |-> store]

\* a cached GET, a GET past the cache, a GET that changes something, and a PUT
SomeOperations == {Op4("GET", FALSE, TRUE, TRUE), Op4("GET", FALSE, FALSE, TRUE),
                   Op4("GET", TRUE, FALSE, FALSE), Op4("PUT", FALSE, FALSE, FALSE)}

SomePolicies == {[attempts |-> 3, budget |-> 2], [attempts |-> 0, budget |-> 0]}

\* a quota of 3 requests per second, of 6, and a default of 6 that may climb
SomeLimiters == {[rate |-> 3, max |-> 3], [rate |-> 6, max |-> 6], [rate |-> 6, max |-> 0]}

\* an exhausted quota, a slow one and one that allows more than any maximum
SomeHeaders == {[remaining |-> 0, secs |-> 5], [remaining |-> 1, secs |-> 1],
                [remaining |-> 5, secs |-> 6]}

\* two calls of one caller, one of the other
CallBound == [c \in Client |-> IF c = CHOOSE d \in Client : TRUE THEN 2 ELSE 1]

\* pages cut by number, by bytes, by one large item, and empty ones; the last
\* page names itself, as some APIs have it
SomePages == {<<<<1, 1, 1, 1, 1>>, <<2, 30>>>>, <<<<5, 6, 5>>, <<>>, <<30, 30, 1>>>>}
Answer4(form, fields, pages, after) ==
  [form |-> form, fields |-> fields, pages |-> pages, after |-> after]

\* the other fields: none, many, too many for a cursor, too many for anything
SomeAnswers ==
  {Answer4("object", f, p, [i \in 1 .. Len(p) |-> IF i = Len(p) THEN i ELSE i + 1]) :
     f \in {0, 6, 14, 30}, p \in SomePages \cup {<<p[1]>> : p \in SomePages}}
  \cup {Answer4(form, 0, <<p[1]>>, <<0>>) : form \in {"array", "opaque", "binary", "command"},
     p \in SomePages \cup {<<<<1, 1>>>>}}

AnAnswer == CHOOSE a \in Shape : a.form = "array" /\ Len(a.pages[1]) = 2

RequestInit ==
  /\ focus \in {"ledger", "limiter", "client", "result"}
  /\ LedgerInit /\ LimiterInit /\ ClientInit /\ ResultsInit
  /\ focus # "result" => list = AnAnswer /\ meta = 0 /\ paged
  /\ focus # "limiter" => limiter = New([rate |-> 6, max |-> 6])
  /\ focus # "client" => setup = [mode |-> "live", policy |-> NoBudget]

Ledger(A) == focus = "ledger" /\ A /\ UNCHANGED <<focus, limiterVars, clientVars, resultVars>>
Limiter(A) == focus = "limiter" /\ A /\ UNCHANGED <<focus, ledgerVars, clientVars, resultVars>>
Requests(A) == focus = "client" /\ A /\ UNCHANGED <<focus, ledgerVars, limiterVars, resultVars>>
Bounds(A) == focus = "result" /\ A /\ UNCHANGED <<focus, ledgerVars, limiterVars, clientVars>>

RequestNext ==
  \/ Ledger(LedgerNext) \/ Limiter(LimiterNext) \/ Requests(ClientNext)
  \/ Bounds(ResultsNext)

\* the fairness of each machine, for the one in focus
RequestSpec ==
  /\ RequestInit /\ [][RequestNext]_requestVars
  /\ WF_requestVars(Ledger(LedgerTick))
  /\ \A p \in Caller : WF_requestVars(Ledger(Proceed(p)))

\* Every machine keeps to its ranges.
RequestsTypeOK == LedgerTypeOK /\ LimiterTypeOK /\ ClientTypeOK /\ ResultsTypeOK
=============================================================================
