------------------------------ MODULE PageReply ------------------------------
(***************************************************************************)
(* What a 200 answer is taken for: a page of a list, an empty page, one    *)
(* object, or a failure in disguise.  sync (cli/sync.go) and export        *)
(* (cli/resource_paths.go) each have their own rules.                      *)
(*                                                                         *)
(* An answer is abstracted to the keys the rules tell apart, one for each  *)
(* kind, and to what a key holds.  The tables of this build declare no     *)
(* response path and no path to a cursor.                                  *)
(***************************************************************************)
EXTENDS Integers, FiniteSets, Sequences, ResourceIdentity

\* What a key holds: arrays by their first item, strings by what is read of them.
Held == {"absent", "null", "empty", "objects", "scalars", "object", "true", "false",
          "zero", "number", "text", "error", "token", "url"}

\* data, results and items stand for all names of a list; data and result for
\* those of a nested object; id, other and another for names nobody knows.
pageItemKeys == <<"data", "results", "items">>
dataEnvelopeKeys == <<"data", "result">>
pageMetadataArrayKeys == {"errors"}
pageEnvelopeMetadataKeys ==
    {"data", "results", "items", "total", "success", "status", "errors", "has_more",
     "next", "links", "meta"}
Keys == pageEnvelopeMetadataKeys \cup {"result", "_embedded", "id", "other", "another"}

Bare == [k \in Keys |-> "absent"]

\* An answer: form is "object", or what it is instead; inner is the one nested
\* object; items are those of a list of objects; full, as many as the page limit.
Answers ==
    [form : {"text", "null", "scalar", "empty", "objects", "scalars", "object"},
     top : [Keys -> Held], inner : [Keys -> Held], items : Seq(Item),
     full : BOOLEAN]

Present(e) == {k \in Keys : e[k] # "absent"}
IsList(held) == held \in {"empty", "objects", "scalars"}

-----------------------------------------------------------------------------
(* sync: the items of a page                                               *)

\* Only "items" may hold scalars, or be empty and still be the list.
extractItemsByKnownKeys(e) ==
    LET filled == {k \in Keys : e[k] = "objects" \/ (k = "items" /\ e[k] = "scalars")}
        key == FirstKey(pageItemKeys, filled)
    IN CASE key # "none" -> e[key]
         [] key = "none" /\ e.items = "empty" -> "empty"
         [] OTHER -> "none"

extractSingleObjectArraySibling(e) ==
    IF Cardinality({k \in Keys \ pageMetadataArrayKeys : e[k] = "objects"}) = 1
    THEN "objects" ELSE "none"

extractItemsFromEnvelope(e) ==
    IF extractItemsByKnownKeys(e) # "none" THEN extractItemsByKnownKeys(e)
    ELSE extractSingleObjectArraySibling(e)

\* Which object the list is looked for in: "top", "inner", "embedded" or "none".
ListAt(answer) ==
    LET nested == {k \in Keys : answer.top[k] = "object"}
        inside == extractItemsFromEnvelope(answer.inner) # "none"
    IN CASE extractItemsByKnownKeys(answer.top) # "none" -> "top"
         [] extractItemsByKnownKeys(answer.top) = "none" /\ inside
              /\ FirstKey(dataEnvelopeKeys, nested) # "none" -> "inner"
         [] OTHER -> IF inside /\ answer.top["_embedded"] = "object" THEN "embedded"
                     ELSE IF extractSingleObjectArraySibling(answer.top) # "none" THEN "top"
                     ELSE "none"

extractPageItems(answer) ==
    IF IsList(answer.form) THEN answer.form
    ELSE IF answer.form # "object" THEN "none"
    ELSE CASE ListAt(answer) = "top" -> extractItemsFromEnvelope(answer.top)
           [] ListAt(answer) \in {"inner", "embedded"} -> extractItemsFromEnvelope(answer.inner)
           [] OTHER -> "none"

nextCursorFromLinks(e) == e.links = "url"
nextCursorFromTopLevelURL(e) == e.next = "url"

\* Beside the list, or in a wrapper.
findCursorInMap(e) == e.next = "token" \/ e.meta = "token"

\* A cursor's being there means more, whatever a flag says.
extractPaginationFromEnvelope(e, cursorParam) ==
    /\ cursorParam
    /\ \/ nextCursorFromLinks(e) \/ nextCursorFromTopLevelURL(e) \/ findCursorInMap(e)
       \/ e.has_more = "true"

HasMore(answer, cursorParam) ==
    /\ answer.form = "object" /\ ListAt(answer) # "none"
    /\ \/ extractPaginationFromEnvelope(answer.top, cursorParam)
       \/ ListAt(answer) = "inner"
            /\ extractPaginationFromEnvelope(answer.inner, cursorParam)

-----------------------------------------------------------------------------
(* sync: answers without items                                             *)

\* A null flag reads as false; a flag that is no boolean is passed over.
envelopeReportsFailure(e) ==
    IF e.success \in {"true", "false", "null"} THEN e.success # "true"
    ELSE e.status = "error"

isZeroCountField(e, k) == k = "total" /\ e[k] = "zero"

isNullPageItemCandidateKey(k) ==
    k \notin pageEnvelopeMetadataKeys \/ \E i \in DOMAIN pageItemKeys : pageItemKeys[i] = k

hasExactlyOneNullArrayWithZeroCount(e) ==
    LET nulls == {k \in Keys : e[k] = "null" /\ isNullPageItemCandidateKey(k)}
    IN  /\ Cardinality(nulls) = 1
        /\ \E k \in Keys : isZeroCountField(e, k)
        /\ Present(e) \ nulls \subseteq pageEnvelopeMetadataKeys

hasExactlyOneEmptyArray(e) == Cardinality({k \in Keys : e[k] = "empty"}) = 1

\* The first known key with a list decides; a list of scalars does not count.
isEmptyPageEnvelope(e) ==
    LET key == FirstKey(pageItemKeys, {k \in Keys : e[k] \in {"empty", "objects"}})
    IN IF key # "none" THEN e[key] = "empty"
       ELSE hasExactlyOneNullArrayWithZeroCount(e) \/ hasExactlyOneEmptyArray(e)

isEmptyPageResponse(answer) ==
    \/ answer.form = "empty"
    \/ /\ answer.form = "object"
       /\ \/ isEmptyPageEnvelope(answer.top)
          \/ \E i \in DOMAIN dataEnvelopeKeys :
               answer.top[dataEnvelopeKeys[i]] = "object" /\ isEmptyPageEnvelope(answer.inner)

\* syncResource's order: failure, then no items and not JSON, then an empty
\* page, then one object; no paginator of this build is of a cursor type.
KindOf(answer) ==
    CASE answer.form = "object" /\ envelopeReportsFailure(answer.top) -> "failure"
      [] OTHER ->
           IF extractPageItems(answer) \in {"objects", "scalars"} THEN "items"
           ELSE IF answer.form = "text" THEN "text"
           ELSE IF isEmptyPageResponse(answer) THEN "empty" ELSE "object"

\* The answer's only list holds records that can be told apart.
CarriesRecords(answer) ==
    /\ Distinguished(answer.items)
    /\ \/ answer.form = "objects"
       \/ /\ answer.form = "object"
          /\ LET lists(e) == {k \in Keys : IsList(e[k])}
                 nested == \E k \in {"data", "result", "_embedded"} : answer.top[k] = "object"
             IN \E k \in Keys \ pageMetadataArrayKeys :
                  \/ lists(answer.top) = {k} /\ ~nested /\ answer.top[k] = "objects"
                  \/ lists(answer.top) = {} /\ nested
                       /\ lists(answer.inner) = {k} /\ answer.inner[k] = "objects"

-----------------------------------------------------------------------------
(* export                                                                  *)

resourceEnvelopeMetadataKeys == {"total", "links", "meta", "has_more", "errors"}

\* The only array, if nothing but metadata and nulls is beside it.
resourceSingleArray(e) ==
    LET arrays == {k \in Keys \ resourceEnvelopeMetadataKeys : IsList(e[k])}
        others == {k \in Present(e) : e[k] # "null"} \ (arrays \cup resourceEnvelopeMetadataKeys)
    IN IF Cardinality(arrays) = 1 /\ others = {} THEN e[CHOOSE k \in arrays : TRUE] ELSE "none"

ResourceList(e) ==
    LET key == FirstKey(pageItemKeys, {k \in Keys : IsList(e[k])})
    IN IF key # "none" THEN e[key] ELSE "none"

\* The kind of list an answer is exported as; "none": it is one record itself.
extractResourcePage(answer) ==
    LET top == ResourceList(answer.top)
        nested == FirstKey(dataEnvelopeKeys, {k \in Keys : answer.top[k] = "object"}) # "none"
        inner == IF ResourceList(answer.inner) # "none" THEN ResourceList(answer.inner)
                 ELSE resourceSingleArray(answer.inner)
    IN IF IsList(answer.form) THEN answer.form
       ELSE IF answer.form # "object" THEN "none"
       ELSE CASE top # "none" -> top
              [] top = "none" /\ nested /\ inner # "none" -> inner
              [] OTHER -> resourceSingleArray(answer.top)

ExportedRecords(answer) ==
    CASE extractResourcePage(answer) = "none"  -> 1
      [] extractResourcePage(answer) = "empty" -> 0
      [] OTHER -> Len(answer.items)
=============================================================================
