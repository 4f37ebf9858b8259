-------------------------- MODULE ResourceIdentity ---------------------------
(***************************************************************************)
(* Under which identifier an item is stored (store/store.go): a stable     *)
(* one, else one named after the resource, else a descriptive one, else    *)
(* that of the one object wrapped in it.  No resource of this build        *)
(* overrides its field or is keyed by a parent.                            *)
(***************************************************************************)
EXTENDS Naturals, FiniteSets, Sequences

\* The first key of a table that is among those that pass, or "none".
FirstKey(table, passing) ==
    LET hits == {i \in DOMAIN table : table[i] \in passing}
    IN IF hits = {} THEN "none" ELSE table[CHOOSE i \in hits : \A j \in hits : i <= j]

\* What an identifying field holds: "blank" for null, an empty string or a
\* number that is none, "tree" for an object, or a value that tells items apart.
FieldValue == {"absent", "blank", "tree", "a", "b"}

\* id stands for the stable fields (_id, uuid ...), own for those named after the
\* resource (set_id, setKey ...), name for the descriptive ones (slug, code ...).
Item == [id : FieldValue, own : FieldValue, name : FieldValue, wrapped : FieldValue]

\* Broken: what an item is called comes before its own key.
NamedFirst == <<"id", "name", "own">>

Fields == <<"id", "own", "name">>

\* What is read by suffix must be a scalar.
suffixIDFieldFallback(item) == item.own \in {"a", "b"}

\* An object is read as its extended JSON or as its text, but not by suffix.
Usable(item, field) ==
    \/ field = "own" /\ suffixIDFieldFallback(item)
    \/ field # "own" /\ item[field] \in {"a", "b"}
    \/ field \in {"id", "name"} /\ item[field] = "tree"

ExtractResourceID(item) ==
    LET field == FirstKey(Fields, {f \in {"id", "own", "name"} : Usable(item, f)})
    IN IF field = "none" THEN "none" ELSE item[field]

\* unwrapIDBearingEnvelopeItem: an envelope without an identifier of its own is
\* stored under that of the object in it.
StorageID(item) ==
    CASE ExtractResourceID(item) # "none" -> ExtractResourceID(item)
      [] OTHER -> IF Usable(item, "wrapped") THEN item.wrapped ELSE "none"

\* The rows a batch leaves; items without an identifier are skipped.
RowsStored(items) == {StorageID(items[i]) : i \in DOMAIN items} \ {"none"}

\* The field that tells the items of a list apart, each with a value of its own.
TellsApart(items, field) ==
    LET values == {items[i][field] : i \in DOMAIN items}
    IN values \subseteq {"a", "b"} /\ Cardinality(values) = Len(items)

\* A list of records that can be told apart: by a stable field; or by another when
\* nothing stabler is there, nor a name before the object wrapped in them.
Distinguished(items) ==
    /\ items # <<>>
    /\ \/ TellsApart(items, "id")
       \/ \E field \in {"own", "name", "wrapped"} :
            /\ TellsApart(items, field)
            /\ \A i \in DOMAIN items, f \in {"id", "own", "name", "wrapped"} :
                 items[i][f] \notin {"absent", "blank"}
                   => f = field \/ (field = "own" /\ f = "name")
=============================================================================
