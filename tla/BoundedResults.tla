--------------------------- MODULE BoundedResults ---------------------------
(***************************************************************************)
(* Tool results within a byte budget (mcp/bound/bound.go; the handlers of  *)
(* mcp/tools.go and mcp/cobratree/shellout.go that render them).           *)
(*                                                                         *)
(* An answer of the API is a list, bare or as the only array among the     *)
(* other fields of an object, or nothing bound can take apart: other JSON, *)
(* a binary body, or what a command run as a tool prints.  A handler       *)
(* with paging returns as many items as fit, and a cursor that names the   *)
(* API's page and the offset in it; a caller comes back with the cursor    *)
(* until there is none.  The API's pages name their successors, and may    *)
(* change between two calls.  Sizes are in bytes of rendered JSON.         *)
(***************************************************************************)
EXTENDS Integers, Sequences, FiniteSets

CONSTANTS
    MaxBytes,       \* the budget
    MaxItems,
    Previews,       \* lengths a preview is tried with, 0 among them
    Frame,          \* bytes of an envelope without its items
    CursorBytes,    \* bytes a cursor and the note beside it add
    Shape,          \* answers: form, bytes of other fields, sizes of items, pages
    Metadata,       \* bytes the platform's metadata adds; 0: no session
    ListChanges     \* bound: changes of the list between calls

\* What can be asked for: a bare list has no other fields, so no cursor; else a
\* page's cursor is of a later page, of none, or of itself.
ASSUME ResultsAssumption ==
    /\ MaxBytes \in Nat /\ MaxItems \in Nat \ {0} /\ ListChanges \in Nat
    /\ Previews \subseteq 0 .. MaxBytes /\ 0 \in Previews
    /\ Frame \in Nat /\ CursorBytes \in Nat /\ Frame + CursorBytes <= MaxBytes
    /\ Metadata \subseteq Nat
    /\ Shape \subseteq [form : {"array", "object", "opaque", "binary", "command"}, fields : Nat,
                       pages : Seq(Seq(Nat)), after : Seq(Nat)]
    /\ \A answers \in Shape :
         /\ answers.pages # <<>> /\ (answers.form = "array" => answers.fields = 0)
         /\ \A page \in 1 .. Len(answers.pages) :
              /\ answers.after[page] \in {0} \cup page .. Len(answers.pages)
              /\ answers.form = "array" => answers.after[page] = 0

VARIABLES
    list,           \* the answers: form, fields, pages of item sizes, after
    meta,           \* bytes of metadata, for this caller
    paged,          \* whether the handler takes cursors
    cursor,         \* what the caller comes back with
    got,            \* the items the caller has, in the order received
    result,         \* the last result
    changed         \* how often the list has changed

resultVars == <<list, meta, paged, cursor, got, result, changed>>

FirstPage == [answer |-> 1, offset |-> 0]
NoCursor == [answer |-> 0, offset |-> 0]

\* The first answer is asked for without a cursor, the others with the one that
\* names a page: the first page can be an answer twice.
Answers == 1 .. Len(list.pages) + 1
PageOf(answer) == IF answer = 1 THEN 1 ELSE answer - 1
Given == [answer \in Answers |-> list.pages[PageOf(answer)]]
Sizes(answer) == Given[answer]

Result(items, next, truncated, bytes) ==
    [items |-> items, next |-> next, truncated |-> truncated, bytes |-> bytes]
NoResult == Result(<<>>, NoCursor, TRUE, 0)

\* mcpToolError: an error result, its message cut to the budget.
Failure == Result(<<>>, NoCursor, TRUE, MaxBytes)

ResultsInit ==
    /\ list \in Shape
    /\ meta \in Metadata
    /\ paged \in BOOLEAN
    /\ cursor = FirstPage /\ got = <<>> /\ result = NoResult /\ changed = 0

-----------------------------------------------------------------------------

Largest(S) == CHOOSE n \in S : \A k \in S : k <= n
Least(a, b) == IF a < b THEN a ELSE b

Sum(sizes) ==
    LET total[i \in 0 .. Len(sizes)] == IF i = 0 THEN 0 ELSE total[i - 1] + sizes[i]
    IN total[Len(sizes)]

\* Items from..to of an answer, each named by its page and place.
Items(answer, from, to) == [i \in 1 .. (to - from + 1) |-> <<PageOf(answer), from + i - 1>>]

\* previewEnvelope: it cannot be resumed, and says so.
Preview == Result(<<>>, NoCursor, TRUE, MaxBytes)

\* The answer after this one; one that names the cursor it was asked for with, and
\* so never the first, ends the list.
NextUpstream(answer) ==
    LET next == list.after[PageOf(answer)] IN
    IF next = 0 \/ next + 1 = answer THEN 0 ELSE next + 1

\* Broken: an answer is taken to be over once it has been cut.
NextPageCursorUpstreamFirst(answer, offset) ==
    IF NextUpstream(answer) # 0 THEN [answer |-> NextUpstream(answer), offset |-> 0]
    ELSE IF offset < Len(Sizes(answer)) THEN [answer |-> answer, offset |-> offset] ELSE NoCursor

NextPageCursor(answer, offset) ==
    IF offset < Len(Sizes(answer)) THEN [answer |-> answer, offset |-> offset]
    ELSE IF NextUpstream(answer) # 0 THEN [answer |-> NextUpstream(answer), offset |-> 0]
    ELSE NoCursor

Bytes(sizes, next) ==
    Frame + list.fields + Sum(sizes) + (IF next = NoCursor THEN 0 ELSE CursorBytes)

\* What build makes of items start+1 .. start+n, or of a preview of that size.
Envelope(answer, start, n) ==
    LET next == NextPageCursor(answer, start + n) IN
    Result(Items(answer, start + 1, start + n), next, next # NoCursor,
           Bytes(SubSeq(Sizes(answer), start + 1, start + n), next))

PreviewOfItem(answer, start, bytes) ==
    LET next == NextPageCursor(answer, start + 1) IN
    Result(Items(answer, start + 1, start + 1), next, next # NoCursor,
           Bytes(<<Least(bytes, Sizes(answer)[start + 1])>>, next))

NoItems(answer) ==
    LET next == NextPageCursor(answer, Len(Sizes(answer))) IN
    Result(<<>>, next, next # NoCursor, Bytes(<<>>, next))

\* fitJSONPageItems: as many as fit; else a preview of the first; else nothing.
FitPage(answer, start) ==
    LET rest == Len(Sizes(answer)) - start
        fitting == {n \in 1 .. Least(rest, MaxItems) : Envelope(answer, start, n).bytes <= MaxBytes}
        previews == {b \in Previews : rest > 0 /\ PreviewOfItem(answer, start, b).bytes <= MaxBytes}
    IN CASE fitting # {} -> Envelope(answer, start, Largest(fitting))
         [] fitting = {} /\ previews # {} -> PreviewOfItem(answer, start, Largest(previews))
         [] OTHER -> NoItems(answer)

\* boundedPageListEnvelope: an offset past the end is at the end.
PageResult(answer, offset) ==
    LET fit == FitPage(answer, Least(offset, Len(Sizes(answer)))) IN
    IF fit.bytes <= MaxBytes THEN fit ELSE Preview

\* What an answer is in all, when it is passed through.
Whole(answer) == Bytes(Sizes(answer), NoCursor)

Shortened(answer, n) ==
    LET cut == n < Len(Sizes(answer)) IN
    Result(Items(answer, 1, n), NoCursor, cut,
           Bytes(SubSeq(Sizes(answer), 1, n), IF cut THEN FirstPage ELSE NoCursor))

\* fitJSONItems: no item at all, if need be.
FitItems(answer) ==
    LET fitting == {n \in 1 .. Least(Len(Sizes(answer)), MaxItems) :
                      Shortened(answer, n).bytes <= MaxBytes}
    IN Shortened(answer, IF fitting = {} THEN 0 ELSE Largest(fitting))

\* EndpointResponse: a bare list is always wrapped, an object only when it is
\* too large.
UnpagedResult(answer) ==
    LET all == Result(Items(answer, 1, Len(Sizes(answer))), NoCursor, FALSE, Whole(answer))
        fit == FitItems(answer)
    IN IF list.form = "array" THEN fit
       ELSE IF Whole(answer) <= MaxBytes THEN all
       ELSE IF list.form = "object" /\ fit.bytes <= MaxBytes THEN fit ELSE Preview

\* A binary body grows by a third in base64, and is never cut.
Encoded(bytes) == 4 * ((bytes + 2) \div 3)

BinaryResult(answer) ==
    LET bytes == Frame + Encoded(Sum(Sizes(answer))) IN
    IF bytes <= MaxBytes THEN Result(Items(answer, 1, Len(Sizes(answer))), NoCursor, FALSE, bytes)
    ELSE Failure

\* What is kept of a command's output: one byte more than Text lets through.
Captured(bytes) == Least(bytes, MaxBytes + 1)

CommandResult(answer) ==
    IF Captured(Whole(answer)) <= MaxBytes
    THEN Result(Items(answer, 1, Len(Sizes(answer))), NoCursor, FALSE, Whole(answer))
    ELSE Preview

\* WithMetadata: what does not fit any more is replaced, cursor and all.
WithMetadata(r) ==
    IF meta = 0 \/ r = Failure THEN r
    ELSE IF r.bytes + meta <= MaxBytes THEN [r EXCEPT !.bytes = @ + meta] ELSE Preview

\* Whether a cut can be continued.
Resumable == paged /\ list.form \in {"array", "object"}

Rendered(c) ==
    CASE list.form = "binary" -> WithMetadata(BinaryResult(c.answer))
      [] list.form = "command" -> CommandResult(c.answer)
      [] Resumable -> WithMetadata(PageResult(c.answer, c.offset))
      [] OTHER -> WithMetadata(UnpagedResult(c.answer))

\* A tool call, with the cursor of the one before.
CallTool ==
    /\ cursor # NoCursor
    /\ result' = Rendered(cursor)
    /\ got' = got \o result'.items
    /\ cursor' = result'.next
    /\ UNCHANGED <<list, meta, paged, changed>>

\* The API or the command fails: an error, and the caller still has its cursor.
CallFails ==
    /\ cursor # NoCursor
    /\ result' = Failure
    /\ UNCHANGED <<list, meta, paged, cursor, got, changed>>

\* Between two calls, a page loses its first item.
ChangeList ==
    /\ changed < ListChanges /\ cursor \notin {FirstPage, NoCursor}
    /\ \E page \in 1 .. Len(list.pages) :
         /\ list.pages[page] # <<>>
         /\ list' = [list EXCEPT !.pages[page] = Tail(@)]
    /\ changed' = changed + 1
    /\ UNCHANGED <<meta, paged, cursor, got, result>>

ResultsNext == CallTool \/ CallFails \/ ChangeList

ResultsSpec == ResultsInit /\ [][ResultsNext]_resultVars

-----------------------------------------------------------------------------

ResultsTypeOK ==
    /\ cursor \in {NoCursor} \cup [answer : Answers, offset : Nat]
    /\ changed \in 0 .. ListChanges

\* The answer that a caller comes to after another; 0: none.
Onward == [answer \in Answers |-> IF Resumable THEN NextUpstream(answer) ELSE 0]

\* The items of each answer and of those after it.
Following(answers, next) ==
    LET From[answer \in 0 .. Len(answers)] ==
          IF answer = 0 THEN <<>>
          ELSE Items(answer, 1, Len(answers[answer])) \o From[next[answer]]
    IN From

\* The first page says that it follows itself.
FirstNamesItself == Resumable /\ list.after[1] = 1

\* The list, each page once: where a page names itself, it is the last.
Complete ==
    Following(Given, [Onward EXCEPT ![1] = IF FirstNamesItself THEN 0 ELSE @])[1]

\* What a caller is given: a first page that names itself comes twice, for the
\* cursor in the answer is compared with the one sent, and none was (bound.go:301).
AllGiven == IF FirstNamesItself THEN Complete \o Complete ELSE Complete

Beginning(part, whole) == Len(part) <= Len(whole) /\ part = SubSeq(whole, 1, Len(part))

\* The other fields leave room for an empty envelope, but not for a cursor: the
\* code then ends the list without a word.
Cramped == Frame + list.fields + CursorBytes > MaxBytes

\* A result is within the budget.  What a caller has collected is always the
\* beginning of the list; a last result that is not marked as truncated completes
\* it, so that nothing is lost, repeated or reordered between the cut of an answer,
\* a preview of one large item, and the API's own next page; but a first page that
\* names itself comes twice.  Platform metadata that no longer fits takes the
\* cursor away, but says so.
ResultsHonest ==
    /\ result.bytes <= MaxBytes
    /\ changed = 0 /\ ~Cramped => Beginning(got, AllGiven)
    /\ changed = 0 /\ ~Cramped /\ ~result.truncated => got = AllGiven
=============================================================================
