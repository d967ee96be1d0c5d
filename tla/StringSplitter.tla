---------------------------- MODULE StringSplitter ----------------------------
(***************************************************************************)
(* StringSplitter (string_splitter.hpp): a forward iterator over the       *)
(* fields of a text.  A view is the position of its first character and    *)
(* its length, positions counting from 1; the iterators passed on the way  *)
(* are kept, as a caller may keep copies of a forward iterator.            *)
(***************************************************************************)
EXTENDS Integers, Sequences, FiniteSetsExt

CONSTANTS Texts, Delimiters

\* Texts and delimiters are sequences of characters, and "the delimiter must be
\* non-empty" (string_splitter.hpp:29).
Characters == UNION {Range(s) : s \in Texts \cup Delimiters}
ConstantsFit ==
    /\ \A s \in Texts \cup Delimiters : s \in Seq(Characters)
    /\ \A d \in Delimiters : d # <<>>

VARIABLES
    text, delimiter,
    it,         \* the iterator: current, cursor, final, done
    copies      \* the iterators before each operator++

vars == <<text, delimiter, it, copies>>

View(at, length) == [at |-> at, length |-> length]
Chars(view) == SubSeq(text, view.at, view.at + view.length - 1)

\* A default-constructed iterator, which is what end() returns.
End == [current |-> View(0, 0), cursor |-> 1, final |-> FALSE, done |-> TRUE]

OccursAt(t, d, i) == i + Len(d) - 1 <= Len(t) /\ SubSeq(t, i, i + Len(d) - 1) = d

\* text_.find(delimiter_, cursor_); 0 is npos
Find(t, d, cursor) ==
    LET found == {i \in cursor .. Len(t) : OccursAt(t, d, i)}
    IN  IF found = {} THEN 0 ELSE Min(found)

\* Mutant: only the first character of a delimiter is skipped.
SkipOne(at, d) == at + 1

\* Where the field after the delimiter at `at` begins.
CursorAfter(at, d) == at + Len(d)

\* advance()
Advance(i, t, d) ==
    LET at == Find(t, d, i.cursor)
    IN  IF i.final THEN [i EXCEPT !.done = TRUE, !.current = View(0, 0)]
        ELSE IF at = 0
        THEN [i EXCEPT !.current = View(i.cursor, Len(t) + 1 - i.cursor), !.final = TRUE]
        ELSE [i EXCEPT !.current = View(i.cursor, at - i.cursor), !.cursor = CursorAfter(at, d)]

\* operator==: views are compared by address and length
Equal(i, j) == IF i.done \/ j.done THEN i.done /\ j.done ELSE i.current = j.current

-----------------------------------------------------------------------------
Init == text = <<>> /\ delimiter = <<>> /\ it = End /\ copies = <<>>

(* The constructor, and begin(). *)
Begin(t, d) ==
    /\ delimiter = <<>>
    /\ text' = t /\ delimiter' = d
    /\ it' = Advance([End EXCEPT !.done = FALSE], t, d)
    /\ UNCHANGED copies

(* operator++, while the iterator is not end(). *)
Increment ==
    /\ ~Equal(it, End)
    /\ copies' = Append(copies, it)
    /\ it' = Advance(it, text, delimiter)
    /\ UNCHANGED <<text, delimiter>>

Next == (\E t \in Texts, d \in Delimiters : Begin(t, d)) \/ Increment

Spec == Init /\ [][Next]_vars

-----------------------------------------------------------------------------
Fields == [i \in DOMAIN copies |-> Chars(copies[i].current)]

Begins(i) == copies[i].current.at

(* Cut where the fields begin, the text is each field with a delimiter     *)
(* after it, and the last field, and each delimiter is the first there is: *)
(* empty fields at either end or in a row are all there, and overlapping   *)
(* occurrences are taken from the left.                                    *)
FieldsExact ==
    delimiter # <<>> /\ it.done =>
        /\ Fields # <<>>
        /\ Begins(1) = 1
        /\ \A i \in 1 .. Len(Fields) - 1 :
              /\ SubSeq(text, Begins(i), Begins(i + 1) - 1) = Fields[i] \o delimiter
              /\ Find(Fields[i] \o delimiter, delimiter, 1) = Len(Fields[i]) + 1
        /\ SubSeq(text, Begins(Len(Fields)), Len(text)) = Fields[Len(Fields)]
        /\ Find(Fields[Len(Fields)], delimiter, 1) = 0

(* Two copies compare equal just if they are at the same field, also when  *)
(* the fields are empty, and none but the iterator past the last is end(). *)
CopiesDistinct ==
    LET all == Append(copies, it)
    IN  \A i, j \in DOMAIN all : Equal(all[i], all[j]) <=> i = j

(* Splitting is exact: every field once, in order, told apart. *)
SplitExact == FieldsExact /\ (delimiter # <<>> => CopiesDistinct)

=============================================================================
