------------------------------ MODULE JsonParser ------------------------------
(***************************************************************************)
(* JsonParser (json_parser.hpp): a pull parser over one document.  next()  *)
(* is one action, with one disjunct per way through it.                    *)
(*                                                                         *)
(* A document is a sequence of symbols, one per character, except that     *)
(* "true" and "null" are whole words: the code treats what lies between    *)
(* the first and the last letter of a word as one prefix test.  "x" is any *)
(* other byte, "newline" a blank that is also a control character.         *)
(* Positions count from 1, so pos is the code's pos_ plus one.             *)
(***************************************************************************)
EXTENDS Integers, Sequences, SequencesExt, FiniteSetsExt

CONSTANTS
    Documents,      \* the documents the constructor is given
    MaxDepth

VARIABLES
    source,
    pos,
    stack,          \* the frames below depth_, innermost last
    top_level_started,
    state,          \* "new" before the constructor, then the code's State
    error_offset,
    events          \* the events returned so far

vars == <<source, pos, stack, top_level_started, state, error_offset, events>>

Quote      == "quote"
Backslash  == "backslash"
Blanks     == {"space", "newline"}
Controls   == {"newline"}
Digits     == {"0", "1"}
HexDigits  == Digits \cup {"e"}
Literals   == {"true", "null"}
\* The letters an escape may have; a word after a backslash is its first letter.
EscapeLetters == {Quote, Backslash} \cup Literals

Event(type, text) == [type |-> type, text |-> text]
Scan(ok, at) == [ok |-> ok, pos |-> at]

-----------------------------------------------------------------------------
(* The cursor. *)

Peek(p) == IF p <= Len(source) THEN source[p] ELSE "end"

SkipWhitespace(p) == Min({i \in p .. Len(source) + 1 : Peek(i) \notin Blanks})

\* A run of digits that must not be empty.
SkipDigits(p) ==
    Scan(Peek(p) \in Digits,
         Min({i \in p .. Len(source) + 1 : Peek(i) \notin Digits}))

-----------------------------------------------------------------------------
(* Scalars.  A scanner tells whether it accepts, and where it stops. *)

\* validate_escape(), at the backslash p
ValidateEscape(p) ==
    LET hex == Min({i \in 0 .. 4 : i = 4 \/ Peek(p + 2 + i) \notin HexDigits})
    IN  CASE Peek(p + 1) = "end"            -> Scan(FALSE, p)
          [] Peek(p + 1) \in EscapeLetters  -> Scan(TRUE, p + 2)
          [] Peek(p + 1) = "u"              -> Scan(hex = 4, p + 2 + hex)
          [] OTHER                          -> Scan(FALSE, p + 1)

\* scan_string(), at the opening quote
ScanString(open) ==
    LET From[p \in open + 1 .. Len(source) + 1] ==
            CASE Peek(p) = "end"        -> Scan(FALSE, open)
              [] Peek(p) = Quote        -> Scan(TRUE, p + 1)
              [] Peek(p) = Backslash    -> LET escape == ValidateEscape(p)
                                           IN  IF escape.ok THEN From[escape.pos]
                                                            ELSE escape
              [] Peek(p) \in Controls   -> Scan(FALSE, p)
              [] OTHER                  -> From[p + 1]
    IN  From[open + 1]

(* scan_number(): sign, integer part, fraction, exponent.  Each part starts *)
(* where the one before stopped, and a failed part ends the scan.           *)
ScanNumber(start) ==
    LET first    == IF Peek(start) = "-" THEN start + 1 ELSE start
        integer  == IF Peek(first) = "0" THEN Scan(TRUE, first + 1) ELSE SkipDigits(first)
        fraction == IF integer.ok /\ Peek(integer.pos) = "." THEN SkipDigits(integer.pos + 1)
                    ELSE integer
        signed   == IF Peek(fraction.pos + 1) \in {"+", "-"} THEN fraction.pos + 2
                    ELSE fraction.pos + 1
    IN  IF fraction.ok /\ Peek(fraction.pos) = "e" THEN SkipDigits(signed) ELSE fraction

-----------------------------------------------------------------------------
(* What a call of next() leaves behind: an event, or the latched error. *)

Yield(p, frames, event) ==
    /\ pos' = p /\ stack' = frames
    /\ events' = Append(events, event)
    /\ UNCHANGED <<source, state, error_offset>>

MakeError(p, frames) ==
    /\ pos' = p /\ stack' = frames
    /\ state' = "errored" /\ error_offset' = p
    /\ events' = Append(events, Event("error", <<>>))
    /\ UNCHANGED source

\* A scan that succeeded yields its event, one that failed the error.
YieldScan(scan, frames, event) ==
    IF scan.ok THEN Yield(scan.pos, frames, event) ELSE MakeError(scan.pos, frames)

OpenFrame(p, frames, is_object) ==
    \/ /\ Len(frames) >= MaxDepth
       /\ MakeError(p, frames)
    \/ /\ Len(frames) < MaxDepth
       /\ Yield(p + 1,
                Append(frames, [is_object |-> is_object, seen_element |-> FALSE,
                                expect_value |-> FALSE]),
                Event(IF is_object THEN "begin_object" ELSE "begin_array", <<>>))

CloseFrame(p, type) == Yield(p + 1, Front(stack), Event(type, <<>>))

(* start_value(), scan_literal(): the value that begins after the blanks at *)
(* `from`; frames is the stack as the caller leaves it.                     *)
StartValue(from, frames) ==
    LET p == SkipWhitespace(from)
        c == Peek(p)
        string == ScanString(p)
        number == ScanNumber(p)
    IN  \/ c = "{" /\ OpenFrame(p, frames, TRUE)
        \/ c = "[" /\ OpenFrame(p, frames, FALSE)
        \/ /\ c = Quote
           /\ YieldScan(string, frames,
                        Event("string", SubSeq(source, p + 1, string.pos - 2)))
        \/ /\ c \in Literals
           /\ Yield(p + 1, frames,
                    Event(IF c = "true" THEN "boolean" ELSE "null_value", <<c>>))
        \/ /\ c \in Digits \cup {"-"}
           /\ YieldScan(number, frames,
                        Event("number", SubSeq(source, p, number.pos - 1)))
        \/ /\ c \notin {"{", "[", Quote, "-"} \cup Literals \cup Digits
           /\ MakeError(p, frames)

-----------------------------------------------------------------------------
(* Containers. *)

Frame == Last(stack)
WithFrame(frame) == Append(Front(stack), frame)

\* Mutant: the comma between two elements may be missing.
SeparatorOptional(close) ==
    LET p == SkipWhitespace(pos)
        q == SkipWhitespace(p + 1)
    IN  IF Peek(p) # "," THEN Scan(TRUE, p)
        ELSE Scan(Peek(q) # close, q)

\* Where the next element begins: after a comma, if there was an element before.
Separator(close) ==
    LET p == SkipWhitespace(pos)
        q == SkipWhitespace(p + 1)
    IN  IF ~Frame.seen_element THEN Scan(TRUE, p)
        ELSE IF Peek(p) # "," THEN Scan(FALSE, p)
        ELSE Scan(Peek(q) # close, q)

\* The key and the colon of a member that begins at p.
Member(p) ==
    LET key   == ScanString(p)
        colon == SkipWhitespace(key.pos)
        seen  == [Frame EXCEPT !.seen_element = TRUE]
    IN  \/ Peek(p) # Quote /\ MakeError(p, WithFrame(seen))
        \/ /\ Peek(p) = Quote /\ ~key.ok
           /\ MakeError(key.pos, WithFrame(seen))
        \/ /\ Peek(p) = Quote /\ key.ok /\ Peek(colon) # ":"
           /\ MakeError(colon, WithFrame(seen))
        \/ /\ Peek(p) = Quote /\ key.ok /\ Peek(colon) = ":"
           /\ Yield(colon + 1, WithFrame([seen EXCEPT !.expect_value = TRUE]),
                    Event("key", SubSeq(source, p + 1, key.pos - 2)))

NextInObject ==
    LET p == SkipWhitespace(pos)
        separator == Separator("}")
    IN  \/ /\ Frame.expect_value
           /\ StartValue(pos, WithFrame([Frame EXCEPT !.expect_value = FALSE]))
        \/ /\ ~Frame.expect_value /\ Peek(p) = "}"
           /\ CloseFrame(p, "end_object")
        \/ /\ ~Frame.expect_value /\ Peek(p) # "}"
           /\ IF separator.ok THEN Member(separator.pos)
                              ELSE MakeError(separator.pos, stack)

NextInArray ==
    LET p == SkipWhitespace(pos)
        separator == Separator("]")
    IN  \/ Peek(p) = "]" /\ CloseFrame(p, "end_array")
        \/ /\ Peek(p) # "]"
           /\ IF separator.ok
              THEN StartValue(separator.pos, WithFrame([Frame EXCEPT !.seen_element = TRUE]))
              ELSE MakeError(separator.pos, stack)

-----------------------------------------------------------------------------
Init ==
    /\ source = <<>> /\ pos = 1 /\ stack = <<>>
    /\ top_level_started = FALSE
    /\ state = "new" /\ error_offset = 0 /\ events = <<>>

Construct(document) ==
    /\ source' = document /\ state' = "running"
    /\ UNCHANGED <<pos, stack, top_level_started, error_offset, events>>

(* next() outside every container: the one value, then only blanks. *)
NextAtTop ==
    LET p == SkipWhitespace(pos)
    IN  /\ state = "running" /\ stack = <<>>
        /\ top_level_started' = TRUE
        /\ \/ ~top_level_started /\ StartValue(pos, stack)
           \/ /\ top_level_started /\ Peek(p) # "end"
              /\ MakeError(p, stack)
           \/ /\ top_level_started /\ Peek(p) = "end"
              /\ pos' = p /\ state' = "finished"
              /\ events' = Append(events, Event("end", <<>>))
              /\ UNCHANGED <<source, stack, error_offset>>

(* next() inside a container. *)
NextInContainer ==
    /\ state = "running" /\ stack # <<>>
    /\ IF Frame.is_object THEN NextInObject ELSE NextInArray
    /\ UNCHANGED top_level_started

(* next() once the parser is done: the last event again. *)
NextAgain ==
    /\ state \in {"errored", "finished"}
    /\ UNCHANGED vars

Next ==
    \/ state = "new" /\ \E document \in Documents : Construct(document)
    \/ NextAtTop \/ NextInContainer \/ NextAgain

Spec == Init /\ [][Next]_vars

-----------------------------------------------------------------------------
(* The grammar of RFC 8259, by the shape of a text and not by a cursor. *)

Trim(s) ==
    LET ink == {i \in DOMAIN s : s[i] \notin Blanks}
    IN  IF ink = {} THEN <<>> ELSE SubSeq(s, Min(ink), Max(ink))

Rest(s, n) == SubSeq(s, n + 1, Len(s))
Inner(s)   == SubSeq(s, 2, Len(s) - 1)

Enclosed(s, open, close) == Len(s) >= 2 /\ Head(s) = open /\ Last(s) = close

RECURSIVE IsText(_)
IsText(s) ==
    \/ s = <<>>
    \/ Head(s) \notin {Quote, Backslash} \cup Controls /\ IsText(Tail(s))
    \/ /\ Len(s) >= 2 /\ s[1] = Backslash /\ s[2] \in EscapeLetters
       /\ IsText(Rest(s, 2))
    \/ /\ Len(s) >= 6 /\ s[1] = Backslash /\ s[2] = "u" /\ Range(SubSeq(s, 3, 6)) \subseteq HexDigits
       /\ IsText(Rest(s, 6))

IsString(s) == Enclosed(s, Quote, Quote) /\ IsText(Inner(s))

IsDigits(s)   == s # <<>> /\ Range(s) \subseteq Digits
IsInteger(s)  == IsDigits(s) /\ (Head(s) = "0" => Len(s) = 1)
IsFraction(s) == s = <<>> \/ (Head(s) = "." /\ IsDigits(Tail(s)))
IsExponent(s) ==
    \/ s = <<>>
    \/ Head(s) = "e" /\ (IsDigits(Tail(s)) \/ (Len(s) > 2 /\ s[2] \in {"+", "-"} /\ IsDigits(Rest(s, 2))))

IsNumber(s) ==
    LET n == IF s # <<>> /\ Head(s) = "-" THEN Tail(s) ELSE s
    IN  \E i \in 0 .. Len(n) : \E j \in i .. Len(n) :
           /\ IsInteger(SubSeq(n, 1, i))
           /\ IsFraction(SubSeq(n, i + 1, j))
           /\ IsExponent(Rest(n, j))

RECURSIVE IsValue(_, _), IsElements(_, _), IsMembers(_, _)

IsMember(s, depth) ==
    \E i \in DOMAIN s : s[i] = ":" /\ IsString(Trim(SubSeq(s, 1, i - 1)))
                                   /\ IsValue(Rest(s, i), depth)

\* A value that nests at most `depth` containers.
IsValue(text, depth) ==
    LET s == Trim(text)
        BracketedBy(open, close) == depth > 0 /\ Enclosed(s, open, close)
    IN  \/ (Len(s) = 1 /\ Head(s) \in Literals) \/ IsString(s) \/ IsNumber(s)
        \/ /\ BracketedBy("[", "]")
           /\ Trim(Inner(s)) = <<>> \/ IsElements(Inner(s), depth - 1)
        \/ /\ BracketedBy("{", "}")
           /\ Trim(Inner(s)) = <<>> \/ IsMembers(Inner(s), depth - 1)

IsElements(s, depth) ==
    \/ IsValue(s, depth)
    \/ \E i \in DOMAIN s : s[i] = "," /\ IsElements(SubSeq(s, 1, i - 1), depth)
                                      /\ IsValue(Rest(s, i), depth)

IsMembers(s, depth) ==
    \/ IsMember(s, depth)
    \/ \E i \in DOMAIN s : s[i] = "," /\ IsMembers(SubSeq(s, 1, i - 1), depth)
                                      /\ IsMember(Rest(s, i), depth)

\* The symbols an event stands for in the document.
Rendered(event) ==
    LET quoted == <<Quote>> \o event.text \o <<Quote>>
    IN  CASE event.type = "begin_object" -> <<"{">>
          [] event.type = "end_object"   -> <<"}">>
          [] event.type = "begin_array"  -> <<"[">>
          [] event.type = "end_array"    -> <<"]">>
          [] event.type = "key"          -> quoted \o <<":">>
          [] event.type = "string"       -> quoted
          [] OTHER                       -> event.text

\* Without blanks and commas, which no event stands for.
Significant(s) == SelectSeq(s, LAMBDA c : c \notin Blanks \cup {","})

TypeOK ==
    /\ state \in {"new", "running", "finished", "errored"}
    /\ pos \in 1 .. Len(source) + 1 /\ error_offset \in 0 .. Len(source) + 1
    /\ Len(stack) <= MaxDepth

(* next() keeps a few flags per frame instead of a grammar.  It still says *)
(* `end` for exactly the JSON texts of at most MaxDepth nested containers  *)
(* and `error` for exactly the others, whatever commas, colons, closing    *)
(* brackets and blanks are missing, doubled or swapped.                    *)
AcceptsJson ==
    /\ TypeOK
    /\ state = "finished" => IsValue(source, MaxDepth)
    /\ state = "errored" => ~IsValue(source, MaxDepth)

(* The events of an accepted document, rendered one after the other, are   *)
(* the document: no member, element or bracket is lost, repeated or        *)
(* reported with another's text.                                           *)
EventsRenderSource ==
    state = "finished" =>
        Significant(FlattenSeq([i \in DOMAIN events |-> Rendered(events[i])]))
            = Significant(source)

(* A parse of a document is right: its verdict and its events. *)
ParseExact == AcceptsJson /\ EventsRenderSource

=============================================================================
