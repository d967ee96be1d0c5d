--------------------------- MODULE StringFormatter ---------------------------
(***************************************************************************)
(* StringFormatter (string_formatter.hpp): the check of a format string    *)
(* that the compiler runs, and the rendering of a call that it accepted.   *)
(* Characters are symbols and positions count from 1.  An argument is its  *)
(* category and, for all but a bool, the text that StringBuilder or        *)
(* std::to_chars gives it.                                                 *)
(***************************************************************************)
EXTENDS Integers, Sequences, SequencesExt, FiniteSetsExt

CONSTANTS
    FormatStrings,      \* the texts at call sites
    Arguments,          \* the argument lists at call sites
    Builders            \* what a builder passed to format_to() may hold

VARIABLES
    fmt, arguments, initial,    \* the call
    verdict,            \* of check_format_string; "none yet" before the call
    out,                \* the builder
    rest,               \* what is left of the format string
    rendered,           \* arguments appended so far
    past_end            \* rest[i + 1] was read where there is none

vars == <<fmt, arguments, initial, verdict, out, rest, rendered, past_end>>

Braces == {"{", "}"}

-----------------------------------------------------------------------------
(* check_format_string(): Scan[i] is what the loop returns from i on, with *)
(* the number of placeholders before.                                      *)
CheckFormatString(text, argument_count) ==
    LET Char(i) == IF i <= Len(text) THEN text[i] ELSE "end"
        Scan[i \in 1 .. Len(text) + 2, placeholders \in 0 .. Len(text)] ==
            CASE i > Len(text) ->
                    IF placeholders = argument_count THEN "none" ELSE "argument_count_mismatch"
              [] Char(i) = "{" /\ Char(i + 1) = "{" -> Scan[i + 2, placeholders]
              [] Char(i) = "{" /\ Char(i + 1) = "}" -> Scan[i + 2, placeholders + 1]
              [] Char(i) = "{" /\ Char(i + 1) \notin Braces -> "unterminated_open_brace"
              [] Char(i) = "}" /\ Char(i + 1) = "}" -> Scan[i + 2, placeholders]
              [] Char(i) = "}" /\ Char(i + 1) # "}" -> "stray_close_brace"
              [] OTHER -> Scan[i + 1, placeholders]
    IN  Scan[1, 0]

\* append_value()
AppendValue(value) ==
    IF value.kind = "bool" THEN <<IF value.value THEN "true" ELSE "false">> ELSE value.text

\* Mutant: the brace of an escape is taken for the start of a placeholder.
IsEscapeNever(ch, next) == FALSE

\* "{{" or "}}": one literal brace
IsEscape(ch, next) == next = ch

(* advance_to_placeholder() on r: what it appends, what it leaves, whether *)
(* it consumed a placeholder and whether it read past the end.             *)
AdvanceToPlaceholder(r) ==
    LET Brace(i) == Min({j \in i .. Len(r) + 1 : j > Len(r) \/ r[j] \in Braces})
        From[i \in 1 .. Len(r) + 2] ==      \* the run that starts at i
            LET j == Brace(i)
                literal == SubSeq(r, i, j - 1)
                next == IF j < Len(r) THEN r[j + 1] ELSE "end"
            IN  IF j > Len(r)
                THEN [text |-> literal, rest |-> <<>>, found |-> FALSE, past |-> FALSE]
                ELSE IF IsEscape(r[j], next)
                THEN [From[j + 2] EXCEPT !.text = literal \o <<r[j]>> \o @]
                ELSE [text |-> literal, rest |-> SubSeq(r, j + 2, Len(r)), found |-> TRUE,
                      past |-> next = "end"]
    IN  From[1]

-----------------------------------------------------------------------------
Init ==
    /\ fmt = <<>> /\ arguments = <<>> /\ initial = <<>> /\ verdict = "none yet"
    /\ out = <<>> /\ rest = <<>> /\ rendered = 0 /\ past_end = FALSE

(* The compiler meets a call: BasicFormatString's constructor rejects it,  *)
(* or format() or format_to() begins with the builder.                     *)
Call(text, args, builder) ==
    /\ verdict = "none yet"
    /\ fmt' = text /\ arguments' = args /\ initial' = builder
    /\ verdict' = CheckFormatString(text, Len(args))
    /\ out' = builder /\ rest' = text
    /\ UNCHANGED <<rendered, past_end>>

(* append_segment(), once per argument in order. *)
AppendSegment ==
    LET step == AdvanceToPlaceholder(rest)
    IN  /\ verdict = "none" /\ rendered < Len(arguments)
        /\ out' = out \o step.text
                      \o IF step.found THEN AppendValue(arguments[rendered + 1]) ELSE <<>>
        /\ rest' = step.rest /\ rendered' = rendered + 1
        /\ past_end' = (past_end \/ step.past)
        /\ UNCHANGED <<fmt, arguments, initial, verdict>>

(* The literal run behind the last placeholder; format_to() returns. *)
AppendTrailing ==
    LET step == AdvanceToPlaceholder(rest)
    IN  /\ verdict = "none" /\ rendered = Len(arguments)
        /\ out' = out \o step.text
        /\ rest' = step.rest /\ verdict' = "returned"
        /\ past_end' = (past_end \/ step.past)
        /\ UNCHANGED <<fmt, arguments, initial, rendered>>

Next ==
    \/ \E text \in FormatStrings, args \in Arguments, builder \in Builders :
          Call(text, args, builder)
    \/ AppendSegment \/ AppendTrailing

Spec == Init /\ [][Next]_vars

-----------------------------------------------------------------------------
(* The grammar: a format string is a row of pieces. *)
Placeholder == <<"{", "}">>
Pieces == {<<"{", "{">>, <<"}", "}">>, Placeholder}

RECURSIVE Parses(_)
Parses(s) ==
    IF s = <<>> THEN {<<>>}
    ELSE UNION {{<<piece>> \o row : row \in Parses(SubSeq(s, Len(piece) + 1, Len(s)))} :
                  piece \in {p \in Pieces \cup {<<c>> : c \in Range(s) \ Braces} : IsPrefix(p, s)}}

Placeholders(row, n) == Cardinality({i \in 1 .. n : row[i] = Placeholder})

\* What the row stands for: the nth placeholder for the nth argument.
Meaning(row, args) ==
    FlattenSeq([i \in DOMAIN row |->
        IF row[i] = Placeholder THEN AppendValue(args[Placeholders(row, i)])
        ELSE <<Head(row[i])>>])

(* The compiler accepts the calls whose format string is a row of pieces   *)
(* with one placeholder per argument, and no others; an accepted call      *)
(* never reads past the end of its format string, and appends the meaning  *)
(* of the row behind what the builder held: escapes next to placeholders,  *)
(* and braces in an argument's text, included.                             *)
FormatExact ==
    LET rows == Parses(fmt)
        fits == \E row \in rows : Placeholders(row, Len(row)) = Len(arguments)
    IN  verdict # "none yet" =>
            /\ (verdict \in {"none", "returned"}) = fits
            /\ (verdict = "argument_count_mismatch") = (rows # {} /\ ~fits)
            /\ ~past_end
            /\ verdict = "returned" =>
                  /\ rest = <<>>
                  /\ \A row \in rows : out = initial \o Meaning(row, arguments)

=============================================================================
