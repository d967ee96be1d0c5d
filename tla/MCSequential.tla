----------------------------- MODULE MCSequential -----------------------------
(***************************************************************************)
(* The components without threads of their own, in one run: they share no  *)
(* state and never call each other, so a behaviour exercises one of them,  *)
(* the active one, and leaves the others as constructed.                   *)
(***************************************************************************)
EXTENDS SequentialParts, SequencesExt

CONSTANTS
    MaxDepth,                                                       \* JsonParser
    MaxTokens, MaxParses,                                           \* CliParser
    Units, MaxItems, MaxDigits                                      \* JsonValues

VARIABLES
    active,
    source, pos, stack, top_level_started, state, error_offset, events,
    declared, options, positionals, bound, seen, args, index,
    positional_index, options_ended, result, before, parses,
    fmt, arguments, initial, verdict, out, rest, rendered, past_end,
    asked, answer

jsonVars   == <<source, pos, stack, top_level_started, state, error_offset, events>>
cliVars    == <<declared, options, positionals, bound, seen, args, index,
                positional_index, options_ended, result, before, parses>>
formatVars == <<fmt, arguments, initial, verdict, out, rest, rendered, past_end>>
valueVars  == <<asked, answer>>

-----------------------------------------------------------------------------
(* Documents: every short text over the structural symbols, and longer     *)
(* ones that begin as an object, a number, a string or an escape does.     *)
Documents ==
    LET Structure == {"{", "}", "[", "]", ",", ":", "quote", "0"}
        Member    == <<"{", "quote", "quote", ":">>
        After(prefix, symbols, n) == {prefix \o s : s \in BoundedSeq(symbols, n)}
    IN  BoundedSeq(Structure, 5)
        \cup BoundedSeq(Structure \cup {"space", "newline", "true", "null", "x"}, 3)
        \cup After(Member, Structure, 3)
        \cup After(Member \o <<"0", ",">>, Structure, 5)
        \cup BoundedSeq({"-", "0", "1", ".", "e", "+"}, 5)
        \cup After(<<"quote">>, {"quote", "backslash", "newline", "true", ","}, 4)
        \cup After(<<"quote", "backslash", "u">>, {"quote", "e", "x"}, 5)

(* A program with a flag, a required and an optional value, two            *)
(* positionals, and four declarations that throw: a long name, a short     *)
(* name and a positional declared twice, and an option without a name.     *)
Declarations ==
    LET Spec(name, long, short, kind, required) ==
            [name |-> name, long |-> long, short |-> short, kind |-> kind, required |-> required]
        Named(call, long, short, kind, required) ==
            [call |-> call, spec |-> Spec(long, long, short, kind, required)]
        Positional(name, kind, required) ==
            [call |-> "add_positional", spec |-> Spec(name, "none", "none", kind, required)]
    IN  << Named("add_flag", "verbose", "v", "flag", FALSE),
           Named("add_option", "count", "c", "integer", TRUE),
           Named("add_flag", "count", "n", "flag", FALSE),
           Named("add_option", "host", "h", "string", FALSE),
           Named("add_option", "none", "none", "string", FALSE),
           Named("add_option", "output", "o", "string", FALSE),
           Positional("input", "integer", TRUE),
           Positional("rest", "string", FALSE),
           Positional("input", "string", FALSE) >>

(* Both spellings of every option, alone, clustered and with an attached   *)
(* value; tokens that fail in each way the parser knows.                   *)
Tokens ==
    LET Long(name) == <<"-", "-", name>>
    IN  { <<"-", "-">>, Long("verbose"), Long("verbose") \o <<"=", "1">>, Long("count"),
          Long("count") \o <<"=", "2">>, Long("count") \o <<"=", "x">>, Long("help"),
          Long("host"), <<"-", "v">>, <<"-", "c">>, <<"-", "c", "x">>, <<"-", "c", "=", "2">>,
          <<"-", "v", "c", "1">>, <<"-", "v", "o">>, <<"-", "v", "h">>, <<"-", "v", "x">>,
          <<"-">>, <<"1">>, <<"2">>, <<"x">> }

(* Every short format string; an argument list with a bool, a number and a *)
(* text that reads as a placeholder; a builder that holds a brace.         *)
FormatStrings == BoundedSeq({"{", "}", "a"}, 5)
Arguments ==
    BoundedSeq({ [kind |-> "bool", value |-> FALSE], [kind |-> "integer", text |-> <<"4", "2">>],
                 [kind |-> "string", text |-> <<"{", "}">>] }, 2)
Builders == {<<>>, <<"{">>}

(* Delimiters of one to three characters, two of which overlap themselves. *)
SplitTexts == BoundedSeq({"a", "b"}, 6)
SplitDelimiters == {<<"a">>, <<"a", "a">>, <<"a", "b">>, <<"a", "b", "a">>}

NumberTypes == {[min |-> 0, max |-> 255], [min |-> -128, max |-> 127]}

(* Two seconds before the epoch to one after, on and off the boundaries. *)
SinkTimes == {-25, -24, -1, 0, 23}

-----------------------------------------------------------------------------
JP == INSTANCE JsonParser
CP == INSTANCE CliParser
SF == INSTANCE StringFormatter
JV == INSTANCE JsonValues

Init ==
    /\ active \in {"FileStream", "JsonParser", "CliParser", "CircularBuffer", "ObjectPool",
                   "FlatMap", "FlatSet", "BinarySerializer", "StackAllocator",
                   "StringSplitter", "StringFormatter", "JsonValues", "LogSinks", "Stopwatch"}
    /\ FS!Init /\ JP!Init /\ CP!Init /\ CB!Init /\ OP!Init /\ FM!Init /\ ST!Init
    /\ BS!Init /\ SA!Init /\ SS!Init /\ SF!Init /\ JV!Init /\ LS!Init /\ SW!Init

\* All but the active component stay as they are.
OthersRest ==
    /\ IF active = "FileStream"       THEN TRUE ELSE UNCHANGED fileVars
    /\ IF active = "JsonParser"       THEN TRUE ELSE UNCHANGED jsonVars
    /\ IF active = "CliParser"        THEN TRUE ELSE UNCHANGED cliVars
    /\ IF active = "CircularBuffer"   THEN TRUE ELSE UNCHANGED ringVars
    /\ IF active = "ObjectPool"       THEN TRUE ELSE UNCHANGED poolVars
    /\ IF active = "FlatMap"          THEN TRUE ELSE UNCHANGED mapVars
    /\ IF active = "FlatSet"          THEN TRUE ELSE UNCHANGED setVars
    /\ IF active = "BinarySerializer" THEN TRUE ELSE UNCHANGED binaryVars
    /\ IF active = "StackAllocator"   THEN TRUE ELSE UNCHANGED stackVars
    /\ IF active = "StringSplitter"   THEN TRUE ELSE UNCHANGED splitVars
    /\ IF active = "StringFormatter"  THEN TRUE ELSE UNCHANGED formatVars
    /\ IF active = "JsonValues"       THEN TRUE ELSE UNCHANGED valueVars
    /\ IF active = "LogSinks"         THEN TRUE ELSE UNCHANGED sinkVars
    /\ IF active = "Stopwatch"        THEN TRUE ELSE UNCHANGED watchVars

Next ==
    /\ UNCHANGED active
    /\ \/ active = "FileStream" /\ FS!Next
       \/ active = "JsonParser" /\ JP!Next
       \/ active = "CliParser" /\ CP!Next
       \/ active = "CircularBuffer" /\ CB!Next
       \/ active = "ObjectPool" /\ OP!Next
       \/ active = "FlatMap" /\ FM!Next
       \/ active = "FlatSet" /\ ST!Next
       \/ active = "BinarySerializer" /\ BS!Next
       \/ active = "StackAllocator" /\ SA!Next
       \/ active = "StringSplitter" /\ SS!Next
       \/ active = "StringFormatter" /\ SF!Next
       \/ active = "JsonValues" /\ JV!Next
       \/ active = "LogSinks" /\ LS!Next
       \/ active = "Stopwatch" /\ SW!Next
    /\ OthersRest

vars == <<active, fileVars, jsonVars, cliVars, ringVars, poolVars, mapVars, setVars,
          binaryVars, stackVars, splitVars, formatVars, valueVars, sinkVars, watchVars>>

Spec == Init /\ [][Next]_vars

-----------------------------------------------------------------------------
(* JsonParser: next() accepts the JSON texts, and its events render them. *)
ParseExact == JP!ParseExact

(* CliParser: parse() stores what the command line says and nothing else. *)
BoundExact == CP!BoundExact

(* StringFormatter: what compiles is rendered as the grammar says. *)
FormatExact == SF!FormatExact

(* JsonParser: the conversions of a token give what its text means. *)
DecodeExact == JV!DecodeExact
=============================================================================
