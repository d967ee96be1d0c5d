------------------------------- MODULE CliParser -------------------------------
(***************************************************************************)
(* CliParser (cli_parser.hpp): arguments are declared, each bound to a     *)
(* variable of the caller, then command lines are parsed into the bound    *)
(* variables.  One declaration is one action, one turn of parse()'s loop   *)
(* is one action.                                                          *)
(*                                                                         *)
(* A token is a sequence of symbols: a symbol is one character or a whole  *)
(* long name, so "--count=1" is <<"-", "-", "count", "=", "1">>.  Messages *)
(* and the help text are left out.                                         *)
(***************************************************************************)
EXTENDS Integers, Sequences, SequencesExt, FiniteSetsExt

CONSTANTS
    Declarations,   \* the program's add_* calls, in order: [call, spec]
    Tokens,         \* the arguments a command line is made of
    MaxTokens,      \* bound: length of two successive command lines together
    MaxParses       \* bound: calls of parse()

VARIABLES
    declared,       \* number of add_* calls made
    options,        \* the records of options_
    positionals,    \* the records of positionals_
    bound,          \* the bound variables, by declared name
    seen,           \* names of the specs whose `seen` is set
    args,
    index,          \* args[index] is the loop's token
    positional_index,   \* positionals consumed
    options_ended,
    result,         \* "none", "parsing", "success", "help" or a CliError
    before,         \* the bound variables when parse() was called
    parses

vars == <<declared, options, positionals, bound, seen, args, index,
          positional_index, options_ended, result, before, parses>>

registry == <<declared, options, positionals>>
call     == <<args, before, parses>>

NoName  == "none"       \* an empty long name, '\0' for a short one
Default == <<>>         \* what a bound variable holds before any parse
Set     == <<"true">>   \* a flag's variable once the flag was given
Dash    == "-"
EndOfOptions == <<Dash, Dash>>
Numerals == {"1", "2"}

-----------------------------------------------------------------------------
(* Registration. *)

HelpOption ==
    [name |-> "help", long |-> "help", short |-> "h", kind |-> "help", required |-> FALSE]

TakesValue(option) == option.kind \in {"integer", "string"}

FindLong(name)   == {o \in Range(options) : o.long # NoName /\ <<o.long>> = name}
FindShort(letter) == {o \in Range(options) : o.short # NoName /\ o.short = letter}

Init ==
    /\ declared = 0 /\ options = <<HelpOption>> /\ positionals = <<>>
    /\ bound = [n \in {d.spec.name : d \in Range(Declarations)} |-> Default]
    /\ seen = {}
    /\ args = <<>> /\ index = 1 /\ positional_index = 0 /\ options_ended = FALSE
    /\ result = "none" /\ before = bound /\ parses = 0

\* make_named_spec() finds nothing to throw for.
NamesFree(spec) ==
    /\ spec.long # NoName \/ spec.short # NoName
    /\ spec.long # NoName => FindLong(<<spec.long>>) = {}
    /\ spec.short # NoName => FindShort(spec.short) = {}

(* add_flag(), add_option(): a name already taken throws and adds nothing. *)
AddOption(spec) ==
    /\ options' = IF NamesFree(spec) THEN Append(options, spec) ELSE options
    /\ UNCHANGED positionals

(* add_positional() likewise. *)
AddPositional(spec) ==
    /\ positionals' = IF spec.name \in {NoName} \cup {p.name : p \in Range(positionals)}
                      THEN positionals ELSE Append(positionals, spec)
    /\ UNCHANGED options

Declare ==
    /\ declared < Len(Declarations)
    /\ declared' = declared + 1
    /\ LET d == Declarations[declared']
       IN  IF d.call = "add_positional" THEN AddPositional(d.spec) ELSE AddOption(d.spec)
    /\ UNCHANGED <<bound, seen, args, index, positional_index, options_ended, result,
                   before, parses>>

-----------------------------------------------------------------------------
(* parse(). *)

\* cli_parse(): a number must be the whole text; a string takes anything.
Converts(spec, text) ==
    spec.kind = "integer" => Len(text) = 1 /\ Head(text) \in Numerals

\* Mutant: the seen-state of an earlier parse is kept.
SeenBefore == seen

SeenReset == {}

BeginParse(line) ==
    /\ seen' = SeenReset
    /\ args' = line /\ index' = 1 /\ positional_index' = 0 /\ options_ended' = FALSE
    /\ result' = "parsing" /\ before' = bound /\ parses' = parses + 1
    /\ UNCHANGED <<registry, bound>>

Token == args[index]

Dashed ==
    /\ ~options_ended
    /\ Len(Token) >= 2 /\ Head(Token) = Dash

IsLong == Dashed /\ Token # EndOfOptions /\ Token[2] = Dash
IsShort == Dashed /\ Token[2] # Dash

Turn == result = "parsing" /\ index <= Len(args)

\* A turn that ends the call, having set the given flags on the way.
Stop(outcome, flags) ==
    /\ result' = outcome
    /\ bound' = [n \in DOMAIN bound |-> IF n \in flags THEN Set ELSE bound[n]]
    /\ seen' = seen \cup flags
    /\ UNCHANGED <<registry, call, index, positional_index, options_ended>>

\* A turn that consumes `count` tokens, sets the flags and assigns at most one
\* spec its text (assign_option() and the assignment of consume_positional()).
Advance(count, flags, assigned, text) ==
    /\ bound' = [n \in DOMAIN bound |->
                    IF \E spec \in assigned : spec.name = n THEN text
                    ELSE IF n \in flags THEN Set ELSE bound[n]]
    /\ seen' = seen \cup flags \cup {spec.name : spec \in assigned}
    /\ index' = index + count
    /\ UNCHANGED <<registry, call, result>>

\* assign_option(), after `count` tokens and the flags of the same cluster
AssignOption(option, text, count, flags) ==
    \/ /\ Converts(option, text)
       /\ Advance(count, flags, {option}, text)
       /\ UNCHANGED <<positional_index, options_ended>>
    \/ ~Converts(option, text) /\ Stop("invalid_value", flags)

\* An option that takes the next token as its value.
TakeNext(option, flags) ==
    \/ index = Len(args) /\ Stop("missing_value", flags)
    \/ index < Len(args) /\ AssignOption(option, args[index + 1], 2, flags)

EndOptions ==
    /\ Turn /\ ~options_ended /\ Token = EndOfOptions
    /\ options_ended' = TRUE
    /\ index' = index + 1
    /\ UNCHANGED <<registry, call, bound, seen, positional_index, result>>

(* parse_long(): the name ends at the first '='. *)
ParseLong ==
    LET body   == SubSeq(Token, 3, Len(Token))
        equals == SelectInSeq(body, LAMBDA c : c = "=")
        name   == IF equals = 0 THEN body ELSE SubSeq(body, 1, equals - 1)
        value  == SubSeq(body, equals + 1, Len(body))
    IN  /\ Turn /\ IsLong
        /\ \/ FindLong(name) = {} /\ Stop("unknown_option", {})
           \/ \E option \in FindLong(name) :
                 \/ option.kind = "help" /\ Stop("help", {})
                 \/ option.kind = "flag" /\ equals > 0 /\ Stop("unexpected_value", {})
                 \/ /\ option.kind = "flag" /\ equals = 0
                    /\ Advance(1, {option.name}, {}, <<>>)
                    /\ UNCHANGED <<positional_index, options_ended>>
                 \/ TakesValue(option) /\ equals > 0 /\ AssignOption(option, value, 1, {})
                 \/ TakesValue(option) /\ equals = 0 /\ TakeNext(option, {})

\* The flags a cluster begins with, and how many symbols they are.
FlagsOf(body) == {i \in DOMAIN body : \E o \in FindShort(body[i]) : o.kind = "flag"}
LeadingFlags(body) == Max({n \in 0 .. Len(body) : 1 .. n \subseteq FlagsOf(body)})
FlagNames(body, n) == {o.name : o \in UNION {FindShort(body[i]) : i \in 1 .. n}}

(* parse_short(): flags are set as they come; a value option takes the     *)
(* rest of the cluster, or the next token if there is no rest.             *)
ParseShort ==
    LET body  == Tail(Token)
        n     == LeadingFlags(body)
        flags == FlagNames(body, n)
        found == FindShort(body[n + 1])
        rest  == SubSeq(body, n + 2, Len(body))
        value == IF Head(rest) = "=" THEN Tail(rest) ELSE rest
    IN  /\ Turn /\ IsShort
        /\ \/ /\ n = Len(body)
              /\ Advance(1, flags, {}, <<>>)
              /\ UNCHANGED <<positional_index, options_ended>>
           \/ n < Len(body) /\ found = {} /\ Stop("unknown_option", flags)
           \/ /\ n < Len(body)
              /\ \E option \in found :
                    \/ option.kind = "help" /\ Stop("help", flags)
                    \/ TakesValue(option) /\ rest # <<>> /\ AssignOption(option, value, 1, flags)
                    \/ TakesValue(option) /\ rest = <<>> /\ TakeNext(option, flags)

(* consume_positional(): the index moves even when the conversion fails. *)
ConsumePositional ==
    LET spec == positionals[positional_index + 1]
    IN  /\ Turn /\ ~IsLong /\ ~IsShort
        /\ options_ended \/ Token # EndOfOptions
        /\ \/ positional_index = Len(positionals) /\ Stop("unexpected_positional", {})
           \/ /\ positional_index < Len(positionals)
              /\ \/ /\ Converts(spec, Token)
                    /\ Advance(1, {}, {spec}, Token)
                    /\ positional_index' = positional_index + 1
                    /\ UNCHANGED options_ended
                 \/ ~Converts(spec, Token) /\ Stop("invalid_value", {})

Required == {spec \in Range(options) \cup Range(positionals) : spec.required}

(* check_required(), after the last token. *)
CheckRequired ==
    /\ result = "parsing" /\ index > Len(args)
    /\ Stop(IF \A spec \in Required : spec.name \in seen THEN "success"
                                                         ELSE "missing_required", {})

Next ==
    \/ Declare
    \/ /\ declared = Len(Declarations) /\ result # "parsing" /\ parses < MaxParses
       /\ \E line \in BoundedSeq(Tokens, MaxTokens - Len(args)) : BeginParse(line)
    \/ EndOptions \/ ParseLong \/ ParseShort \/ ConsumePositional \/ CheckRequired

Spec == Init /\ [][Next]_vars

-----------------------------------------------------------------------------
(* What a command line says, token by token and without a cursor. *)

\* The token is an option whose value is the next token.
WantsValue(token) ==
    \/ \E o \in Range(options) : TakesValue(o) /\ token = <<Dash, Dash, o.long>>
    \/ /\ token[1] = Dash /\ token[2] # Dash
       /\ \E o \in FindShort(Last(token)) : TakesValue(o)
       /\ 1 .. Len(token) - 2 \subseteq FlagsOf(Tail(token))

\* The part each argument plays: the value of the option before it, the end of
\* the options, an option or a positional.
Roles ==
    LET Role[i \in 0 .. Len(args)] ==
            IF i = 0 THEN "none"
            ELSE IF Role[i - 1] = "option" /\ WantsValue(args[i - 1]) THEN "value"
            ELSE IF \E j \in 1 .. i - 1 : Role[j] = "end" THEN "positional"
            ELSE IF args[i] = EndOfOptions THEN "end"
            ELSE IF Len(args[i]) >= 2 /\ Head(args[i]) = Dash THEN "option"
            ELSE "positional"
    IN  Role

\* The token names option o and carries its value.
Attached(token, o) ==
    \/ /\ Len(token) >= 4 /\ SubSeq(token, 1, 4) = <<Dash, Dash, o.long, "=">>
    \/ \E n \in 1 .. Len(token) - 2 :
          /\ token[2] # Dash /\ 1 .. n - 1 \subseteq FlagsOf(Tail(token)) /\ token[n + 1] = o.short

\* The text behind the name, in --name=text, -nTEXT or -n=text.
AttachedText(token, o) ==
    LET n == SelectInSeq(token, LAMBDA c : c \in {o.long, o.short})
    IN  IF token[n + 1] = "=" THEN SubSeq(token, n + 2, Len(token))
                              ELSE SubSeq(token, n + 1, Len(token))

\* The values the command line gives option o, by argument.
Given(o) ==
    LET inline   == {i \in DOMAIN args : Roles[i] = "option" /\ Attached(args[i], o)}
        separate == {i \in DOMAIN args : /\ Roles[i] = "option" /\ WantsValue(args[i])
                                         /\ Last(args[i]) \in {o.long, o.short}}
    IN  [i \in inline \cup separate |->
            IF i \in separate THEN args[i + 1] ELSE AttachedText(args[i], o)]

\* The arguments that set flag o.
Raises(o) ==
    {i \in DOMAIN args :
        /\ Roles[i] = "option"
        /\ \/ args[i] = <<Dash, Dash, o.long>>
           \/ \E n \in 2 .. Len(args[i]) :
                 /\ args[i][2] # Dash /\ args[i][n] = o.short
                 /\ 1 .. n - 1 \subseteq FlagsOf(Tail(args[i]))}

Positionals == SelectSeq([i \in DOMAIN args |-> <<Roles[i], args[i]>>],
                         LAMBDA a : a[1] = "positional")

(* A parse() that succeeds has stored what the command line says, and      *)
(* nothing else, whatever was parsed before: a value option has its last   *)
(* value, in any of its five spellings, a flag is set if any cluster or    *)
(* token names it, the n-th positional is in the n-th variable however     *)
(* options lie between them, every other variable keeps its value, and     *)
(* nothing required is missing from this command line.                     *)
SuccessMeansStored ==
    result = "success" =>
        /\ \A o \in Range(options) :
              /\ TakesValue(o) =>
                    bound[o.name] = IF DOMAIN Given(o) = {} THEN before[o.name]
                                    ELSE Given(o)[Max(DOMAIN Given(o))]
              /\ o.kind = "flag" =>
                    bound[o.name] = IF Raises(o) = {} THEN before[o.name] ELSE Set
              /\ o.required => DOMAIN Given(o) # {}
        /\ Len(Positionals) <= Len(positionals)
        /\ \A n \in DOMAIN positionals :
              /\ bound[positionals[n].name] = IF n <= Len(Positionals) THEN Positionals[n][2]
                                              ELSE before[positionals[n].name]
              /\ positionals[n].required => n <= Len(Positionals)

(* However parse() ends, a variable whose argument was not matched keeps   *)
(* its value ("keep their pre-parse values", cli_parser.hpp:207-209).      *)
UnmatchedKept ==
    result # "none" => \A n \in DOMAIN bound \ seen : bound[n] = before[n]

TypeOK ==
    /\ declared \in 0 .. Len(Declarations)
    /\ positional_index \in 0 .. Len(positionals)
    /\ index \in 1 .. Len(args) + 1
    /\ seen \subseteq DOMAIN bound

(* The bound variables are right after every parse(). *)
BoundExact == TypeOK /\ SuccessMeansStored /\ UnmatchedKept

=============================================================================
