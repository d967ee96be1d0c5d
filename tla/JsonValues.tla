------------------------------ MODULE JsonValues ------------------------------
(***************************************************************************)
(* JsonParser's conversions of a token's text (json_parser.hpp):           *)
(* decode_string(), and to_number() for integers.  A text is a             *)
(* sequence of bytes, positions counting from 1.  The texts are spelled    *)
(* from what a writer of JSON meant, which the result is compared with.    *)
(***************************************************************************)
EXTENDS Integers, Sequences, SequencesExt, FiniteSetsExt

CONSTANTS
    Units,          \* the UTF-16 code units written as \uXXXX
    MaxItems,       \* bound: items in a string
    NumberTypes,    \* integer types: [min, max]
    MaxDigits       \* bound: digits in a number

VARIABLES
    asked,      \* the call: op, what was meant, the text
    answer      \* what it returned; for decode_string() also `out`

vars == <<asked, answer>>

Backslash == 92
LetterU   == 117
Minus     == 45

\* The escape letters " \ / b f n r t, and the byte each stands for.
Escapes == {<<34, 34>>, <<92, 92>>, <<47, 47>>, <<98, 8>>, <<102, 12>>, <<110, 10>>,
            <<114, 13>>, <<116, 9>>}

-----------------------------------------------------------------------------
\* The value of a hex digit; -1 if c is none.
HexValue(c) ==
    CASE c \in 48 .. 57  -> c - 48
      [] c \in 97 .. 102 -> c - 97 + 10
      [] c \in 65 .. 70  -> c - 65 + 10
      [] OTHER           -> -1

\* read_hex4() at i: the code unit, or -1
ReadHex4(raw, i) ==
    LET Value(n) == HexValue(raw[i + n])
    IN  IF i + 3 > Len(raw) \/ \E n \in 0 .. 3 : Value(n) = -1 THEN -1
        ELSE Value(0) * 4096 + Value(1) * 256 + Value(2) * 16 + Value(3)

\* append_utf8(): the bytes appended
AppendUtf8(code) ==
    LET Continuation(n) == 128 + ((code \div 2^(6 * n)) % 64)
    IN  CASE code <= 127   -> <<code>>
          [] code \in 128 .. 2047 -> <<192 + (code \div 64), Continuation(0)>>
          [] code \in 2048 .. 65535 ->
                <<224 + (code \div 2^12), Continuation(1), Continuation(0)>>
          [] OTHER ->
                <<240 + (code \div 2^18), Continuation(2), Continuation(1), Continuation(0)>>

IsHigh(unit) == unit \in 55296 .. 56319     \* 0xD800 .. 0xDBFF
IsLow(unit)  == unit \in 56320 .. 57343     \* 0xDC00 .. 0xDFFF

\* Mutant: the pair is put together without its offset.
CombineUnshifted(high, low) == (high - 55296) * 1024 + (low - 56320)

\* The code point of a surrogate pair.
Combine(high, low) == 65536 + (high - 55296) * 1024 + (low - 56320)

(* decode_string(): From[i] is the outcome of the loop from i on, whether  *)
(* it succeeds and what it appends.                                        *)
DecodeString(raw) ==
    LET Fail == [ok |-> FALSE, out |-> <<>>]
        Char(i) == IF i <= Len(raw) THEN raw[i] ELSE -1
        From[i \in 1 .. Len(raw) + 1] ==
            LET After(bytes, j) == [From[j] EXCEPT !.out = bytes \o @]
                esc  == Char(i + 1)
                code == ReadHex4(raw, i + 2)
                low  == ReadHex4(raw, i + 8)
            IN  CASE i > Len(raw) -> [ok |-> TRUE, out |-> <<>>]
                  [] i <= Len(raw) /\ raw[i] # Backslash -> After(<<raw[i]>>, i + 1)
                  [] Char(i) = Backslash /\ \E e \in Escapes : e[1] = esc ->
                        After(<<(CHOOSE e \in Escapes : e[1] = esc)[2]>>, i + 2)
                  [] Char(i) = Backslash /\ esc = LetterU ->
                        IF code = -1 \/ IsLow(code) THEN Fail
                        ELSE IF ~IsHigh(code) THEN After(AppendUtf8(code), i + 6)
                        ELSE IF Char(i + 6) = Backslash /\ Char(i + 7) = LetterU /\ IsLow(low)
                        THEN After(AppendUtf8(Combine(code, low)), i + 12)
                        ELSE Fail
                  [] OTHER -> Fail
    IN  From[1]

\* std::from_chars: how far the digits go, and their value
FromChars(literal, type) ==
    LET first  == IF literal # <<>> /\ Head(literal) = Minus /\ type.min < 0 THEN 2 ELSE 1
        end    == Min({i \in first .. Len(literal) + 1 :
                         i > Len(literal) \/ literal[i] \notin 48 .. 57})
        digits == SubSeq(literal, first, end - 1)
        value  == FoldLeft(LAMBDA sum, c : 10 * sum + c - 48, 0, digits)
                    * (IF first = 2 THEN -1 ELSE 1)
    IN  [ok |-> digits # <<>> /\ value \in type.min .. type.max, value |-> value, end |-> end]

\* to_number(), parse_arithmetic()
ToNumber(literal, type) ==
    LET parsed == FromChars(literal, type)
    IN  IF parsed.ok /\ parsed.end = Len(literal) + 1
        THEN [ok |-> TRUE, value |-> parsed.value]
        ELSE [ok |-> FALSE, value |-> 0]

-----------------------------------------------------------------------------
(* What is meant, and how it is spelled. *)

HexDigit(n, upper) == IF n < 10 THEN 48 + n ELSE IF upper THEN 55 + n ELSE 87 + n

Spell(item) ==
    CASE item.kind = "char"   -> <<item.code>>
      [] item.kind = "escape" -> <<Backslash, item.code>>
      [] item.kind = "unit"   ->
            <<Backslash, LetterU>> \o [n \in 1 .. 4 |->
                HexDigit((item.code \div 16^(4 - n)) % 16, item.code % 2 = 0)]

Items ==
    {[kind |-> "char", code |-> 97], [kind |-> "char", code |-> LetterU],
     [kind |-> "escape", code |-> 34], [kind |-> "escape", code |-> 110]}
    \cup {[kind |-> "unit", code |-> u] : u \in Units}

\* Malformed ends: a lone backslash, an unknown letter, a digit too few, no hex digit.
Tails == {<<>>, <<92>>, <<92, 120>>, <<92, 117, 48, 48, 49>>, <<92, 117, 48, 48, 103, 49>>}

Decode(items, tail) ==
    LET raw == FlattenSeq([i \in DOMAIN items |-> Spell(items[i])]) \o tail
    IN  /\ asked' = [op |-> "decode", items |-> items, tail |-> tail]
        /\ answer' = DecodeString(raw)

\* A number the parser may yield: sign, digits, and what may follow them.
Number(negative, digits, suffix, type) ==
    LET literal == (IF negative THEN <<Minus>> ELSE <<>>)
                   \o [i \in DOMAIN digits |-> 48 + digits[i]] \o suffix
    IN  /\ asked' = [op |-> "number", negative |-> negative, digits |-> digits,
                     suffix |-> suffix, type |-> type]
        /\ answer' = ToNumber(literal, type)

Numerals == {d \in BoundedSeq({0, 1, 2, 8}, MaxDigits) : d # <<>> /\ (Head(d) = 0 => Len(d) = 1)}
NumberEnds == {<<>>, <<46, 48>>, <<101, 49>>}     \* nothing, ".0", "e1"

Init == asked = [op |-> "none"] /\ answer = [ok |-> FALSE]

Next ==
    /\ asked.op = "none"
    /\ \/ \E items \in BoundedSeq(Items, MaxItems), tail \in Tails : Decode(items, tail)
       \/ \E negative \in BOOLEAN, digits \in Numerals, suffix \in NumberEnds,
             type \in NumberTypes : Number(negative, digits, suffix, type)

Spec == Init /\ [][Next]_vars

-----------------------------------------------------------------------------
\* Item i is the second half of a surrogate pair (or would be one of a lone low half).
PairedLow(items, i) ==
    /\ i > 1 /\ items[i].kind = "unit" /\ IsLow(items[i].code)
    /\ items[i - 1].kind = "unit" /\ IsHigh(items[i - 1].code)

\* Every high unit has a low one behind it, and every low one a high one before it.
WellPaired(items) ==
    \A i \in DOMAIN items : items[i].kind = "unit" =>
        /\ IsHigh(items[i].code) => i < Len(items) /\ PairedLow(items, i + 1)
        /\ IsLow(items[i].code) => PairedLow(items, i)

\* The code points meant, in order (UTF-16, RFC 2781).
Meant(items) ==
    FlattenSeq([i \in DOMAIN items |->
        CASE items[i].kind = "char" -> <<items[i].code>>
          [] items[i].kind = "escape" -> <<(CHOOSE e \in Escapes : e[1] = items[i].code)[2]>>
          [] PairedLow(items, i) ->
                <<65536 + (items[i - 1].code % 1024) * 1024 + (items[i].code % 1024)>>
          [] items[i].kind = "unit" /\ IsHigh(items[i].code) -> <<>>
          [] OTHER -> <<items[i].code>>])

(* Reading UTF-8 (RFC 3629): the length by the lead byte, then the         *)
(* continuation bytes, in the shortest form; -1 is an ill-formed text.     *)
CodePoints(bytes) ==
    LET From[i \in 1 .. Len(bytes) + 1] ==
            IF i > Len(bytes) THEN <<>>
            ELSE LET lead == bytes[i]
                     n == CASE lead < 128 -> 1 [] lead \in 192 .. 223 -> 2
                            [] lead \in 224 .. 239 -> 3 [] lead \in 240 .. 247 -> 4 [] OTHER -> 0
                     least == <<0, 128, 2048, 65536>>
                     payload == IF n = 1 THEN lead ELSE lead % 2^(7 - n)
                     point == FoldLeft(LAMBDA sum, b : 64 * sum + (b % 64), payload,
                                       SubSeq(bytes, i + 1, i + n - 1))
                 IN  IF n = 0 \/ i + n - 1 > Len(bytes) THEN <<-1>>
                     ELSE IF \E j \in i + 1 .. i + n - 1 : bytes[j] \notin 128 .. 191 THEN <<-1>>
                     ELSE IF point < least[n] THEN <<-1>>
                     ELSE <<point>> \o From[i + n]
    IN  From[1]

(* decode_string() returns true for just the strings whose escapes are     *)
(* well formed and whose \u units pair up, and its output then reads, as   *)
(* UTF-8 in shortest form, as the code points that were meant.             *)
StringsExact ==
    asked.op = "decode" =>
        /\ answer.ok = (asked.tail = <<>> /\ WellPaired(asked.items))
        /\ answer.ok => CodePoints(answer.out) = Meant(asked.items)

(* to_number() returns the value of a whole integer literal that the type  *)
(* can hold, and nothing for a fraction, an exponent or an overflow.       *)
NumbersExact ==
    asked.op = "number" =>
        LET magnitude == FoldLeft(LAMBDA sum, d : 10 * sum + d, 0, asked.digits)
            value == IF asked.negative THEN -magnitude ELSE magnitude
            whole == asked.suffix = <<>> /\ (asked.negative => asked.type.min < 0)
        IN  /\ answer.ok = (whole /\ value \in asked.type.min .. asked.type.max)
            /\ answer.ok => answer.value = value

(* The conversions of a token's text give what the text means. *)
DecodeExact == StringsExact /\ NumbersExact

=============================================================================
