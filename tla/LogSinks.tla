------------------------------- MODULE LogSinks -------------------------------
(***************************************************************************)
(* The logger's sinks and the line they are given (logger.cpp).  Only the  *)
(* pump calls a sink, one call at a time (Logger.tla), so a sink's calls   *)
(* are steps of one sequence.  A record is its time; its line is two       *)
(* symbols, so that a line can be torn.  Any call that writes may fail     *)
(* after some of its output has left.                                      *)
(***************************************************************************)
EXTENDS Integers, Sequences, SequencesExt

CONSTANTS
    Times,                  \* ticks of the system clock, before the epoch too
    TicksPerMillisecond, MillisecondsPerSecond,
    MaxWrites               \* bound: write() calls

\* The clock ticks at least once a millisecond, and a millisecond has three digits.
ConstantsFit ==
    /\ Times \subseteq Int
    /\ TicksPerMillisecond \in Nat \ {0} /\ MillisecondsPerSecond \in 1 .. 1000

VARIABLES
    sink,       \* the sink's type; "none" when there is none
    bad,        \* FileSink: stream_ has failed
    text,       \* what the stream took, or the datagrams that left
    filed,      \* how many symbols of the text reached the file
    socket_,    \* UdpSink: a socket is open
    accepted,   \* the records whose write() returned
    writes,
    returned    \* the last call, if it returned and did not throw

vars == <<sink, bad, text, filed, socket_, accepted, writes, returned>>

Newline == <<"newline">>
IsNewline(symbol) == symbol = Newline
TicksPerSecond == TicksPerMillisecond * MillisecondsPerSecond

-----------------------------------------------------------------------------
(* render_line() *)

\* Mutant: the seconds are cut off, not floored.
SecondPointCut(time) ==
    IF time >= 0 THEN time \div TicksPerSecond ELSE -((-time) \div TicksPerSecond)

\* std::chrono::floor<seconds>
SecondPoint(time) == time \div TicksPerSecond

\* append_padded(), for the milliseconds: three digits
Padded(value) == <<value \div 100, (value \div 10) % 10, value % 10>>

(* The stamp: the second, decomposed by gmtime, and the milliseconds after *)
(* it; where gmtime rejects times before the epoch, the bare second.       *)
Stamps(time) ==
    LET second == SecondPoint(time)
        millisecond == (time - second * TicksPerSecond) \div TicksPerMillisecond
    IN  {<<second, Padded(millisecond)>>}
        \cup (IF second < 0 THEN {<<second, <<>>>>} ELSE {})

Lines(time) == {<<<<"stamp", stamp>>, <<"message">>>> : stamp \in Stamps(time)}

-----------------------------------------------------------------------------
Init ==
    /\ sink = "none" /\ bad = FALSE /\ text = <<>> /\ filed = 0 /\ socket_ = FALSE
    /\ accepted = <<>> /\ writes = 0 /\ returned = "none"

(* The constructors.  UdpSink() makes its socket last, once the host is    *)
(* parsed and the address copied.                                          *)
Open(type) ==
    /\ sink = "none"
    /\ sink' = type /\ bad' = FALSE /\ text' = <<>> /\ filed' = 0 /\ accepted' = <<>>
    /\ socket_' = (type = "udp") /\ returned' = "open"
    /\ UNCHANGED writes

(* FileSink() throws if the file does not open, UdpSink() if the host is   *)
(* no literal, the address too long or there is no socket.                 *)
OpenThrows ==
    /\ sink = "none" /\ returned' = "threw"
    /\ UNCHANGED <<sink, bad, text, filed, socket_, accepted, writes>>

Took(record, more) ==
    /\ text' = text \o more
    /\ accepted' = Append(accepted, record)
    /\ returned' = "write"

Threw == returned' = "threw" /\ UNCHANGED accepted

(* fwrite() of the line, fputc() of the newline.  Either may fail, and the *)
(* next call goes on behind what was written.                              *)
ConsoleWrite(record) ==
    /\ sink = "console"
    /\ \/ Took(record, Append(record.line, Newline))
       \/ \E n \in 0 .. Len(record.line) :
             text' = text \o SubSeq(record.line, 1, n) /\ Threw
    /\ UNCHANGED <<bad, filed>>

(* write() and put() on the ofstream.  A failure is latched: the calls     *)
(* after it do nothing and throw.  The buffer may reach the file early.    *)
FileWrite(record) ==
    /\ sink = "file"
    /\ \/ ~bad /\ Took(record, Append(record.line, Newline)) /\ UNCHANGED bad
       \/ /\ ~bad /\ bad' = TRUE /\ Threw
          /\ \E n \in 0 .. Len(record.line) : text' = text \o SubSeq(record.line, 1, n)
       \/ bad /\ Threw /\ UNCHANGED <<bad, text>>
    /\ filed' \in filed .. IF bad THEN filed ELSE Len(text')

(* send_datagram(): the line leaves whole, or not at all. *)
UdpWrite(record) ==
    /\ sink = "udp"
    /\ \/ Took(record, <<record.line>>)
       \/ Threw /\ UNCHANGED text
    /\ UNCHANGED <<bad, filed>>

Write(time) ==
    /\ writes < MaxWrites /\ writes' = writes + 1
    /\ \E line \in Lines(time) :
          LET record == [time |-> time, line |-> line]
          IN  ConsoleWrite(record) \/ FileWrite(record) \/ UdpWrite(record)
    /\ UNCHANGED <<sink, socket_>>

(* flush(): fflush(), stream_.flush(), or nothing. *)
Flush ==
    /\ sink # "none"
    /\ \/ /\ ~bad /\ filed' = IF sink = "file" THEN Len(text) ELSE filed
          /\ returned' = "flush" /\ UNCHANGED bad
       \/ /\ sink # "udp" /\ returned' = "threw"
          /\ bad' = (sink = "file")
          /\ filed' \in filed .. IF sink = "file" /\ ~bad THEN Len(text) ELSE filed
    /\ UNCHANGED <<sink, text, socket_, accepted, writes>>

(* The sink's destructor. *)
Destroy ==
    /\ sink # "none"
    /\ sink' = "none" /\ socket_' = FALSE /\ returned' = "destroy"
    /\ UNCHANGED <<bad, text, filed, accepted, writes>>

Next ==
    \/ Open("console") \/ Open("file") \/ Open("udp") \/ OpenThrows
    \/ \E time \in Times : Write(time)
    \/ Flush \/ Destroy

Spec == Init /\ [][Next]_vars

-----------------------------------------------------------------------------
WholeLines == FlattenSeq([i \in DOMAIN accepted |-> Append(accepted[i].line, Newline)])

(* FileSink: the file is the accepted lines, whole and in order, and the   *)
(* first failure tears at most the end; once flush() returns, all of them  *)
(* are in the file and nothing is torn.                                    *)
FileLines ==
    sink = "file" =>
        /\ IsPrefix(WholeLines, text)
        /\ ~bad => text = WholeLines
        /\ returned = "flush" => ~bad /\ filed = Len(WholeLines)

(* ConsoleSink: there is one newline for each accepted record, with the    *)
(* record's line before it; a torn line can only stand before that.        *)
ConsoleLines ==
    sink = "console" =>
        LET ends == {i \in DOMAIN text : IsNewline(text[i])}
            Nth(n) == CHOOSE i \in ends : Cardinality({j \in ends : j <= i}) = n
        IN  /\ Cardinality(ends) = Len(accepted)
            /\ \A n \in DOMAIN accepted :
                  SubSeq(text, Nth(n) - Len(accepted[n].line), Nth(n) - 1) = accepted[n].line

(* UdpSink: one datagram per accepted record, and a socket just as long as *)
(* there is a sink.                                                        *)
UdpLines ==
    /\ socket_ <=> sink = "udp"
    /\ sink = "udp" => text = [i \in DOMAIN accepted |-> accepted[i].line]

(* The stamp of a line tells its record's time to the millisecond, before  *)
(* the epoch too, in three digits of which none is negative.               *)
StampsExact ==
    \A i \in DOMAIN accepted :
        LET stamp == accepted[i].line[1][2]
            millisecond == accepted[i].time \div TicksPerMillisecond
        IN  IF stamp[2] = <<>> THEN stamp[1] = millisecond \div MillisecondsPerSecond
            ELSE /\ \A d \in Range(stamp[2]) : d \in 0 .. 9
                 /\ LET value == stamp[2][1] * 100 + stamp[2][2] * 10 + stamp[2][3]
                    IN  value < MillisecondsPerSecond
                        /\ stamp[1] * MillisecondsPerSecond + value = millisecond

(* What a sink makes of the records it is given. *)
SinkLines == FileLines /\ ConsoleLines /\ UdpLines /\ StampsExact

=============================================================================
