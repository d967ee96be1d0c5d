------------------------------ MODULE FileStream ------------------------------
(***************************************************************************)
(* FileStream (file_stream.hpp, file_stream.cpp): one buffered stream over *)
(* one OS descriptor, used from one thread.  The operating system is the   *)
(* adversary: a read may be short, fail or meet the end of the file, a     *)
(* write may fail after any prefix of the block, a close may report a late *)
(* error.  read() and read_line() refill the buffer inside a loop, so they *)
(* are several steps here; write(), flush() and close() reach the OS       *)
(* through os_write_all, whose outcomes are enumerated as a set.           *)
(*                                                                         *)
(* Bytes are numbers: existing files are made of CR, LF and Other, written *)
(* bytes carry their serial number so that a lost, repeated or reordered   *)
(* byte shows.  A moved stream is the same stream under another name;      *)
(* move assignment onto an open stream is its Destroy.  A behaviour is the *)
(* life of one stream, from the default-constructed or opened object on.   *)
(***************************************************************************)
EXTENDS Integers, Sequences, SequencesExt, FiniteSetsExt

CONSTANTS
    BufferSizes,    \* buffer_size arguments of open()
    MaxContent,     \* longest file found on disk by open()
    MaxRequest,     \* largest span passed to read() or write()
    MaxBytes,       \* bound: bytes handed to write() on one stream
    MaxFailures     \* bound: failed OS writes on one stream

ConstantsFit ==
    /\ BufferSizes \subseteq Nat /\ MaxContent \in Nat /\ MaxRequest \in Nat
    /\ MaxBytes \in Nat /\ MaxFailures \in Nat

VARIABLES
    is_open,    \* handle_ # invalid_handle
    mode_,
    size,       \* buffer_.size(), fixed by open()
    buffer,     \* read: buffer_[pos, len); write: buffer_[0, pos)
    error_,     \* error_ # 0
    eof_,
    base,       \* the file's contents once open() returned
    file,       \* the file's contents now
    offset,     \* the descriptor's read position
    pc,         \* the loop the caller is in, or "idle"
    want,       \* dst.size() of the read in progress
    from,       \* bytes of the file consumed when the last read call began
    got,        \* read: bytes copied into dst; read_line: the line so far
    tried,      \* number of bytes handed to write()
    accepted,   \* the bytes of the writes that returned true, in order
    failures,
    ret         \* outcome of the last call: [op, ok, data]

vars == <<is_open, mode_, size, buffer, error_, eof_, base, file, offset, pc,
          want, from, got, tried, accepted, failures, ret>>

writerVars == <<base, file, tried, accepted, failures>>
readerVars == <<eof_, offset, want, from, got>>
openVars   == <<is_open, mode_, size>>

Other == 97
CR    == 13
LF    == 10
FileBytes == {Other, CR, LF}
Contents  == BoundedSeq(FileBytes, MaxContent)

Returned(op, ok, data) == ret' = [op |-> op, ok |-> ok, data |-> data]

Writing  == mode_ \in {"write", "append"}
Consumed == offset - Len(buffer)    \* bytes of the file served so far

-----------------------------------------------------------------------------
(* A default-constructed stream. *)
Init ==
    /\ is_open = FALSE /\ mode_ = "read" /\ size = 0 /\ buffer = <<>>
    /\ error_ = FALSE /\ eof_ = FALSE
    /\ file = <<>> /\ base = <<>> /\ offset = 0
    /\ pc = "idle" /\ want = 0 /\ from = 0 /\ got = <<>>
    /\ tried = 0 /\ accepted = <<>> /\ failures = 0
    /\ ret = [op |-> "none", ok |-> TRUE, data |-> <<>>]

\* os_open: the file after an open that succeeds.  A missing file, opened for
\* writing, is an empty one.
OsOpen(mode, contents) == IF mode = "write" THEN <<>> ELSE contents

(* open() fills a new stream. *)
Open(mode, buffer_size, contents) ==
    /\ mode_' = mode
    /\ size' = Max({buffer_size, 1})
    /\ is_open' = TRUE
    /\ file' = OsOpen(mode, contents)
    /\ base' = file'
    /\ Returned("open", TRUE, <<>>)
    /\ UNCHANGED <<buffer, error_, readerVars, pc, tried, accepted, failures>>

(* os_open fails: the stream remembers the error and stays closed. *)
OpenFails(mode, buffer_size) ==
    /\ mode_' = mode
    /\ size' = Max({buffer_size, 1})
    /\ error_' = TRUE
    /\ Returned("open", FALSE, <<>>)
    /\ UNCHANGED <<is_open, buffer, readerVars, writerVars, pc>>

-----------------------------------------------------------------------------
(* Reading. *)

(* A call on a closed stream fails; one in the wrong direction throws.     *)
(* Neither changes the stream.                                             *)
Refused(op) ==
    /\ pc = "idle"
    /\ \/ ~is_open
       \/ op \in {"read", "line"} /\ Writing
       \/ op = "write" /\ ~Writing
    /\ Returned(op, FALSE, <<>>)
    /\ UNCHANGED <<openVars, writerVars, readerVars, buffer, error_, pc>>

BeginRead(loop, n) ==
    /\ pc = "idle" /\ is_open /\ mode_ = "read"
    /\ pc' = loop /\ want' = n /\ got' = <<>> /\ from' = Consumed
    /\ Returned("none", TRUE, <<>>)
    /\ UNCHANGED <<openVars, writerVars, buffer, error_, eof_, offset>>

NeedsFill ==
    /\ buffer = <<>>
    /\ pc = "line" \/ (pc = "read" /\ Len(got) < want)

(* fill_buffer(): os_read delivers at least one byte, at most a buffer. *)
FillOk(n) ==
    /\ NeedsFill
    /\ offset + n <= Len(file)
    /\ buffer' = SubSeq(file, offset + 1, offset + n)
    /\ offset' = offset + n
    /\ UNCHANGED <<openVars, writerVars, error_, eof_, pc, want, from, got, ret>>

AfterFailedFill == IF pc = "line" THEN "lineEnd" ELSE "readEnd"

(* fill_buffer(): os_read returns 0, the caller's loop breaks. *)
FillEof ==
    /\ NeedsFill /\ offset = Len(file)
    /\ eof_' = TRUE
    /\ pc' = AfterFailedFill
    /\ UNCHANGED <<openVars, writerVars, buffer, error_, offset, want, from, got, ret>>

(* fill_buffer(): os_read fails, the caller's loop breaks. *)
FillFails ==
    /\ NeedsFill
    /\ error_' = TRUE
    /\ pc' = AfterFailedFill
    /\ UNCHANGED <<openVars, writerVars, readerVars, buffer, ret>>

(* One turn of read()'s loop that finds bytes in the buffer. *)
ReadCopy ==
    /\ pc = "read" /\ Len(got) < want /\ buffer # <<>>
    /\ LET take == Min({Len(buffer), want - Len(got)})
       IN  /\ got' = got \o SubSeq(buffer, 1, take)
           /\ buffer' = SubSeq(buffer, take + 1, Len(buffer))
    /\ UNCHANGED <<openVars, writerVars, error_, eof_, offset, pc, want, from, ret>>

ReadReturn ==
    /\ pc = "readEnd" \/ (pc = "read" /\ Len(got) = want)
    /\ pc' = "idle"
    /\ Returned("read", ~(got = <<>> /\ error_), got)
    /\ UNCHANGED <<openVars, writerVars, readerVars, buffer, error_>>

\* What read_line() returns for the bytes before a newline.
FoldCR(line) == IF line # <<>> /\ Last(line) = CR THEN Front(line) ELSE line

\* Mutant: folds the CR of each window instead of that of the whole line.
LineOfWindow(line, window) == line \o FoldCR(window)

LineOf(line, window) == FoldCR(line \o window)

(* One turn of read_line()'s loop whose window holds a newline: the line   *)
(* is returned and the newline consumed.                                   *)
LineFound ==
    /\ pc = "line" /\ Contains(buffer, LF)
    /\ LET count == SelectInSeq(buffer, LAMBDA b : b = LF) - 1
       IN  /\ got' = LineOf(got, SubSeq(buffer, 1, count))
           /\ buffer' = SubSeq(buffer, count + 2, Len(buffer))
    /\ pc' = "idle"
    /\ Returned("line", TRUE, got')
    /\ UNCHANGED <<openVars, writerVars, error_, eof_, offset, want, from>>

(* One turn of read_line()'s loop whose whole window belongs to the line. *)
LineGoesOn ==
    /\ pc = "line" /\ buffer # <<>> /\ ~Contains(buffer, LF)
    /\ got' = got \o buffer
    /\ buffer' = <<>>
    /\ UNCHANGED <<openVars, writerVars, error_, eof_, offset, pc, want, from, ret>>

(* read_line() after a failed refill: the partial line is returned only if *)
(* the stream never met an error.                                          *)
LineReturn ==
    /\ pc = "lineEnd"
    /\ pc' = "idle"
    /\ LET ok == ~error_ /\ got # <<>>
       IN  Returned("line", ok, IF ok THEN got ELSE <<>>)
    /\ UNCHANGED <<openVars, writerVars, readerVars, buffer, error_>>

-----------------------------------------------------------------------------
(* Writing. *)

\* os_write_all: the block reaches the file, or a proper prefix and an error.
OsWriteAll(contents, src) ==
    {[ok |-> k = Len(src), file |-> contents \o SubSeq(src, 1, k)] :
        k \in IF failures < MaxFailures THEN 0 .. Len(src) ELSE {Len(src)}}

\* Mutant: the fill level is reset before the outcome is known.
FlushBufferEmptiesFirst ==
    {[ok |-> w.ok, file |-> w.file, buffer |-> <<>>] : w \in OsWriteAll(file, buffer)}

\* flush_buffer(): on error the buffer keeps all its bytes.
FlushBuffer ==
    {[ok |-> w.ok, file |-> w.file, buffer |-> IF w.ok THEN <<>> ELSE buffer] :
        w \in OsWriteAll(file, buffer)}

Failed(ok) ==
    /\ error_' = (error_ \/ ~ok)
    /\ failures' = IF ok THEN failures ELSE failures + 1

\* The next n bytes of the caller's data.
NextBytes(n) == [i \in 1 .. n |-> 100 + tried + i]

\* write() returned: its bytes are accepted or not.
WriteReturned(ok, src) ==
    /\ tried' = tried + Len(src)
    /\ accepted' = IF ok THEN accepted \o src ELSE accepted
    /\ Returned("write", ok, <<>>)
    /\ UNCHANGED <<openVars, readerVars, base, pc>>

CanWrite(n) == pc = "idle" /\ is_open /\ Writing /\ tried + n <= MaxBytes

(* A block of at least a buffer: flush what is pending, then the block. *)
WriteLarge(n) ==
    /\ CanWrite(n) /\ n >= size
    /\ LET src == NextBytes(n) IN
       \E f \in FlushBuffer :
          /\ buffer' = f.buffer
          /\ \/ /\ ~f.ok
                /\ file' = f.file /\ Failed(FALSE) /\ WriteReturned(FALSE, src)
             \/ /\ f.ok
                /\ \E w \in OsWriteAll(f.file, src) :
                      /\ file' = w.file /\ Failed(w.ok) /\ WriteReturned(w.ok, src)

(* A smaller block is buffered, after a flush if it does not fit. *)
WriteSmall(n) ==
    /\ CanWrite(n) /\ n < size
    /\ LET src == NextBytes(n) IN
       \/ /\ Len(buffer) + n <= size
          /\ buffer' = buffer \o src
          /\ WriteReturned(TRUE, src)
          /\ UNCHANGED <<file, error_, failures>>
       \/ /\ Len(buffer) + n > size
          /\ \E f \in FlushBuffer :
                /\ file' = f.file /\ Failed(f.ok) /\ WriteReturned(f.ok, src)
                /\ buffer' = IF f.ok THEN src ELSE f.buffer

(* flush(): nothing to do in read mode, false on a closed stream. *)
Flush ==
    /\ pc = "idle"
    /\ \/ /\ is_open /\ Writing
          /\ \E f \in FlushBuffer :
                /\ file' = f.file /\ buffer' = f.buffer
                /\ Failed(f.ok)
                /\ Returned("flush", f.ok, <<>>)
       \/ /\ ~(is_open /\ Writing)
          /\ Returned("flush", is_open, <<>>)
          /\ UNCHANGED <<file, buffer, error_, failures>>
    /\ UNCHANGED <<openVars, readerVars, base, tried, accepted, pc>>

\* close() of an open stream: the flush, then os_close, whatever the flush said.
CloseWith(op, closed) ==
    /\ \E f \in IF Writing THEN FlushBuffer
                ELSE {[ok |-> TRUE, file |-> file, buffer |-> <<>>]} :
          /\ file' = f.file
          /\ failures' = IF f.ok THEN failures ELSE failures + 1
          /\ error_' = (error_ \/ ~f.ok \/ ~closed)
          /\ Returned(op, f.ok /\ closed, <<>>)
    /\ is_open' = FALSE
    /\ buffer' = <<>>
    /\ UNCHANGED <<mode_, size, eof_, offset, base, pc, want, from, got, tried, accepted>>

(* close(); closing a closed stream again succeeds and does nothing. *)
Close ==
    /\ pc = "idle"
    /\ \/ is_open /\ \E closed \in BOOLEAN : CloseWith("close", closed)
       \/ /\ ~is_open /\ Returned("close again", TRUE, <<>>)
          /\ UNCHANGED <<openVars, readerVars, writerVars, buffer, error_, pc>>

(* The destructor, or a move assignment onto the stream: close() with its  *)
(* result dropped.                                                         *)
Destroy ==
    /\ pc = "idle" /\ is_open
    /\ \E closed \in BOOLEAN : CloseWith("destroy", closed)

-----------------------------------------------------------------------------
(* A read in progress goes on. *)
ReadStep ==
    \/ \E n \in 1 .. size : FillOk(n)
    \/ FillEof
    \/ ReadCopy \/ ReadReturn
    \/ LineFound \/ LineGoesOn \/ LineReturn

Next ==
    \/ size = 0    \* never opened: buffer_ is still empty
       /\ \E mode \in {"read", "append", "write"}, s \in BufferSizes :
          \/ \E contents \in Contents : Open(mode, s, contents)
          \/ OpenFails(mode, s)
    \/ \E op \in {"read", "line", "write"} : Refused(op)
    \/ \E n \in 0 .. MaxRequest : BeginRead("read", n)
    \/ BeginRead("line", 0)
    \/ ReadStep \/ FillFails
    \/ \E n \in 0 .. MaxRequest : WriteLarge(n) \/ WriteSmall(n)
    \/ Flush \/ Close \/ Destroy

Spec == Init /\ [][Next]_vars

-----------------------------------------------------------------------------
TypeOK ==
    /\ is_open \in BOOLEAN /\ error_ \in BOOLEAN /\ eof_ \in BOOLEAN
    /\ mode_ \in {"read", "write", "append"}
    /\ pc \in {"idle", "read", "readEnd", "line", "lineEnd"}
    /\ is_open => size > 0
    /\ Len(buffer) <= size
    /\ offset \in 0 .. Len(file) /\ from \in 0 .. offset
    /\ pc \in {"read", "readEnd"} => Len(got) <= want
    /\ failures \in 0 .. MaxFailures /\ tried \in 0 .. MaxBytes

\* The accepted bytes are all in s, their last copies in the caller's order.
HoldsAccepted(s) ==
    LET LastCopy(b) == Max({0} \cup {i \in DOMAIN s : s[i] = b})
    IN  /\ \A b \in Range(accepted) : LastCopy(b) > 0
        /\ \A i, j \in DOMAIN accepted :
              i < j => LastCopy(accepted[i]) < LastCopy(accepted[j])

(* Large blocks go round the buffer and small ones through it, and yet     *)
(* (write(), file_stream.cpp:324-353) as long as no OS call has failed the *)
(* file followed by the buffer is what was there at open() followed by     *)
(* everything write() accepted, in the caller's order.                     *)
BytesInOrder ==
    is_open /\ Writing /\ ~error_ => file \o buffer = base \o accepted

(* After failures too: what open() found stays, and a byte write() said    *)
(* true for is in the file or still pending (flush_buffer() keeps the      *)
(* whole buffer when os_write_all fails half way), none overtaking an      *)
(* earlier one.                                                            *)
AcceptedBytesKept ==
    is_open /\ Writing => IsPrefix(base, file) /\ HoldsAccepted(file \o buffer)

(* A flush() or close() that returns true has put every accepted byte in   *)
(* the file, however many earlier calls failed; so a byte dropped by       *)
(* close() (file_stream.cpp:371-381) is always reported.                   *)
SuccessMeansWritten ==
    ret.op \in {"flush", "close"} /\ ret.ok /\ Writing => HoldsAccepted(file)

(* Every write(), whether it buffers, flushes or bypasses the buffer, and  *)
(* whether the OS fails it or not, leaves the accepted bytes in place, and *)
(* a later success covers them.                                            *)
WritesKept == TypeOK /\ BytesInOrder /\ AcceptedBytesKept /\ SuccessMeansWritten

(* read() delivers exactly the bytes at the stream's position, across any  *)
(* number of short refills, and advances the position by as many; it stops *)
(* short only at the end of the file or after an error.                    *)
BytesExact ==
    ret.op = "read" /\ is_open /\ ~Writing =>
        /\ ret.data = SubSeq(file, from + 1, Consumed)
        /\ Len(ret.data) < want => error_ \/ (eof_ /\ Consumed = Len(file))

\* Where the line that starts after `start` bytes ends, its newline included.
LineEnd(start) ==
    LET breaks == {i \in start + 1 .. Len(file) : file[i] = LF}
    IN  IF breaks = {} THEN Len(file) ELSE Min(breaks)

\* The line that starts after `start` bytes, without its LF or CR LF.
LineAt(start) ==
    LET raw  == SubSeq(file, start + 1, LineEnd(start))
        crlf == <<CR, LF>>
    IN  IF IsSuffix(crlf, raw) THEN SubSeq(raw, 1, Len(raw) - 2)
        ELSE IF IsSuffix(<<LF>>, raw) THEN Front(raw) ELSE raw

(* A line read_line() returns is the line of the file that starts where    *)
(* the call started, a CR LF split over two refills folded too, and the    *)
(* stream stands after its newline.  Without an error it returns nullopt   *)
(* (file_stream.cpp:315-320) only when the file has no byte left: neither  *)
(* an empty line nor an unterminated last line is mistaken for the end.    *)
LinesExact ==
    ret.op = "line" =>
        /\ ret.ok => ret.data = LineAt(from) /\ Consumed = LineEnd(from)
        /\ ~ret.ok /\ is_open /\ ~Writing /\ ~error_ => eof_ /\ from = Len(file)

(* read() and read_line(), in any order, return the file and nothing else; *)
(* an end of the file is told from an error only as long as error() is not *)
(* set, which no later call resets.                                        *)
ReadsExact == BytesExact /\ LinesExact

=============================================================================
