--------------------------- MODULE SequentialParts ---------------------------
(***************************************************************************)
(* The sequential components whose promises are proved: CircularBuffer,    *)
(* ObjectPool, StackAllocator, Stopwatch, FileStream, StringSplitter, the  *)
(* logger's sinks, BinarySerializer, FlatMap and FlatSet, each with what   *)
(* it promises.  MCSequential runs them beside the others;                 *)
(* SequentialProofs proves their promises.                                 *)
(***************************************************************************)
EXTENDS Integers, Sequences

CONSTANTS
    Capacities, Values,                                             \* CircularBuffer
    Handles, SlotCount,                                             \* ObjectPool
    Size, MaxAlign, Bases, Alignments, ObjectSizes, Counts,
    SizeValues, MaxBlocks, MaxMarks,                                \* StackAllocator
    MaxTime, MaxCalls,                                              \* Stopwatch
    BufferSizes, MaxContent, MaxRequest, MaxBytes, MaxFailures,     \* FileStream
    Texts, Delimiters,                                              \* StringSplitter
    Times, TicksPerMillisecond, MillisecondsPerSecond, MaxWrites,   \* LogSinks
    BufferSize, Widths, MaxFields, MaxReads,                        \* BinarySerializer
    Keys, MappedValues, MaxEntries,                                 \* FlatMap
    Ranks, Tags, MaxElements                                        \* FlatSet

VARIABLES
    buffer_, head_, count_, done,
    free_slots, free_count, handle, moving,
    buffer_base, offset_, blocks, marks, allocated,
    now, running_, accumulated_, started_at_, calls,
    is_open, mode_, size, buffer, error_, eof_, base, file, offset, pc, want,
    from, got, tried, accepted, failures, ret,
    text, delimiter, it, copies,
    sink, bad, output, filed, socket_, recorded, writes, returned,
    order, data, overflowed, fields, wire, read_pos, reads,
    data_, pending, constructed, last,
    set_data, set_last

ringVars   == <<buffer_, head_, count_, done>>
poolVars   == <<free_slots, free_count, handle, moving>>
stackVars  == <<buffer_base, offset_, blocks, marks, allocated>>
watchVars  == <<now, running_, accumulated_, started_at_, calls>>
fileVars   == <<is_open, mode_, size, buffer, error_, eof_, base, file, offset, pc,
                want, from, got, tried, accepted, failures, ret>>
splitVars  == <<text, delimiter, it, copies>>
sinkVars   == <<sink, bad, output, filed, socket_, recorded, writes, returned>>
binaryVars == <<order, data, overflowed, fields, wire, read_pos, reads>>
mapVars    == <<data_, pending, constructed, last>>
setVars    == <<set_data, set_last>>

CB == INSTANCE CircularBuffer
OP == INSTANCE ObjectPool
SA == INSTANCE StackAllocator WITH base <- buffer_base
SW == INSTANCE Stopwatch
FS == INSTANCE FileStream
SS == INSTANCE StringSplitter
LS == INSTANCE LogSinks WITH text <- output, accepted <- recorded
BS == INSTANCE BinarySerializer
FM == INSTANCE FlatMap
ST == INSTANCE FlatSet WITH data_ <- set_data, last <- set_last

\* Sizes, capacities and addresses are naturals, alignments and the range of a
\* size_t are not zero, the mark of a vacated slot is no element, no delimiter is
\* empty, a millisecond has ticks and three digits, and keys and ranks are numbers.
ASSUME PartsAssumption ==
    /\ CB!ConstantsFit /\ OP!ConstantsFit /\ SA!ConstantsFit
    /\ FS!ConstantsFit /\ SS!ConstantsFit /\ LS!ConstantsFit /\ BS!ConstantsFit
    /\ FM!ConstantsFit /\ ST!ConstantsFit

-----------------------------------------------------------------------------
(* CircularBuffer: the ring acts as a bounded sequence. *)
ActsAsSequence == CB!ActsAsSequence

(* ObjectPool: every object is free once, or lent to one handle. *)
EachSlotOnce == OP!EachSlotOnce

(* StackAllocator: the blocks in use are apart, aligned and inside. *)
BlocksDisjoint == SA!BlocksDisjoint

(* Stopwatch: elapsed() is the time it ran. *)
ElapsedExact == SW!ElapsedExact

(* FileStream: every write() leaves the accepted bytes in place, and a     *)
(* flush() or close() that returns true has written them.                  *)
WritesKept == FS!WritesKept

(* FileStream: read() and read_line() return the bytes and the lines at    *)
(* their position.                                                         *)
ReadsExact == FS!ReadsExact

(* StringSplitter: the fields of a text, each once and told apart. *)
SplitExact == SS!SplitExact

(* Logger's sinks: the lines of the records, whole and in order. *)
SinkLines == LS!SinkLines

(* BinarySerializer: what was written is read back, on any host. *)
RoundTrip == BS!RoundTrip

(* FlatMap and FlatSet: the sorted vectors act as a map and as a set. *)
SortedContainers == FM!ActsAsMap /\ ST!ActsAsSet

=============================================================================
