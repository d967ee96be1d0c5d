---------------------------- MODULE StackAllocator ----------------------------
(***************************************************************************)
(* StackAllocator (stack_allocator.hpp): blocks cut one after the other    *)
(* from a buffer inside the object.  A block is the addresses it was given *)
(* and the number it was allocated under.                                  *)
(***************************************************************************)
EXTENDS Integers, FiniteSets

CONSTANTS
    Size,           \* the template parameter: bytes in buffer_
    MaxAlign,       \* alignof(std::max_align_t), the alignment of buffer_
    Bases,          \* addresses the object may lie at
    Alignments, ObjectSizes, Counts,
    SizeValues,     \* size_t holds 0 .. SizeValues - 1
    MaxBlocks, MaxMarks     \* bounds: allocations, and marks kept

ConstantsFit ==
    /\ Size \in Nat /\ SizeValues \in Nat \ {0} /\ Bases \subseteq Nat
    /\ Alignments \subseteq Nat \ {0} /\ ObjectSizes \subseteq Nat /\ Counts \subseteq Nat

VARIABLES
    base,           \* the address of buffer_; 0 before construction
    offset_,
    blocks,         \* the blocks that have not been reclaimed
    marks,          \* what mark() returned, with the allocations made before it
    allocated       \* the number of allocations so far

vars == <<base, offset_, blocks, marks, allocated>>

Init == base = 0 /\ offset_ = 0 /\ blocks = {} /\ marks = {} /\ allocated = 0

Construct ==
    /\ base = 0
    /\ base' \in {b \in Bases : b % MaxAlign = 0}
    /\ UNCHANGED <<offset_, blocks, marks, allocated>>

-----------------------------------------------------------------------------
\* std::align: the first multiple of the alignment at or after cursor; 0 is nullptr.
Align(alignment, bytes, cursor, space) ==
    LET padding == (-cursor) % alignment
    IN  IF bytes > space \/ padding > space - bytes THEN 0 ELSE cursor + padding

\* Mutant: the bytes skipped to align the block are not counted.
OffsetUnpadded(aligned, bytes) == offset_ + bytes

\* offset_ after a block of `bytes` at `aligned`
OffsetAfter(aligned, bytes) == (aligned - base) + bytes

(* allocate(), for an object size and a count; 1 and `bytes` when called   *)
(* directly.  A request that does not fit throws and changes nothing.      *)
Allocate(bytes, alignment, wanted) ==
    LET aligned == Align(alignment, bytes, base + offset_, Size - offset_)
    IN  /\ base # 0 /\ allocated < MaxBlocks
        /\ aligned # 0
        /\ offset_' = OffsetAfter(aligned, bytes)
        /\ allocated' = allocated + 1
        /\ blocks' = blocks \cup {[number |-> allocated', at |-> aligned, bytes |-> bytes,
                                   alignment |-> alignment, wanted |-> wanted]}
        /\ UNCHANGED <<base, marks>>

(* allocate_uninitialized<T>(count): the product is a size_t. *)
AllocateUninitialized(object, count) ==
    Allocate((count * object.size) % SizeValues, object.alignment, count * object.size)

Reset ==
    /\ offset_' = 0 /\ blocks' = {}
    /\ UNCHANGED <<base, marks, allocated>>

Mark ==
    /\ base # 0 /\ Cardinality(marks) < MaxMarks
    /\ marks' = marks \cup {[at |-> offset_, number |-> allocated]}
    /\ UNCHANGED <<base, offset_, blocks, allocated>>

(* rewind(), to any mark that passes its assertion, an outdated one        *)
(* included: what was allocated after the mark was taken is reclaimed.     *)
Rewind(mark) ==
    /\ mark.at <= offset_
    /\ offset_' = mark.at
    /\ blocks' = {b \in blocks : b.number <= mark.number}
    /\ UNCHANGED <<base, marks, allocated>>

\* Types whose size is a multiple of their alignment, as C++ has it.
Objects == {o \in [size : ObjectSizes, alignment : Alignments] : o.size % o.alignment = 0}

Next ==
    \/ Construct
    \/ \E bytes \in 0 .. Size, alignment \in Alignments : Allocate(bytes, alignment, bytes)
    \/ \E object \in Objects, count \in Counts : AllocateUninitialized(object, count)
    \/ Reset \/ Mark
    \/ \E mark \in marks : Rewind(mark)

Spec == Init /\ [][Next]_vars

-----------------------------------------------------------------------------
Bytes(b) == b.at .. b.at + b.bytes - 1

(* Whatever was allocated, reclaimed and rewound, to a mark that is        *)
(* outdated too: the blocks still in use lie in the used part of the       *)
(* buffer, no two of them overlap, and each is aligned as asked, also      *)
(* where that is more than the buffer itself is.  Each has the room asked  *)
(* for, unless count * sizeof(T) does not fit a size_t: allocate() then    *)
(* sees the remainder.                                                     *)
BlocksDisjoint ==
    /\ \A b \in blocks :
          /\ Bytes(b) \subseteq base .. base + offset_ - 1
          /\ b.at % b.alignment = 0
          /\ b.wanted < SizeValues => b.bytes = b.wanted
    /\ \A b, c \in blocks : b # c => Bytes(b) \cap Bytes(c) = {}
    /\ offset_ \in 0 .. Size

=============================================================================
