--------------------------- MODULE BinarySerializer ---------------------------
(***************************************************************************)
(* BinarySerializer and BinaryDeserializer (binary_serializer.hpp):       *)
(* scalars and raw blocks written into a fixed buffer in a wire order, and *)
(* read back, perhaps from a truncated copy, perhaps on a host of the      *)
(* other byte order.  A scalar is the sequence of its bytes, most          *)
(* significant first; std::bit_cast gives them in the host's order.  Every *)
(* byte written has a value of its own.                                    *)
(***************************************************************************)
EXTENDS Integers, Sequences, SequencesExt

CONSTANTS
    BufferSize,
    Widths,         \* sizeof of the scalars, length of the blocks
    MaxFields,      \* bound: calls of write and write_bytes
    MaxReads        \* bound: calls of read and read_bytes

ConstantsFit == BufferSize \in Nat /\ Widths \subseteq Nat

Endians == {"little", "big"}

VARIABLES
    order,          \* order_ of both ends
    data,           \* the bytes written so far, data()
    overflowed,
    fields,         \* what was passed to write and write_bytes, and the outcome
    wire,           \* the reader's buffer
    read_pos,
    reads           \* what read and read_bytes were asked for and returned

vars == <<order, data, overflowed, fields, wire, read_pos, reads>>
writer == <<order, data, overflowed, fields>>

Init ==
    /\ order = "little" /\ data = <<>> /\ overflowed = FALSE
    /\ fields = <<>> /\ wire = <<>> /\ read_pos = -1 /\ reads = <<>>

NextBytes(n) == [i \in 1 .. n |-> 10 * (Len(fields) + 1) + i]

\* std::bit_cast on a host, in either direction
HostBytes(value, native) == IF native = "big" THEN value ELSE Reverse(value)

\* Mutant: the bytes are always turned around.
ToWireReversed(raw, native) == Reverse(raw)

\* The transform of write_raw() and read().
ToWire(raw, native) == IF order # native THEN Reverse(raw) ELSE raw

\* write_raw() and write_bytes(), once the bytes are in wire order
Put(kind, value, bytes) ==
    /\ read_pos = -1 /\ Len(fields) < MaxFields
    /\ \/ /\ Len(bytes) > BufferSize - Len(data)
          /\ overflowed' = TRUE
          /\ fields' = Append(fields, [kind |-> kind, value |-> value, ok |-> FALSE])
          /\ UNCHANGED data
       \/ /\ Len(bytes) <= BufferSize - Len(data)
          /\ data' = data \o bytes
          /\ fields' = Append(fields, [kind |-> kind, value |-> value, ok |-> TRUE])
          /\ UNCHANGED overflowed
    /\ UNCHANGED <<wire, read_pos, reads>>

(* write(), on a host of the given order *)
Write(n, native) ==
    /\ LET value == NextBytes(n)
       IN  Put("scalar", value, ToWire(HostBytes(value, native), native))
    /\ UNCHANGED order

WriteBytes(n) == Put("block", NextBytes(n), NextBytes(n)) /\ UNCHANGED order

(* The constructors' order argument, the same for both ends. *)
ChooseOrder(o) ==
    /\ fields = <<>> /\ read_pos = -1
    /\ order' = o
    /\ UNCHANGED <<data, overflowed, fields, wire, read_pos, reads>>

(* A reader over the first n bytes of data(). *)
OpenReader(n) ==
    /\ read_pos = -1 /\ n <= Len(data)
    /\ wire' = SubSeq(data, 1, n) /\ read_pos' = 0
    /\ UNCHANGED <<writer, reads>>

Remaining == Len(wire) - read_pos

\* the n bytes at the cursor; of use only where n <= Remaining
Ahead(n) == SubSeq(wire, read_pos + 1, read_pos + n)

\* read() and read_bytes(): nullopt, the cursor unmoved, if too few bytes remain
Get(kind, n, value) ==
    /\ read_pos >= 0 /\ Len(reads) < MaxReads
    /\ \/ /\ n > Remaining
          /\ reads' = Append(reads, [kind |-> kind, width |-> n, at |-> read_pos, value |-> <<>>])
          /\ UNCHANGED read_pos
       \/ /\ n <= Remaining
          /\ reads' = Append(reads, [kind |-> kind, width |-> n, at |-> read_pos, value |-> value])
          /\ read_pos' = read_pos + n
    /\ UNCHANGED <<writer, wire>>

Read(n, native) == Get("scalar", n, HostBytes(ToWire(Ahead(n), native), native))

ReadBytes(n) == Get("block", n, Ahead(n))

Next ==
    \/ \E o \in Endians : ChooseOrder(o)
    \/ \E n \in Widths, native \in Endians : Write(n, native) \/ Read(n, native)
    \/ \E n \in Widths : WriteBytes(n) \/ ReadBytes(n)
    \/ \E n \in 0 .. BufferSize : OpenReader(n)

Spec == Init /\ [][Next]_vars

-----------------------------------------------------------------------------
\* The bytes of a field on the wire; none if it was refused.
Encoded(field) ==
    IF ~field.ok THEN <<>>
    ELSE IF field.kind = "scalar" /\ order = "little" THEN Reverse(field.value) ELSE field.value

\* Where the n-th field begins.
StartOf(n) == Len(FlattenSeq([i \in 1 .. n - 1 |-> Encoded(fields[i])]))

TypeOK == Len(data) <= BufferSize /\ read_pos \in -1 .. Len(wire)

(* What was written is read back.  data() is the fields that were          *)
(* accepted, each whole and in wire order, whatever the host; overflowed() *)
(* tells exactly whether one was refused; a read at a field's place and    *)
(* width returns its value on any host, nullopt only when the copy is too  *)
(* short for it; and the cursor has moved by what was returned, so a       *)
(* refused read loses nothing.                                             *)
RoundTrip ==
    /\ TypeOK
    /\ data = FlattenSeq([i \in DOMAIN fields |-> Encoded(fields[i])])
    /\ overflowed = (\E f \in Range(fields) : ~f.ok)
    /\ \A r \in Range(reads), n \in DOMAIN fields :
          /\ fields[n].ok
          /\ r.at = StartOf(n) /\ r.kind = fields[n].kind /\ r.width = Len(fields[n].value)
          => r.value = IF r.at + r.width <= Len(wire) THEN fields[n].value ELSE <<>>
    /\ \A i \in DOMAIN reads :
          reads[i].at + Len(reads[i].value) = IF i = Len(reads) THEN read_pos ELSE reads[i + 1].at

=============================================================================
