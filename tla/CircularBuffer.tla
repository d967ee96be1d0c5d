---------------------------- MODULE CircularBuffer ----------------------------
(***************************************************************************)
(* CircularBuffer (circular_buffer.hpp): a ring of capacity slots, the     *)
(* oldest element at head_, count_ elements.  Every operation is one       *)
(* action.  A slot that was moved from, or never written, holds Vacant.    *)
(***************************************************************************)
EXTENDS Integers, Sequences

CONSTANTS Capacities, Values

VARIABLES
    buffer_,    \* slot index -> element
    head_,
    count_,
    done        \* the last operation: its name, argument and result

vars == <<buffer_, head_, count_, done>>

Vacant   == 0
ConstantsFit == Capacities \subseteq Nat /\ Vacant \notin Values

Capacity == Len(buffer_)    \* slot i of the code is buffer_[i + 1]
Done(op, arg, res) == done' = [op |-> op, arg |-> arg, res |-> res]

Init == buffer_ = <<>> /\ head_ = 0 /\ count_ = 0
        /\ done = [op |-> "none", arg |-> Vacant, res |-> Vacant]

Construct(capacity) ==
    /\ Capacity = 0
    /\ buffer_' = [i \in 1 .. capacity |-> Vacant]
    /\ Done("construct", Vacant, Vacant)
    /\ UNCHANGED <<head_, count_>>

\* The code wraps without a division: by comparison, and by one subtraction.
AdvanceIndex(i) == IF i + 1 = Capacity THEN 0 ELSE i + 1
Wrapped(i)      == IF i >= Capacity THEN i - Capacity ELSE i
TailIndex       == Wrapped(head_ + count_)
BackIndex       == Wrapped(head_ + count_ - 1)

Slot(i) == buffer_[i + 1]
Store(i, v) == buffer_' = [buffer_ EXCEPT ![i + 1] = v]

IsFull == count_ = Capacity

TryPush(v) ==
    \/ /\ IsFull
       /\ Done("try_push", v, FALSE)
       /\ UNCHANGED <<buffer_, head_, count_>>
    \/ /\ ~IsFull
       /\ Store(TailIndex, v)
       /\ count_' = count_ + 1
       /\ Done("try_push", v, TRUE)
       /\ UNCHANGED head_

\* Mutant: the overwritten slot stays the oldest.
SameHead == head_

\* The head after an overwrite: the next slot holds the oldest element.
NextHead == AdvanceIndex(head_)

PushOverwrite(v) ==
    /\ \/ /\ IsFull
          /\ Store(head_, v)
          /\ head_' = NextHead
          /\ UNCHANGED count_
       \/ /\ ~IsFull
          /\ Store(TailIndex, v)
          /\ count_' = count_ + 1
          /\ UNCHANGED head_
    /\ Done("push_overwrite", v, TRUE)

Pop ==
    \/ /\ count_ = 0
       /\ Done("pop", Vacant, Vacant)
       /\ UNCHANGED <<buffer_, head_, count_>>
    \/ /\ count_ > 0
       /\ Store(head_, Vacant)
       /\ head_' = AdvanceIndex(head_)
       /\ count_' = count_ - 1
       /\ Done("pop", Vacant, Slot(head_))

Clear ==
    /\ head_' = 0 /\ count_' = 0
    /\ Done("clear", Vacant, Vacant)
    /\ UNCHANGED buffer_

Next ==
    \/ \E capacity \in Capacities : Construct(capacity)
    \/ /\ Capacity > 0
       /\ \/ \E v \in Values : TryPush(v) \/ PushOverwrite(v)
          \/ Pop \/ Clear

Spec == Init /\ [][Next]_vars

-----------------------------------------------------------------------------
\* The elements, oldest first.
Window == [i \in 1 .. count_ |-> Slot((head_ + i - 1) % Capacity)]

TypeOK ==
    /\ head_ \in 0 .. Capacity /\ (Capacity > 0 => head_ < Capacity)
    /\ count_ \in 0 .. Capacity
    /\ Vacant \notin {Window[i] : i \in DOMAIN Window}
    /\ count_ > 0 => Slot(head_) = Window[1] /\ Slot(BackIndex) = Window[count_]

\* What the last operation did to the window.
SequenceStep ==
    CASE done'.op = "try_push" ->
            IF IsFull THEN ~done'.res /\ Window' = Window
            ELSE done'.res /\ Window' = Append(Window, done'.arg)
      [] done'.op = "push_overwrite" ->
            Window' = Append(IF IsFull THEN Tail(Window) ELSE Window, done'.arg)
      [] done'.op = "pop" ->
            IF Window = <<>> THEN Window' = <<>> /\ done'.res = Vacant
            ELSE Window' = Tail(Window) /\ done'.res = Head(Window)
      [] OTHER -> Window' = <<>>

(* The wrapped indices of the ring never show: push, overwriting push, pop *)
(* and clear act on a sequence of at most `capacity` elements, at every    *)
(* position of the head, front() and back() are its ends, and no vacated   *)
(* slot comes into view again.                                             *)
ActsAsSequence == []TypeOK /\ [][SequenceStep]_vars

=============================================================================
