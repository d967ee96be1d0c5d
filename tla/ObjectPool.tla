------------------------------ MODULE ObjectPool ------------------------------
(***************************************************************************)
(* ObjectPool (object_pool.hpp): `capacity` objects lent through handles.  *)
(* The free slots are a stack guarded by a mutex; a critical section is    *)
(* one action.  A move assignment gives the target's slot back under the   *)
(* mutex before it takes over the source's, so it is two steps.            *)
(* Threads are implicit: each handle is used by one at a time.             *)
(***************************************************************************)
EXTENDS Integers, Sequences

CONSTANTS Handles, SlotCount

ConstantsFit == SlotCount \in Nat

VARIABLES
    free_slots,     \* slot indices; the first free_count are free
    free_count,
    handle,         \* the slot a handle owns, Moved (pool_ is null) or Absent
    moving          \* target -> source of the move assignments in progress

vars == <<free_slots, free_count, handle, moving>>

PoolSlots == 1 .. SlotCount
Moved  == 0     \* a live handle whose pool_ is null
Absent == -1    \* no handle object

Init ==
    /\ free_slots = [i \in PoolSlots |-> i] /\ free_count = SlotCount    \* init_free_list()
    /\ handle = [h \in Handles |-> Absent]
    /\ moving = <<>>

Busy(h) == h \in DOMAIN moving \/ \E t \in DOMAIN moving : moving[t] = h

(* try_acquire(): an empty optional when no slot is free. *)
TryAcquire(h) ==
    /\ handle[h] = Absent
    /\ \/ free_count = 0 /\ UNCHANGED vars
       \/ /\ free_count > 0
          /\ free_count' = free_count - 1
          /\ handle' = [handle EXCEPT ![h] = free_slots[free_count]]
          /\ UNCHANGED <<free_slots, moving>>

\* release() of the slot of h, if it has one
ReleaseSlot(h) ==
    IF handle[h] \in PoolSlots
    THEN /\ free_slots' = [free_slots EXCEPT ![free_count + 1] = handle[h]]
         /\ free_count' = free_count + 1
    ELSE UNCHANGED <<free_slots, free_count>>

MoveConstruct(h, other) ==
    /\ handle[h] = Absent /\ handle[other] # Absent /\ ~Busy(other)
    /\ handle' = [handle EXCEPT ![h] = handle[other], ![other] = Moved]
    /\ UNCHANGED <<free_slots, free_count, moving>>

(* operator=(Handle&&), up to the end of release_slot(). *)
MoveAssign(h, other) ==
    /\ h # other /\ Absent \notin {handle[h], handle[other]} /\ ~Busy(h) /\ ~Busy(other)
    /\ ReleaseSlot(h)
    /\ handle' = [handle EXCEPT ![h] = Moved]
    /\ moving' = [t \in DOMAIN moving \cup {h} |-> IF t = h THEN other ELSE moving[t]]

\* Mutant: the source keeps its pool pointer.
Kept(source) == handle[source]

\* other.pool_ = nullptr
Emptied(source) == Moved

(* operator=(Handle&&), from there on. *)
FinishMove(h) ==
    /\ h \in DOMAIN moving
    /\ handle' = [handle EXCEPT ![h] = handle[moving[h]],
                               ![moving[h]] = Emptied(moving[h])]
    /\ moving' = [t \in DOMAIN moving \ {h} |-> moving[t]]
    /\ UNCHANGED <<free_slots, free_count>>

(* ~Handle() *)
Destroy(h) ==
    /\ handle[h] # Absent /\ ~Busy(h)
    /\ ReleaseSlot(h)
    /\ handle' = [handle EXCEPT ![h] = Absent]
    /\ UNCHANGED moving

Next ==
    \E h \in Handles :
        \/ TryAcquire(h) \/ Destroy(h) \/ FinishMove(h)
        \/ \E other \in Handles : MoveConstruct(h, other) \/ MoveAssign(h, other)

Spec == Init /\ [][Next]_vars

-----------------------------------------------------------------------------
TypeOK ==
    /\ free_count \in 0 .. SlotCount
    /\ handle \in [Handles -> PoolSlots \cup {Moved, Absent}]

FreeSlots == {free_slots[i] : i \in 1 .. free_count}
Held      == {handle[h] : h \in Handles} \cap PoolSlots

(* Through any interleaving of acquisitions, moves, move assignments half  *)
(* way and destructions, every object of the pool is either free, once, or *)
(* lent to exactly one handle: no two handles share an object, none is     *)
(* lost, and release() never writes past the end of free_slots_.           *)
EachSlotOnce ==
    /\ TypeOK
    /\ \A i, j \in 1 .. free_count : free_slots[i] = free_slots[j] => i = j
    /\ FreeSlots \cap Held = {} /\ FreeSlots \cup Held = PoolSlots
    /\ \A g, h \in Handles : g # h /\ handle[g] \in PoolSlots => handle[g] # handle[h]

=============================================================================
