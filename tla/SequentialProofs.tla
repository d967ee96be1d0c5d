-------------------------- MODULE SequentialProofs --------------------------
(***************************************************************************)
(* Theorems about components without threads of their own, for every value *)
(* of their constants and calls in any order and number.                   *)
(***************************************************************************)
EXTENDS SequentialParts, FiniteSetTheorems, SequenceTheorems, WellFoundedInduction, TLAPS

-----------------------------------------------------------------------------
(* ObjectPool.                                                             *)

\* The free slots are the first free_count of free_slots, each of them once.
FreeOnce ==
    /\ free_slots \in [OP!PoolSlots -> OP!PoolSlots]
    /\ \A i, j \in 1 .. free_count : free_slots[i] = free_slots[j] => i = j

\* No slot is lost, none is free and lent, none is lent twice.
SlotsPlaced ==
    /\ \A s \in OP!PoolSlots :
           \/ \E i \in 1 .. free_count : free_slots[i] = s
           \/ \E h \in Handles : handle[h] = s
    /\ \A i \in 1 .. free_count, h \in Handles : free_slots[i] # handle[h]
    /\ \A g, h \in Handles : g # h /\ handle[g] \in OP!PoolSlots => handle[g] # handle[h]

\* The target of a move assignment in progress has given its slot back.
TargetsEmpty ==
    /\ DOMAIN moving \subseteq Handles
    /\ \A t \in DOMAIN moving : moving[t] \in Handles /\ handle[t] = OP!Moved

PoolIInv == OP!TypeOK /\ FreeOnce /\ SlotsPlaced /\ TargetsEmpty

\* While a slot is lent, the stack of free slots is not full.
LEMMA RoomToRelease ==
    ASSUME SlotCount \in Nat, PoolIInv, NEW h \in Handles, handle[h] \in OP!PoolSlots
    PROVE  free_count < SlotCount
<1> DEFINE S == 1 .. free_count
           T == OP!PoolSlots \ {handle[h]}
           f == [i \in S |-> free_slots[i]]
<1>1. free_count \in 0 .. SlotCount /\ free_count \in Nat
  BY DEF PoolIInv, OP!TypeOK
<1>2. \A i \in S : free_slots[i] \in T
  BY <1>1 DEF PoolIInv, FreeOnce, SlotsPlaced, OP!PoolSlots
<1>3. f \in Injection(S, T)
  <2>1. f \in [S -> T]
    BY <1>2
  <2>2. \A i, j \in S : f[i] = f[j] => i = j
    BY DEF PoolIInv, FreeOnce
  <2>3. QED BY <2>1, <2>2 DEF Injection, IsInjective
<1>4. IsFiniteSet(OP!PoolSlots) /\ Cardinality(OP!PoolSlots) = SlotCount
  <2>1. 1 \in Int /\ SlotCount \in Int /\ (1 > SlotCount => SlotCount = 0) /\ SlotCount - 1 + 1 = SlotCount
    OBVIOUS
  <2>2. QED BY <2>1, FS_Interval DEF OP!PoolSlots
<1>5. IsFiniteSet(T) /\ Cardinality(T) = SlotCount - 1
  BY <1>4, FS_RemoveElement
<1>6. Cardinality(S) = free_count
  <2>1. 1 \in Int /\ free_count \in Int /\ (1 > free_count => free_count = 0) /\ free_count - 1 + 1 = free_count
    BY <1>1
  <2>2. QED BY <2>1, FS_Interval
<1>7. Cardinality(S) <= Cardinality(T)
  <2> HIDE DEF S, T, f
  <2>1. QED BY <1>3, <1>5, FS_Injection
<1>8. QED BY <1>1, <1>5, <1>6, <1>7

\* release_slot(): what it does to the free slots.
LEMMA Released ==
    ASSUME SlotCount \in Nat, PoolIInv, NEW h \in Handles, OP!ReleaseSlot(h)
    PROVE  /\ free_count' \in 0 .. SlotCount
           /\ free_slots' \in [OP!PoolSlots -> OP!PoolSlots]
           /\ \A i, j \in 1 .. free_count' : free_slots'[i] = free_slots'[j] => i = j
           /\ \A i \in 1 .. free_count :
                  i \in 1 .. free_count' /\ free_slots'[i] = free_slots[i]
           /\ \A i \in 1 .. free_count' :
                  \/ i \in 1 .. free_count /\ free_slots'[i] = free_slots[i]
                  \/ handle[h] \in OP!PoolSlots /\ free_slots'[i] = handle[h]
           /\ handle[h] \in OP!PoolSlots => \E i \in 1 .. free_count' : free_slots'[i] = handle[h]
<1>1. free_count \in 0 .. SlotCount /\ free_count \in Nat
  BY DEF PoolIInv, OP!TypeOK
<1>2. CASE handle[h] \in OP!PoolSlots
  <2>1. free_count < SlotCount
    BY <1>2, RoomToRelease
  <2>2. /\ free_slots' = [free_slots EXCEPT ![free_count + 1] = handle[h]]
        /\ free_count' = free_count + 1
    BY <1>2 DEF OP!ReleaseSlot
  <2>3. free_count + 1 \in OP!PoolSlots /\ free_count + 1 \in 1 .. free_count'
    BY <1>1, <2>1, <2>2 DEF OP!PoolSlots
  <2>4. /\ free_slots' \in [OP!PoolSlots -> OP!PoolSlots]
        /\ free_slots'[free_count + 1] = handle[h]
        /\ \A i \in OP!PoolSlots : i # free_count + 1 => free_slots'[i] = free_slots[i]
    BY <1>2, <2>2, <2>3 DEF PoolIInv, FreeOnce
  <2>5. \A i \in 1 .. free_count :
           i \in OP!PoolSlots /\ i # free_count + 1 /\ i \in 1 .. free_count'
    BY <1>1, <2>1, <2>2 DEF OP!PoolSlots
  <2>6. \A i \in 1 .. free_count' : i \in 1 .. free_count \/ i = free_count + 1
    BY <1>1, <2>2
  <2>7. \A i \in 1 .. free_count : free_slots'[i] = free_slots[i] /\ free_slots[i] # handle[h]
    BY <2>4, <2>5 DEF PoolIInv, SlotsPlaced
  <2>8. \A i, j \in 1 .. free_count' : free_slots'[i] = free_slots'[j] => i = j
    BY <2>4, <2>6, <2>7 DEF PoolIInv, FreeOnce
  <2>9. free_count' \in 0 .. SlotCount
    BY <1>1, <2>1, <2>2
  <2>10. QED BY <1>2, <2>3, <2>4, <2>5, <2>6, <2>7, <2>8, <2>9
<1>3. CASE handle[h] \notin OP!PoolSlots
  <2>1. UNCHANGED <<free_slots, free_count>>
    BY <1>3 DEF OP!ReleaseSlot
  <2>2. QED BY <1>1, <1>3, <2>1 DEF PoolIInv, FreeOnce
<1>4. QED BY <1>2, <1>3

\* Neither a moved-from nor an absent handle names a slot.
LEMMA NoSlotNames == OP!Moved \notin OP!PoolSlots /\ OP!Absent \notin OP!PoolSlots /\ OP!Moved # OP!Absent
BY DEF OP!Moved, OP!Absent, OP!PoolSlots

\* A handle is emptied and its slot, if it had one, given back.
LEMMA EmptiedKeeps ==
    ASSUME SlotCount \in Nat, PoolIInv, NEW h \in Handles, OP!ReleaseSlot(h),
           handle'[h] \notin OP!PoolSlots, \A g \in Handles : g # h => handle'[g] = handle[g],
           handle' \in [Handles -> OP!PoolSlots \cup {OP!Moved, OP!Absent}], TargetsEmpty'
    PROVE  PoolIInv'
<1>1. /\ free_count' \in 0 .. SlotCount
      /\ free_slots' \in [OP!PoolSlots -> OP!PoolSlots]
      /\ \A i, j \in 1 .. free_count' : free_slots'[i] = free_slots'[j] => i = j
      /\ \A i \in 1 .. free_count :
             i \in 1 .. free_count' /\ free_slots'[i] = free_slots[i]
      /\ \A i \in 1 .. free_count' :
             \/ i \in 1 .. free_count /\ free_slots'[i] = free_slots[i]
             \/ handle[h] \in OP!PoolSlots /\ free_slots'[i] = handle[h]
      /\ handle[h] \in OP!PoolSlots => \E i \in 1 .. free_count' : free_slots'[i] = handle[h]
  BY Released
<1>2. OP!TypeOK' /\ FreeOnce'
  BY <1>1 DEF OP!TypeOK, FreeOnce, OP!PoolSlots, OP!Moved, OP!Absent
<1>3. ASSUME NEW s \in OP!PoolSlots, ~ \E g \in Handles : handle'[g] = s
      PROVE  \E i \in 1 .. free_count' : free_slots'[i] = s
  <2>1. CASE handle[h] = s
    BY <1>1, <2>1
  <2>2. CASE handle[h] # s
    BY <1>1, <1>3, <2>2 DEF PoolIInv, SlotsPlaced
  <2>3. QED BY <2>1, <2>2
<1>4. ASSUME NEW i \in 1 .. free_count', NEW g \in Handles PROVE free_slots'[i] # handle'[g]
  <2>0. free_slots'[i] \in OP!PoolSlots
    <3>1. \A j \in 1 .. free_count' : j \in OP!PoolSlots
      BY <1>1 DEF OP!PoolSlots
    <3>2. QED BY <1>1, <3>1
  <2>1. CASE g = h
    BY <2>0, <2>1
  <2>2. CASE g # h
    BY <1>1, <2>2 DEF PoolIInv, SlotsPlaced
  <2>3. QED BY <2>1, <2>2
<1>5. \A g, k \in Handles : g # k /\ handle'[g] \in OP!PoolSlots => handle'[g] # handle'[k]
  BY DEF PoolIInv, SlotsPlaced
<1>6. SlotsPlaced'
  BY <1>3, <1>4, <1>5 DEF SlotsPlaced, OP!PoolSlots
<1>7. QED BY <1>2, <1>6 DEF PoolIInv

\* An empty handle takes over the slot of another, which becomes empty.
LEMMA HandedOver ==
    ASSUME SlotCount \in Nat, PoolIInv, NEW h \in Handles, NEW other \in Handles,
           handle[h] \notin OP!PoolSlots,
           handle' = [handle EXCEPT ![h] = handle[other], ![other] = OP!Moved],
           UNCHANGED <<free_slots, free_count>>, TargetsEmpty'
    PROVE  PoolIInv'
<1>1. handle \in [Handles -> OP!PoolSlots \cup {OP!Moved, OP!Absent}]
  BY DEF PoolIInv, OP!TypeOK
<1>2. /\ handle'[other] = OP!Moved /\ (h # other => handle'[h] = handle[other])
      /\ \A g \in Handles : g # h /\ g # other => handle'[g] = handle[g]
  BY <1>1
<1>3. OP!TypeOK' /\ FreeOnce'
  BY <1>1 DEF PoolIInv, OP!TypeOK, FreeOnce, OP!PoolSlots, OP!Moved, OP!Absent
<1>4. \A g \in Handles : handle'[g] \in OP!PoolSlots =>
         \/ g = h /\ h # other /\ handle'[g] = handle[other]
         \/ g # h /\ g # other /\ handle'[g] = handle[g]
  BY <1>2, NoSlotNames
<1>5. \A g \in Handles : handle[g] \in OP!PoolSlots =>
         \/ g = other /\ h # other /\ handle'[h] = handle[g]
         \/ g # h /\ g # other /\ handle'[g] = handle[g]
  BY <1>2
<1>6. SlotsPlaced
  BY DEF PoolIInv
<1>7. ASSUME NEW s \in OP!PoolSlots, NEW g \in Handles, handle[g] = s
      PROVE  \E k \in Handles : handle'[k] = s
  BY <1>5, <1>7
<1>8. ASSUME NEW i \in 1 .. free_count, NEW g \in Handles PROVE free_slots[i] # handle'[g]
  <2>1. free_slots[i] \in OP!PoolSlots
    <3>1. free_count \in 0 .. SlotCount
      BY DEF PoolIInv, OP!TypeOK
    <3>2. i \in OP!PoolSlots
      BY <3>1 DEF OP!PoolSlots
    <3>3. QED BY <3>2 DEF PoolIInv, FreeOnce
  <2>2. \A k \in Handles : free_slots[i] # handle[k]
    BY <1>6 DEF SlotsPlaced
  <2>3. QED BY <1>4, <2>1, <2>2
<1>9. ASSUME NEW g \in Handles, NEW k \in Handles, g # k, handle'[g] \in OP!PoolSlots
      PROVE  handle'[g] # handle'[k]
  <2>1. \A a, b \in Handles : a # b /\ handle[a] \in OP!PoolSlots => handle[a] # handle[b]
    BY <1>6 DEF SlotsPlaced
  <2>2. CASE handle'[k] \notin OP!PoolSlots
    BY <1>9, <2>2
  <2>3. CASE handle'[k] \in OP!PoolSlots
    BY <1>4, <1>9, <2>1, <2>3
  <2>4. QED BY <2>2, <2>3
<1>10. SlotsPlaced'
  <2>1. free_slots' = free_slots /\ free_count' = free_count
    OBVIOUS
  <2>2. \A s \in OP!PoolSlots :
           \/ \E i \in 1 .. free_count' : free_slots'[i] = s
           \/ \E k \in Handles : handle'[k] = s
    BY <1>6, <1>7, <2>1 DEF SlotsPlaced
  <2>3. \A i \in 1 .. free_count', g \in Handles : free_slots'[i] # handle'[g]
    BY <1>8, <2>1
  <2>4. \A g, k \in Handles : g # k /\ handle'[g] \in OP!PoolSlots => handle'[g] # handle'[k]
    BY <1>9
  <2>5. QED BY <2>2, <2>3, <2>4 DEF SlotsPlaced, OP!PoolSlots
<1>11. QED BY <1>3, <1>10 DEF PoolIInv

\* Every step of the pool keeps its slots.
LEMMA PoolStep ==
    ASSUME SlotCount \in Nat, PoolIInv, [OP!Next]_OP!vars
    PROVE  PoolIInv'
<1>0. /\ free_count \in 0 .. SlotCount /\ free_count \in Nat
      /\ handle \in [Handles -> OP!PoolSlots \cup {OP!Moved, OP!Absent}]
      /\ free_slots \in [OP!PoolSlots -> OP!PoolSlots]
  BY DEF PoolIInv, OP!TypeOK, FreeOnce
<1>1. CASE UNCHANGED OP!vars
  BY <1>1 DEF OP!vars, PoolIInv, OP!TypeOK, FreeOnce, SlotsPlaced, TargetsEmpty, OP!PoolSlots
<1>2. ASSUME NEW h \in Handles, OP!TryAcquire(h), ~ UNCHANGED OP!vars PROVE PoolIInv'
  <2>1. /\ handle[h] = OP!Absent /\ free_count > 0 /\ free_count' = free_count - 1
        /\ handle' = [handle EXCEPT ![h] = free_slots[free_count]]
        /\ UNCHANGED <<free_slots, moving>>
    BY <1>2 DEF OP!TryAcquire
  <2>2. /\ free_count \in OP!PoolSlots /\ free_count' \in 0 .. SlotCount
        /\ \A i \in 1 .. free_count' : i \in 1 .. free_count /\ i # free_count
        /\ \A i \in 1 .. free_count : i \in 1 .. free_count' \/ i = free_count
        /\ free_count \in 1 .. free_count
    BY <1>0, <2>1 DEF OP!PoolSlots
  <2>3. /\ handle'[h] = free_slots[free_count] /\ free_slots[free_count] \in OP!PoolSlots
        /\ \A g \in Handles : g # h => handle'[g] = handle[g]
    BY <1>0, <2>1, <2>2
  <2>4. OP!TypeOK'
    BY <1>0, <2>1, <2>2, <2>3 DEF OP!TypeOK, OP!PoolSlots, OP!Moved, OP!Absent
  <2>5. FreeOnce'
    BY <2>1, <2>2 DEF PoolIInv, FreeOnce, OP!PoolSlots
  <2>6. SlotsPlaced'
    <3>1. \A s \in OP!PoolSlots :
             (\E i \in 1 .. free_count' : free_slots'[i] = s) \/ (\E g \in Handles : handle'[g] = s)
      <4> SUFFICES ASSUME NEW s \in OP!PoolSlots, ~ \E g \in Handles : handle'[g] = s
                   PROVE  \E i \in 1 .. free_count' : free_slots'[i] = s
        OBVIOUS
      <4>1. ~ \E g \in Handles : handle[g] = s
        BY <2>1, <2>3, NoSlotNames
      <4>2. PICK i \in 1 .. free_count : free_slots[i] = s
        BY <4>1 DEF PoolIInv, SlotsPlaced
      <4>3. i # free_count
        BY <2>3, <4>2
      <4>4. QED BY <2>1, <2>2, <4>2, <4>3
    <3>2. \A i \in 1 .. free_count', g \in Handles : free_slots'[i] # handle'[g]
      BY <2>1, <2>2, <2>3 DEF PoolIInv, SlotsPlaced, FreeOnce
    <3>3. \A g, k \in Handles : g # k /\ handle'[g] \in OP!PoolSlots => handle'[g] # handle'[k]
      BY <2>2, <2>3 DEF PoolIInv, SlotsPlaced
    <3>4. QED BY <3>1, <3>2, <3>3 DEF SlotsPlaced, OP!PoolSlots
  <2>7. TargetsEmpty'
    BY <2>1, <2>3, NoSlotNames DEF PoolIInv, TargetsEmpty, OP!Moved
  <2>8. QED BY <2>4, <2>5, <2>6, <2>7 DEF PoolIInv
<1>3. ASSUME NEW h \in Handles, OP!Destroy(h) PROVE PoolIInv'
  <2>1. /\ OP!ReleaseSlot(h) /\ handle' = [handle EXCEPT ![h] = OP!Absent] /\ UNCHANGED moving
        /\ h \notin DOMAIN moving
    BY <1>3 DEF OP!Destroy, OP!Busy
  <2>2. handle'[h] = OP!Absent /\ \A g \in Handles : g # h => handle'[g] = handle[g]
    BY <1>0, <2>1
  <2>3. handle' \in [Handles -> OP!PoolSlots \cup {OP!Moved, OP!Absent}]
    BY <1>0, <2>1
  <2>4. TargetsEmpty'
    BY <2>1, <2>2 DEF PoolIInv, TargetsEmpty, OP!Moved
  <2>5. QED BY <2>1, <2>2, <2>3, <2>4, EmptiedKeeps, NoSlotNames
<1>4. ASSUME NEW h \in Handles, NEW other \in Handles, OP!MoveAssign(h, other) PROVE PoolIInv'
  <2>1. /\ OP!ReleaseSlot(h) /\ handle' = [handle EXCEPT ![h] = OP!Moved]
        /\ moving' = [t \in DOMAIN moving \cup {h} |-> IF t = h THEN other ELSE moving[t]]
    BY <1>4 DEF OP!MoveAssign
  <2>2. handle'[h] = OP!Moved /\ \A g \in Handles : g # h => handle'[g] = handle[g]
    BY <1>0, <2>1
  <2>3. handle' \in [Handles -> OP!PoolSlots \cup {OP!Moved, OP!Absent}]
    BY <1>0, <2>1
  <2>4. TargetsEmpty'
    BY <2>1, <2>2 DEF PoolIInv, TargetsEmpty, OP!Moved
  <2>5. QED BY <2>1, <2>2, <2>3, <2>4, EmptiedKeeps, NoSlotNames
<1>5. ASSUME NEW h \in Handles, NEW other \in Handles, OP!MoveConstruct(h, other) PROVE PoolIInv'
  <2>1. /\ handle[h] = OP!Absent /\ handle[other] # OP!Absent /\ other \notin DOMAIN moving
        /\ handle' = [handle EXCEPT ![h] = handle[other], ![other] = OP!Moved]
        /\ UNCHANGED <<free_slots, free_count, moving>>
    BY <1>5 DEF OP!MoveConstruct, OP!Busy
  <2>2. TargetsEmpty'
    BY <1>0, <2>1, NoSlotNames DEF PoolIInv, TargetsEmpty, OP!Moved
  <2>3. QED BY <2>1, <2>2, HandedOver, NoSlotNames
<1>6. ASSUME NEW h \in Handles, OP!FinishMove(h) PROVE PoolIInv'
  <2>1. PICK other \in Handles : other = moving[h] /\ handle[h] = OP!Moved
    BY <1>6 DEF OP!FinishMove, PoolIInv, TargetsEmpty
  <2>2. /\ handle' = [handle EXCEPT ![h] = handle[other], ![other] = OP!Moved]
        /\ moving' = [t \in DOMAIN moving \ {h} |-> moving[t]]
        /\ UNCHANGED <<free_slots, free_count>>
    BY <1>6, <2>1 DEF OP!FinishMove, OP!Emptied
  <2>3. TargetsEmpty'
    BY <1>0, <2>2 DEF PoolIInv, TargetsEmpty, OP!Moved
  <2>4. QED BY <2>1, <2>2, <2>3, HandedOver, NoSlotNames
<1>7. QED BY <1>1, <1>2, <1>3, <1>4, <1>5, <1>6 DEF OP!Next

\* A new pool has every slot free and no handle.
LEMMA PoolInit ==
    ASSUME SlotCount \in Nat, OP!Init
    PROVE  PoolIInv
<1>1. /\ free_slots = [i \in OP!PoolSlots |-> i] /\ free_count = SlotCount
      /\ handle = [h \in Handles |-> OP!Absent] /\ DOMAIN moving = {}
  BY DEF OP!Init
<1>2. OP!PoolSlots = 1 .. SlotCount
  BY DEF OP!PoolSlots
<1>3. OP!TypeOK
  BY <1>1 DEF OP!TypeOK
<1>4. FreeOnce
  BY <1>1, <1>2 DEF FreeOnce
<1>5. SlotsPlaced
  BY <1>1, <1>2, NoSlotNames DEF SlotsPlaced
<1>6. TargetsEmpty
  BY <1>1 DEF TargetsEmpty
<1>7. QED BY <1>3, <1>4, <1>5, <1>6 DEF PoolIInv

\* Slots placed like this are free or lent, once.
LEMMA PlacedOnce ==
    ASSUME SlotCount \in Nat, PoolIInv
    PROVE  OP!EachSlotOnce
<1>1. free_count \in 0 .. SlotCount /\ OP!TypeOK
  BY DEF PoolIInv, OP!TypeOK
<1>2. \A i \in 1 .. free_count : i \in OP!PoolSlots /\ free_slots[i] \in OP!PoolSlots
  BY <1>1 DEF PoolIInv, FreeOnce, OP!PoolSlots
<1>3. OP!FreeSlots \cap OP!Held = {} /\ OP!FreeSlots \cup OP!Held = OP!PoolSlots
  BY <1>2 DEF PoolIInv, SlotsPlaced, OP!FreeSlots, OP!Held
<1>4. QED BY <1>1, <1>3 DEF PoolIInv, FreeOnce, SlotsPlaced, OP!EachSlotOnce

(* Whatever is acquired, moved, move-assigned half way and destroyed, each *)
(* object of an ObjectPool of any capacity is free once or lent to one     *)
(* handle, and release() stays inside free_slots_.                         *)
THEOREM SlotsNeitherSharedNorLost == OP!Spec => []EachSlotOnce
<1>0. SlotCount \in Nat
  BY PartsAssumption DEF OP!ConstantsFit
<1>1. OP!Init => PoolIInv
  BY <1>0, PoolInit
<1>2. PoolIInv /\ [OP!Next]_OP!vars => PoolIInv'
  BY <1>0, PoolStep
<1>3. PoolIInv => EachSlotOnce
  BY <1>0, PlacedOnce DEF EachSlotOnce
<1>4. QED BY <1>1, <1>2, <1>3, PTL DEF OP!Spec

-----------------------------------------------------------------------------
(* StackAllocator.                                                         *)

\* A block inside the used part of the buffer, as it was asked for.
Sound(b) ==
    /\ b.number \in 1 .. allocated /\ b.at \in Nat /\ b.bytes \in Nat
    /\ buffer_base <= b.at /\ b.at + b.bytes <= buffer_base + offset_
    /\ b.at % b.alignment = 0
    /\ b.wanted < SizeValues => b.bytes = b.wanted

\* Blocks are cut one after the other; what a mark keeps lies below it.
AllocatorIInv ==
    /\ buffer_base \in Nat /\ offset_ \in 0 .. Size /\ allocated \in Nat
    /\ buffer_base = 0 => blocks = {}
    /\ \A m \in marks : m.at \in 0 .. Size /\ m.number \in 0 .. allocated
    /\ \A b \in blocks : Sound(b)
    /\ \A b, c \in blocks : b.number = c.number => b = c
    /\ \A b, c \in blocks : b.number < c.number => b.at + b.bytes <= c.at
    /\ \A m \in marks, b \in blocks : b.number <= m.number => b.at + b.bytes <= buffer_base + m.at

\* The bytes skipped reach the next multiple of the alignment.
LEMMA Padding ==
    ASSUME NEW c \in Int, NEW d \in Nat \ {0}
    PROVE  (-c) % d \in 0 .. d - 1 /\ (c + ((-c) % d)) % d = 0
<1> DEFINE p == (-c) % d
           q == (-c) \div d
<1>1. p \in 0 .. d - 1 /\ q \in Int /\ -c = d * q + p
  OBVIOUS
<1>2. c + p = d * (-q)
  BY <1>1
<1> HIDE DEF p, q
<1>3. (d * (-q)) % d = 0
  BY <1>1
<1>4. QED BY <1>1, <1>2, <1>3 DEF p

\* std::align: a block that fits is aligned and stays inside the space.
LEMMA Aligned ==
    ASSUME NEW alignment \in Nat \ {0}, NEW bytes \in Nat, NEW cursor \in Nat, NEW space \in Nat,
           SA!Align(alignment, bytes, cursor, space) # 0
    PROVE  /\ SA!Align(alignment, bytes, cursor, space) \in Nat
           /\ SA!Align(alignment, bytes, cursor, space) >= cursor
           /\ SA!Align(alignment, bytes, cursor, space) + bytes <= cursor + space
           /\ SA!Align(alignment, bytes, cursor, space) % alignment = 0
<1> DEFINE p == (-cursor) % alignment
<1>1. p \in 0 .. alignment - 1 /\ (cursor + p) % alignment = 0
  BY Padding
<1>2. SA!Align(alignment, bytes, cursor, space) =
         IF bytes > space \/ p > space - bytes THEN 0 ELSE cursor + p
  BY DEF SA!Align
<1> HIDE DEF p
<1>3. bytes <= space /\ p <= space - bytes
        /\ SA!Align(alignment, bytes, cursor, space) = cursor + p
  BY <1>1, <1>2
<1>4. QED BY <1>1, <1>3

\* allocate(), directly or for a product that was reduced to a size_t.
LEMMA AllocateKeeps ==
    ASSUME SA!ConstantsFit, AllocatorIInv, NEW bytes \in Nat, NEW alignment \in Alignments,
           NEW wanted \in Nat, wanted < SizeValues => bytes = wanted,
           SA!Allocate(bytes, alignment, wanted)
    PROVE  AllocatorIInv'
<1>1. PICK at : at = SA!Align(alignment, bytes, buffer_base + offset_, Size - offset_)
  OBVIOUS
<1>2. /\ buffer_base # 0 /\ at # 0 /\ offset_' = (at - buffer_base) + bytes
      /\ allocated' = allocated + 1
      /\ buffer_base' = buffer_base /\ marks' = marks
  BY <1>1 DEF SA!Allocate, SA!OffsetAfter
<1>3. PICK new : new = [number |-> allocated + 1, at |-> at, bytes |-> bytes,
                        alignment |-> alignment, wanted |-> wanted]
  OBVIOUS
<1>4. blocks' = blocks \cup {new}
  BY <1>1, <1>2, <1>3 DEF SA!Allocate
<1>5. /\ new.number = allocated + 1 /\ new.at = at /\ new.bytes = bytes
      /\ new.alignment = alignment /\ new.wanted = wanted
  BY <1>3
<1>6. /\ buffer_base \in Nat /\ offset_ \in 0 .. Size /\ allocated \in Nat /\ Size \in Nat
      /\ alignment \in Nat \ {0} /\ buffer_base + offset_ \in Nat /\ Size - offset_ \in Nat
  BY DEF SA!ConstantsFit, AllocatorIInv
<1>7. /\ at \in Nat /\ at >= buffer_base + offset_ /\ at + bytes <= buffer_base + Size
      /\ at % alignment = 0
  BY <1>1, <1>2, <1>6, Aligned
<1>8. /\ buffer_base' \in Nat /\ offset_' \in 0 .. Size /\ allocated' \in Nat
      /\ buffer_base' # 0 /\ offset_' >= offset_ /\ at + bytes = buffer_base + offset_'
  BY <1>2, <1>6, <1>7
<1>9. \A b \in blocks : Sound(b)' /\ b.number < new.number /\ b.at + b.bytes <= new.at
  BY <1>2, <1>5, <1>6, <1>7, <1>8 DEF AllocatorIInv, Sound
<1>10. Sound(new)'
  BY <1>2, <1>5, <1>6, <1>7, <1>8 DEF Sound
<1>11. \A m \in marks : m.at \in 0 .. Size /\ m.number \in 0 .. allocated' /\ m.number < new.number
  BY <1>2, <1>5, <1>6 DEF AllocatorIInv
<1>12. \A b \in blocks : b.number \in Nat
  BY DEF AllocatorIInv, Sound
<1>13. \A b, c \in blocks' : b.number = c.number => b = c
  BY <1>4, <1>5, <1>6, <1>9, <1>12 DEF AllocatorIInv
<1>14. \A b, c \in blocks' : b.number < c.number => b.at + b.bytes <= c.at
  BY <1>4, <1>5, <1>6, <1>9, <1>12 DEF AllocatorIInv
<1>15. \A m \in marks', b \in blocks' : b.number <= m.number => b.at + b.bytes <= buffer_base' + m.at
  BY <1>2, <1>4, <1>5, <1>6, <1>9, <1>11, <1>12 DEF AllocatorIInv
<1>16. QED BY <1>2, <1>4, <1>8, <1>9, <1>10, <1>11, <1>13, <1>14, <1>15 DEF AllocatorIInv

\* Every step of the allocator keeps its blocks apart.
LEMMA AllocatorStep ==
    ASSUME SA!ConstantsFit, AllocatorIInv, [SA!Next]_SA!vars
    PROVE  AllocatorIInv'
<1>0. Size \in Nat /\ buffer_base \in Nat /\ offset_ \in 0 .. Size /\ allocated \in Nat
  BY DEF SA!ConstantsFit, AllocatorIInv
<1>1. CASE UNCHANGED SA!vars
  BY <1>1 DEF SA!vars, AllocatorIInv, Sound
<1>2. CASE SA!Construct
  <2>1. blocks' = {} /\ buffer_base' \in Nat /\ UNCHANGED <<offset_, marks, allocated>>
    BY <1>2 DEF SA!Construct, AllocatorIInv, SA!ConstantsFit
  <2>2. QED BY <2>1 DEF AllocatorIInv
<1>3. ASSUME NEW bytes \in 0 .. Size, NEW alignment \in Alignments,
             SA!Allocate(bytes, alignment, bytes)
      PROVE  AllocatorIInv'
  BY <1>0, <1>3, AllocateKeeps
<1>4. ASSUME NEW object \in SA!Objects, NEW count \in Counts,
             SA!AllocateUninitialized(object, count)
      PROVE  AllocatorIInv'
  <2>1. object.alignment \in Alignments /\ object.size \in Nat /\ count \in Nat
    BY DEF SA!Objects, SA!ConstantsFit
  <2>2. PICK wanted \in Nat : wanted = count * object.size
    BY <2>1
  <2>3. wanted % SizeValues \in Nat /\ (wanted < SizeValues => wanted % SizeValues = wanted)
    BY DEF SA!ConstantsFit
  <2>4. SA!Allocate(wanted % SizeValues, object.alignment, wanted)
    BY <1>4, <2>2 DEF SA!AllocateUninitialized
  <2>5. QED BY <2>1, <2>3, <2>4, AllocateKeeps
<1>5. CASE SA!Reset
  <2>1. blocks' = {} /\ offset_' = 0 /\ UNCHANGED <<buffer_base, marks, allocated>>
    BY <1>5 DEF SA!Reset
  <2>2. QED BY <1>0, <2>1 DEF AllocatorIInv
<1>6. CASE SA!Mark
  <2>1. PICK mark : mark = [at |-> offset_, number |-> allocated]
    OBVIOUS
  <2>2. marks' = marks \cup {mark} /\ UNCHANGED <<buffer_base, offset_, blocks, allocated>>
    BY <1>6, <2>1 DEF SA!Mark
  <2>3. mark.at = offset_ /\ mark.number = allocated
    BY <2>1
  <2>4. \A b \in blocks : Sound(b)' /\ b.at + b.bytes <= buffer_base + mark.at
    BY <2>2, <2>3 DEF AllocatorIInv, Sound
  <2>5. mark.at \in 0 .. Size /\ mark.number \in 0 .. allocated
    BY <1>0, <2>3
  <2>6. QED BY <2>2, <2>4, <2>5 DEF AllocatorIInv
<1>7. ASSUME NEW mark \in marks, SA!Rewind(mark) PROVE AllocatorIInv'
  <2>1. /\ mark.at <= offset_ /\ offset_' = mark.at
        /\ blocks' = {b \in blocks : b.number <= mark.number}
        /\ UNCHANGED <<buffer_base, marks, allocated>>
    BY <1>7 DEF SA!Rewind
  <2>2. mark.at \in 0 .. Size
    BY DEF AllocatorIInv
  <2>3. \A b \in blocks' : Sound(b)'
    BY <2>1, <2>2 DEF AllocatorIInv, Sound
  <2>4. QED BY <2>1, <2>2, <2>3 DEF AllocatorIInv
<1>8. QED BY <1>1, <1>2, <1>3, <1>4, <1>5, <1>6, <1>7 DEF SA!Next

(* Whatever is allocated, reset, marked and rewound, to an outdated mark   *)
(* too, the blocks of a StackAllocator still in use lie inside the used    *)
(* part of its buffer, apart and aligned, for every buffer, address,       *)
(* alignment and size.  A block has the room that was asked for if the     *)
(* size asked for fits a size_t; where count * sizeof(T) wraps             *)
(* (stack_allocator.hpp:70) the code gives it less, and nothing is said.   *)
THEOREM BlocksStayApart == SA!Spec => []BlocksDisjoint
<1>1. SA!Init => AllocatorIInv
  BY PartsAssumption DEF SA!Init, AllocatorIInv, SA!ConstantsFit
<1>2. AllocatorIInv /\ [SA!Next]_SA!vars => AllocatorIInv'
  BY PartsAssumption, AllocatorStep
<1>3. AllocatorIInv => BlocksDisjoint
  <2> SUFFICES ASSUME AllocatorIInv PROVE SA!BlocksDisjoint
    BY DEF BlocksDisjoint
  <2>1. \A b \in blocks : /\ SA!Bytes(b) \subseteq buffer_base .. buffer_base + offset_ - 1
                          /\ b.at % b.alignment = 0
                          /\ b.wanted < SizeValues => b.bytes = b.wanted
    BY DEF AllocatorIInv, Sound, SA!Bytes
  <2>2. ASSUME NEW b \in blocks, NEW c \in blocks, b # c
        PROVE  SA!Bytes(b) \cap SA!Bytes(c) = {}
    <3>1. /\ b.number \in Nat /\ b.at \in Nat /\ b.bytes \in Nat
          /\ c.number \in Nat /\ c.at \in Nat /\ c.bytes \in Nat
      BY DEF AllocatorIInv, Sound
    <3>2. b.number < c.number \/ c.number < b.number
      BY <2>2, <3>1 DEF AllocatorIInv
    <3>3. b.at + b.bytes <= c.at \/ c.at + c.bytes <= b.at
      BY <3>2 DEF AllocatorIInv
    <3>4. QED BY <3>1, <3>3 DEF SA!Bytes
  <2>3. offset_ \in 0 .. Size
    BY DEF AllocatorIInv
  <2>4. QED BY <2>1, <2>2, <2>3 DEF SA!BlocksDisjoint
<1>4. QED BY <1>1, <1>2, <1>3, PTL DEF SA!Spec

-----------------------------------------------------------------------------
(* Stopwatch.                                                              *)

Calls == [op : {"start", "stop", "reset", "restart"}, at : Nat]

\* The last call left the watch running.
LastStarts == Len(calls) > 0 /\ calls[Len(calls)].op \in {"start", "restart"}

WatchTyped ==
    /\ now \in Nat /\ accumulated_ \in Nat /\ started_at_ \in 0 .. now
    /\ running_ \in BOOLEAN /\ calls \in Seq(Calls)
    /\ \A i \in 1 .. Len(calls) : calls[i].at <= now

\* The ticks that elapsed() counts.
Ran == {t \in 0 .. now - 1 : SW!RunningAt(t) /\ ~ SW!Zeroed(t)}

WatchIInv == WatchTyped /\ (running_ <=> LastStarts) /\ SW!elapsed = Cardinality(Ran)

\* The calls, one by one.
LEMMA CallTyped ==
    ASSUME calls \in Seq(Calls)
    PROVE  /\ Len(calls) \in Nat /\ DOMAIN calls = 1 .. Len(calls)
           /\ \A i \in 1 .. Len(calls) : calls[i].at \in Nat
<1>1. \A i \in 1 .. Len(calls) : calls[i] \in Calls
  OBVIOUS
<1>2. \A i \in 1 .. Len(calls) : calls[i].at \in Nat
  BY <1>1 DEF Calls
<1>3. Len(calls) \in Nat /\ DOMAIN calls = 1 .. Len(calls)
  OBVIOUS
<1>4. QED BY <1>2, <1>3

\* The instance counts like FiniteSets.
LEMMA SameCardinality == ASSUME NEW S PROVE SW!Cardinality(S) = Cardinality(S)
BY DEF SW!Cardinality, Cardinality

\* Finitely many ticks ran.
LEMMA RanFinite == now \in Nat => IsFiniteSet(Ran) /\ Cardinality(Ran) \in Nat
<1> SUFFICES ASSUME now \in Nat PROVE IsFiniteSet(Ran) /\ Cardinality(Ran) \in Nat
  OBVIOUS
<1>1. IsFiniteSet(0 .. now - 1)
  <2>1. 0 \in Int /\ now - 1 \in Int
    OBVIOUS
  <2>2. QED BY <2>1, FS_Interval
<1>2. Ran \subseteq 0 .. now - 1
  BY DEF Ran
<1>3. QED BY <1>1, <1>2, FS_Subset, FS_CardinalityType

\* A call is recorded behind the others, with the present time.
LEMMA Recorded ==
    ASSUME WatchTyped, NEW op \in {"start", "stop", "reset", "restart"}, SW!Called(op)
    PROVE  /\ Len(calls) \in Nat /\ Len(calls') = Len(calls) + 1 /\ calls' \in Seq(Calls)
           /\ \A i \in 1 .. Len(calls) : calls'[i] = calls[i]
           /\ calls'[Len(calls')].op = op /\ calls'[Len(calls')].at = now
           /\ now' = now
           /\ \A i \in 1 .. Len(calls') : calls'[i].at <= now
<1>1. PICK c \in Calls : c = [op |-> op, at |-> now]
  BY DEF Calls, WatchTyped
<1>2. calls' = Append(calls, c) /\ now' = now
  BY <1>1 DEF SW!Called
<1>3. c.op = op /\ c.at = now /\ calls \in Seq(Calls)
  BY <1>1 DEF WatchTyped
<1>4. /\ Len(calls) \in Nat /\ Len(calls') = Len(calls) + 1 /\ calls' \in Seq(Calls)
      /\ \A i \in 1 .. Len(calls) : calls'[i] = calls[i]
      /\ calls'[Len(calls) + 1] = c
  BY <1>2, <1>3
<1>5. \A i \in 1 .. Len(calls') : i \in 1 .. Len(calls) \/ i = Len(calls) + 1
  BY <1>4
<1>6. now \in Nat /\ \A i \in 1 .. Len(calls) : calls[i].at <= now
  BY DEF WatchTyped
<1>7. QED BY <1>2, <1>3, <1>4, <1>5, <1>6

\* A call changes nothing about the past ticks but that it may zero them.
LEMMA PastKept ==
    ASSUME WatchTyped, NEW op \in {"start", "stop", "reset", "restart"}, SW!Called(op),
           NEW t \in 0 .. now - 1
    PROVE  /\ SW!RunningAt(t)' <=> SW!RunningAt(t)
           /\ SW!Zeroed(t)' <=> SW!Zeroed(t) \/ op \in {"reset", "restart"}
<1>1. /\ Len(calls) \in Nat /\ Len(calls') = Len(calls) + 1
      /\ \A i \in 1 .. Len(calls) : calls'[i] = calls[i] /\ calls[i].at \in Nat
      /\ calls'[Len(calls) + 1].op = op /\ calls'[Len(calls) + 1].at = now
      /\ DOMAIN calls = 1 .. Len(calls) /\ DOMAIN calls' = 1 .. Len(calls')
      /\ now \in Nat /\ t < now /\ t \in Nat
  <2>1. /\ calls \in Seq(Calls) /\ now \in Nat /\ t < now /\ t \in Nat
    BY DEF WatchTyped
  <2>2. \A i \in 1 .. Len(calls) : calls[i].at \in Nat
    BY <2>1, CallTyped
  <2>3. QED BY <2>1, <2>2, Recorded
<1>2. /\ \A i \in 1 .. Len(calls') : i \in 1 .. Len(calls) \/ i = Len(calls) + 1
      /\ \A i \in 1 .. Len(calls) : i \in 1 .. Len(calls')
      /\ Len(calls) + 1 \in 1 .. Len(calls')
      /\ \A i \in 1 .. Len(calls) : \A j \in i + 1 .. Len(calls') :
             (j \in i + 1 .. Len(calls) /\ j \in 1 .. Len(calls)) \/ j = Len(calls) + 1
      /\ \A i \in 1 .. Len(calls) : \A j \in i + 1 .. Len(calls) :
             j \in i + 1 .. Len(calls') /\ j \in 1 .. Len(calls)
  BY <1>1
<1>3. SW!RunningAt(t) => SW!RunningAt(t)'
  BY <1>1, <1>2 DEF SW!RunningAt
<1>4. SW!RunningAt(t)' => SW!RunningAt(t)
  BY <1>1, <1>2 DEF SW!RunningAt
<1>5. SW!Zeroed(t)' <=> SW!Zeroed(t) \/ op \in {"reset", "restart"}
  BY <1>1, <1>2 DEF SW!Zeroed
<1>6. QED BY <1>3, <1>4, <1>5

\* A call that zeroes the total leaves no tick counted, another leaves them all.
LEMMA CountKept ==
    ASSUME WatchTyped, NEW op \in {"start", "stop", "reset", "restart"}, SW!Called(op)
    PROVE  Ran' = IF op \in {"reset", "restart"} THEN {} ELSE Ran
<1>1. now' = now
  BY Recorded
<1>2. \A t \in 0 .. now - 1 : /\ SW!RunningAt(t)' <=> SW!RunningAt(t)
                              /\ SW!Zeroed(t)' <=> SW!Zeroed(t) \/ op \in {"reset", "restart"}
  BY PastKept
<1>3. Ran' = {t \in 0 .. now - 1 : SW!RunningAt(t)' /\ ~ SW!Zeroed(t)'}
  BY <1>1 DEF Ran
<1>4. QED BY <1>2, <1>3 DEF Ran

\* The tick that passes is counted exactly while the watch runs.
LEMMA TickCounted ==
    ASSUME WatchIInv, SW!Tick
    PROVE  Ran' = IF running_ THEN Ran \cup {now} ELSE Ran
<1>1. now \in Nat /\ now' = now + 1 /\ calls' = calls
  BY DEF WatchIInv, WatchTyped, SW!Tick
<1>2. /\ Len(calls) \in Nat /\ DOMAIN calls = 1 .. Len(calls)
      /\ \A i \in 1 .. Len(calls) : calls[i].at \in Nat /\ calls[i].at <= now
  <2>1. calls \in Seq(Calls) /\ \A i \in 1 .. Len(calls) : calls[i].at <= now
    BY DEF WatchIInv, WatchTyped
  <2>2. QED BY <2>1, CallTyped
<1>3. \A t \in Nat : (SW!RunningAt(t)' <=> SW!RunningAt(t)) /\ (SW!Zeroed(t)' <=> SW!Zeroed(t))
  BY <1>1 DEF SW!RunningAt, SW!Zeroed
<1>4. ~ SW!Zeroed(now)
  BY <1>1, <1>2 DEF SW!Zeroed
<1>5. SW!RunningAt(now) <=> running_
  <2>1. SW!RunningAt(now) => LastStarts
    <3> SUFFICES ASSUME SW!RunningAt(now) PROVE LastStarts
      OBVIOUS
    <3>1. PICK i \in 1 .. Len(calls) :
              /\ calls[i].op \in {"start", "restart"}
              /\ \A j \in i + 1 .. Len(calls) : calls[j].at > now
      BY <1>2 DEF SW!RunningAt
    <3>2. i = Len(calls)
      <4>1. CASE i < Len(calls)
        <5>1. Len(calls) \in i + 1 .. Len(calls) /\ Len(calls) \in 1 .. Len(calls)
          BY <1>2, <4>1
        <5>2. calls[Len(calls)].at > now
          BY <3>1, <5>1
        <5>3. calls[Len(calls)].at <= now /\ calls[Len(calls)].at \in Nat
          BY <1>2, <5>1
        <5>4. QED BY <1>1, <5>2, <5>3
      <4>2. i \in Int /\ Len(calls) \in Int /\ i <= Len(calls) BY <1>2, <3>1
      <4>3. QED BY <4>1, <4>2
    <3>3. QED BY <3>1, <3>2 DEF LastStarts
  <2>2. LastStarts => SW!RunningAt(now)
    <3> SUFFICES ASSUME LastStarts PROVE SW!RunningAt(now)
      OBVIOUS
    <3>1. Len(calls) \in DOMAIN calls /\ calls[Len(calls)].at <= now
      BY <1>2 DEF LastStarts
    <3>2. Len(calls) + 1 .. Len(calls) = {}
      BY <1>2
    <3>3. QED BY <3>1, <3>2 DEF LastStarts, SW!RunningAt
  <2>3. QED BY <2>1, <2>2 DEF WatchIInv
<1>6. Ran' = {t \in 0 .. now : SW!RunningAt(t)' /\ ~ SW!Zeroed(t)'}
  <2>1. now' - 1 = now
    BY <1>1
  <2>2. QED BY <2>1 DEF Ran
<1>7. 0 .. now = (0 .. now - 1) \cup {now} /\ 0 .. now \subseteq Nat
  BY <1>1
<1>8. QED BY <1>3, <1>4, <1>5, <1>6, <1>7 DEF Ran

\* Every call and every tick keeps elapsed() exact.
LEMMA WatchStep ==
    ASSUME WatchIInv, [SW!Next]_SW!vars
    PROVE  WatchIInv'
<1>0. /\ WatchTyped /\ now \in Nat /\ accumulated_ \in Nat /\ started_at_ \in 0 .. now
      /\ calls \in Seq(Calls) /\ \A i \in 1 .. Len(calls) : calls[i].at <= now
  BY DEF WatchIInv, WatchTyped
<1>00. /\ IsFiniteSet(Ran) /\ Cardinality(Ran) \in Nat /\ Cardinality({}) = 0
       /\ SW!elapsed = Cardinality(Ran)
  BY <1>0, RanFinite, FS_EmptySet DEF WatchIInv
<1>1. CASE UNCHANGED SW!vars
  <2>1. Ran' = Ran /\ SW!elapsed' = SW!elapsed
    BY <1>1 DEF SW!vars, Ran, SW!RunningAt, SW!Zeroed, SW!elapsed, SW!WithInterval
  <2>2. QED BY <1>1, <2>1 DEF SW!vars, WatchIInv, WatchTyped, LastStarts
<1>2. CASE SW!Tick
  <2>1. now' = now + 1 /\ UNCHANGED <<running_, accumulated_, started_at_, calls>>
    BY <1>2 DEF SW!Tick
  <2>2. WatchTyped'
    <3>1. \A i \in 1 .. Len(calls) : calls[i].at \in Nat
      BY <1>0, CallTyped
    <3>2. QED BY <1>0, <2>1, <3>1 DEF WatchTyped
  <2>3. (running_ <=> LastStarts)'
    BY <2>1 DEF WatchIInv, LastStarts
  <2>4. SW!elapsed' = IF running_ THEN SW!elapsed + 1 ELSE SW!elapsed
    BY <1>0, <2>1 DEF SW!elapsed, SW!WithInterval
  <2>5. CASE running_
    <3>1. now \notin Ran
      BY <1>0 DEF Ran
    <3>2. Cardinality(Ran \cup {now}) = Cardinality(Ran) + 1
      BY <1>00, <3>1, FS_AddElement
    <3>3. Cardinality(Ran') = SW!elapsed'
      BY <1>00, <1>2, <2>4, <2>5, <3>2, TickCounted
    <3>4. QED BY <2>2, <2>3, <3>3 DEF WatchIInv
  <2>6. CASE ~ running_
    <3>1. Cardinality(Ran') = SW!elapsed'
      BY <1>00, <1>2, <2>4, <2>6, TickCounted
    <3>2. QED BY <2>2, <2>3, <3>1 DEF WatchIInv
  <2>7. QED BY <2>5, <2>6
<1>3. ASSUME NEW op \in {"start", "stop", "reset", "restart"}, SW!Called(op),
             running_' \in BOOLEAN, running_' <=> op \in {"start", "restart"}, accumulated_' \in Nat,
             started_at_' \in 0 .. now,
             SW!elapsed' = IF op \in {"reset", "restart"} THEN 0 ELSE SW!elapsed
      PROVE  WatchIInv'
  <2>0. /\ Len(calls) \in Nat /\ Len(calls') = Len(calls) + 1 /\ calls' \in Seq(Calls)
        /\ calls'[Len(calls')].op = op /\ now' = now
        /\ \A i \in 1 .. Len(calls') : calls'[i].at <= now
    BY <1>0, <1>3, Recorded
  <2>1. WatchTyped' /\ (running_ <=> LastStarts)'
    BY <1>0, <1>3, <2>0 DEF WatchTyped, LastStarts
  <2>2. Cardinality(Ran') = SW!elapsed'
    BY <1>0, <1>00, <1>3, CountKept
  <2>3. QED BY <2>1, <2>2 DEF WatchIInv
<1>4. CASE SW!Start
  <2>1. /\ SW!Called("start") /\ running_' = TRUE /\ ~ running_ /\ started_at_' = now
        /\ accumulated_' = accumulated_ /\ now' = now
    BY <1>4 DEF SW!Start, SW!Called
  <2>2. SW!elapsed' = SW!elapsed
    BY <1>0, <2>1 DEF SW!elapsed, SW!WithInterval
  <2>3. QED BY <1>0, <1>3, <2>1, <2>2
<1>5. CASE SW!Stop
  <2>1. /\ SW!Called("stop") /\ running_' = FALSE /\ running_ /\ started_at_' = started_at_
        /\ accumulated_' = accumulated_ + (now - started_at_)
    BY <1>5 DEF SW!Stop, SW!WithInterval
  <2>2. SW!elapsed' = SW!elapsed /\ accumulated_' \in Nat
    BY <1>0, <2>1 DEF SW!elapsed, SW!WithInterval
  <2>3. QED BY <1>0, <1>3, <2>1, <2>2
<1>6. CASE SW!Reset
  <2>1. /\ SW!Called("reset") /\ running_' = FALSE /\ started_at_' = started_at_
        /\ accumulated_' = 0
    BY <1>6 DEF SW!Reset
  <2>2. SW!elapsed' = 0
    BY <2>1 DEF SW!elapsed
  <2>3. QED BY <1>0, <1>3, <2>1, <2>2
<1>7. CASE SW!Restart
  <2>1. /\ SW!Called("restart") /\ running_' = TRUE /\ started_at_' = now
        /\ accumulated_' = 0 /\ now' = now
    BY <1>7 DEF SW!Restart, SW!Called
  <2>2. SW!elapsed' = 0
    BY <1>0, <2>1 DEF SW!elapsed, SW!WithInterval
  <2>3. QED BY <1>0, <1>3, <2>1, <2>2
<1>8. QED BY <1>1, <1>2, <1>4, <1>5, <1>6, <1>7 DEF SW!Next

(* After any calls at any times, elapsed() of a Stopwatch is the time it   *)
(* ran since its total was last zeroed.                                    *)
THEOREM ElapsedIsTimeRun == SW!Spec => []ElapsedExact
<1>1. SW!Init => WatchIInv
  <2> SUFFICES ASSUME SW!Init PROVE WatchIInv
    OBVIOUS
  <2>1. /\ now = 0 /\ running_ = FALSE /\ accumulated_ = 0 /\ started_at_ = 0 /\ calls = << >>
    BY DEF SW!Init
  <2>0. calls \in Seq(Calls) /\ Len(calls) = 0
    BY <2>1
  <2>2. WatchTyped /\ (running_ <=> LastStarts)
    <3>1. now \in Nat /\ accumulated_ \in Nat /\ started_at_ \in 0 .. now /\ 1 .. Len(calls) = {}
      BY <2>0, <2>1
    <3>2. ~ LastStarts
      BY <2>0 DEF LastStarts
    <3>3. QED BY <2>0, <2>1, <3>1, <3>2 DEF WatchTyped
  <2>3. Ran = {} /\ SW!elapsed = 0
    BY <2>1 DEF Ran, SW!elapsed
  <2>4. QED BY <2>2, <2>3, FS_EmptySet DEF WatchIInv
<1>2. WatchIInv /\ [SW!Next]_SW!vars => WatchIInv'
  BY WatchStep
<1>3. WatchIInv => ElapsedExact
  BY SameCardinality DEF WatchIInv, Ran, ElapsedExact, SW!ElapsedExact
<1>4. QED BY <1>1, <1>2, <1>3, PTL DEF SW!Spec

-----------------------------------------------------------------------------
(* CircularBuffer.                                                         *)

\* The slot of the i-th oldest element, and the element.
Place(i) == IF head_ + i - 1 >= Len(buffer_) THEN head_ + i - 1 - Len(buffer_) ELSE head_ + i - 1

Element(i) == buffer_[Place(i) + 1]

RingTyped ==
    /\ buffer_ \in Seq(Values \cup {CB!Vacant})
    /\ head_ \in 0 .. Len(buffer_) /\ (Len(buffer_) > 0 => head_ < Len(buffer_))
    /\ count_ \in 0 .. Len(buffer_)

\* What lies in view was pushed.
RingIInv == RingTyped /\ \A i \in 1 .. count_ : Element(i) \in Values

\* Less than two laps are reduced by one subtraction.
LEMMA Reduced ==
    ASSUME NEW n \in Nat, NEW k \in 0 .. n + n - 1
    PROVE  k % n = IF k >= n THEN k - n ELSE k
<1>1. n > 0 /\ n \in Nat /\ k \in Nat
  OBVIOUS
<1> DEFINE q == k \div n
           r == k % n
<1>2. r \in 0 .. n - 1 /\ q \in Int /\ k = n * q + r
  BY <1>1
<1> HIDE DEF q, r
<1>3. q >= 0
  BY <1>1, <1>2
<1>4. q < 2
  <2>1. CASE q >= 2
    <3>1. n * q >= n + n
      BY <1>1, <1>2, <2>1
    <3>2. QED BY <1>1, <1>2, <3>1
  <2>2. QED BY <1>2, <2>1
<1>5. CASE q = 0
  BY <1>1, <1>2, <1>5 DEF r
<1>6. CASE q = 1
  <2>1. n * q = n
    BY <1>1, <1>6
  <2>2. QED BY <1>1, <1>2, <2>1 DEF r
<1>7. QED BY <1>2, <1>3, <1>4, <1>5, <1>6

\* The places are slots, different ones, beginning at the head.
LEMMA Places ==
    ASSUME RingTyped, Len(buffer_) > 0
    PROVE  /\ Len(buffer_) \in Nat /\ head_ \in Nat /\ count_ \in Nat
           /\ \A i \in 1 .. Len(buffer_) : Place(i) \in 0 .. Len(buffer_) - 1
           /\ \A i, j \in 1 .. Len(buffer_) : Place(i) = Place(j) => i = j
           /\ Place(1) = head_
           /\ CB!TailIndex = Place(count_ + 1)
           /\ count_ > 0 => CB!BackIndex = Place(count_)
<1>1. /\ Len(buffer_) \in Nat /\ head_ \in Nat /\ head_ < Len(buffer_) /\ count_ \in Nat
  BY DEF RingTyped
<1>2. /\ \A i \in 1 .. Len(buffer_) : Place(i) \in 0 .. Len(buffer_) - 1
      /\ \A i, j \in 1 .. Len(buffer_) : Place(i) = Place(j) => i = j
      /\ Place(1) = head_
  BY <1>1 DEF Place
<1>3. /\ CB!TailIndex = Place(count_ + 1)
      /\ count_ > 0 => CB!BackIndex = Place(count_)
  BY <1>1 DEF Place, CB!TailIndex, CB!BackIndex, CB!Wrapped, CB!Capacity
<1>4. QED BY <1>1, <1>2, <1>3

\* The window is the sequence of the elements.
InView ==
    /\ CB!Window \in Seq(Values) /\ Len(CB!Window) = count_
    /\ \A i \in 1 .. count_ : CB!Window[i] = Element(i)

\* What the ring shows is what it holds.
LEMMA WindowElements == RingIInv => InView
<1> SUFFICES ASSUME RingIInv PROVE InView
  OBVIOUS
<1>1. /\ Len(buffer_) \in Nat /\ head_ \in 0 .. Len(buffer_) /\ count_ \in 0 .. Len(buffer_)
      /\ count_ \in Nat /\ (Len(buffer_) > 0 => head_ < Len(buffer_))
  BY DEF RingIInv, RingTyped
<1>2. ASSUME NEW i \in 1 .. count_ PROVE CB!Slot((head_ + i - 1) % CB!Capacity) = Element(i)
  <2>1. head_ + i - 1 \in 0 .. Len(buffer_) + Len(buffer_) - 1
    BY <1>1
  <2>2. (head_ + i - 1) % Len(buffer_) = Place(i)
    <3>1. PICK n \in Nat : n = Len(buffer_)
      BY <1>1
    <3>2. PICK k \in 0 .. n + n - 1 : k = head_ + i - 1
      BY <2>1, <3>1
    <3>3. k % n = IF k >= n THEN k - n ELSE k
      BY Reduced
    <3>4. QED BY <1>1, <3>1, <3>2, <3>3 DEF Place
  <2>3. QED BY <2>2 DEF CB!Slot, CB!Capacity, Element
<1>3. CB!Window = [i \in 1 .. count_ |-> Element(i)]
  BY <1>2 DEF CB!Window
<1>4. \A i \in 1 .. count_ : Element(i) \in Values
  BY DEF RingIInv
<1> HIDE DEF RingIInv
<1>5. [i \in 1 .. count_ |-> Element(i)] \in Seq(Values)
  BY <1>1, <1>4, IsASeq
<1>6. Len(CB!Window) = count_
  BY <1>1, <1>3, <1>5
<1>7. QED BY <1>3, <1>5, <1>6 DEF InView

\* The same after a step.
LEMMA WindowElementsNext == RingIInv' => InView'
BY WindowElements, PTL

\* The invariant gives what a reader of the ring relies on.
LEMMA RingVisible ==
    ASSUME CB!ConstantsFit, RingIInv
    PROVE  CB!TypeOK
<1>1. /\ CB!Window \in Seq(Values) /\ Len(CB!Window) = count_
      /\ \A i \in 1 .. count_ : CB!Window[i] = Element(i)
  BY WindowElements DEF InView
<1>2. RingTyped /\ count_ \in 0 .. Len(buffer_) /\ Len(buffer_) \in Nat
  BY DEF RingIInv, RingTyped
<1>3. CB!Vacant \notin {CB!Window[i] : i \in DOMAIN CB!Window}
  <2>1. \A i \in DOMAIN CB!Window : CB!Window[i] \in Values
    BY <1>1
  <2>2. QED BY <2>1 DEF CB!ConstantsFit
<1>4. ASSUME count_ > 0
      PROVE  CB!Slot(head_) = CB!Window[1] /\ CB!Slot(CB!BackIndex) = CB!Window[count_]
  <2>1. Len(buffer_) > 0 /\ 1 \in 1 .. count_ /\ count_ \in 1 .. count_
    BY <1>2, <1>4
  <2>2. Place(1) = head_ /\ CB!BackIndex = Place(count_)
    BY <1>2, <1>4, <2>1, Places
  <2>3. CB!Window[1] = Element(1) /\ CB!Window[count_] = Element(count_)
    BY <1>1, <2>1
  <2>4. QED BY <2>2, <2>3 DEF CB!Slot, Element
<1>5. QED BY <1>2, <1>3, <1>4 DEF CB!TypeOK, CB!Capacity, RingTyped

\* A store changes one slot.
LEMMA Stored ==
    ASSUME RingTyped, NEW i \in 0 .. Len(buffer_) - 1, NEW v \in Values \cup {CB!Vacant},
           CB!Store(i, v)
    PROVE  /\ buffer_' \in Seq(Values \cup {CB!Vacant}) /\ Len(buffer_') = Len(buffer_)
           /\ buffer_'[i + 1] = v
           /\ \A j \in 0 .. Len(buffer_) - 1 : j # i => buffer_'[j + 1] = buffer_[j + 1]
<1>1. buffer_ \in Seq(Values \cup {CB!Vacant}) /\ Len(buffer_) \in Nat
  BY DEF RingTyped
<1>2. PICK k \in 1 .. Len(buffer_) : k = i + 1
  BY <1>1
<1>3. buffer_' = [buffer_ EXCEPT ![k] = v]
  BY <1>2 DEF CB!Store
<1>4. /\ buffer_' \in Seq(Values \cup {CB!Vacant}) /\ Len(buffer_') = Len(buffer_)
      /\ \A j \in 1 .. Len(buffer_) : buffer_'[j] = IF j = k THEN v ELSE buffer_[j]
  BY <1>1, <1>3, ExceptSeq
<1>5. \A j \in 0 .. Len(buffer_) - 1 : j + 1 \in 1 .. Len(buffer_) /\ (j # i => j + 1 # i + 1)
  BY <1>1
<1>6. QED BY <1>2, <1>4, <1>5

\* A push behind the youngest element.
LEMMA Pushed ==
    ASSUME CB!ConstantsFit, RingIInv, NEW v \in Values, count_ < Len(buffer_),
           CB!Store(CB!TailIndex, v), count_' = count_ + 1, head_' = head_
    PROVE  RingIInv' /\ CB!Window' = Append(CB!Window, v)
<1>0. RingTyped /\ count_ \in Nat /\ Len(buffer_) \in Nat /\ Len(buffer_) > 0
  BY DEF RingIInv, RingTyped
<1>1. /\ \A i \in 1 .. Len(buffer_) : Place(i) \in 0 .. Len(buffer_) - 1
      /\ \A i, j \in 1 .. Len(buffer_) : Place(i) = Place(j) => i = j
      /\ CB!TailIndex = Place(count_ + 1)
  BY <1>0, Places
<1>2. /\ count_ + 1 \in 1 .. Len(buffer_)
      /\ \A i \in 1 .. count_ : i \in 1 .. Len(buffer_) /\ i # count_ + 1
      /\ \A i \in 1 .. count_ + 1 : i \in 1 .. count_ \/ i = count_ + 1
  BY <1>0
<1>3. /\ buffer_' \in Seq(Values \cup {CB!Vacant}) /\ Len(buffer_') = Len(buffer_)
      /\ buffer_'[Place(count_ + 1) + 1] = v
      /\ \A j \in 0 .. Len(buffer_) - 1 : j # Place(count_ + 1) => buffer_'[j + 1] = buffer_[j + 1]
  BY <1>0, <1>1, <1>2, Stored
<1>4. \A i : Place(i)' = Place(i)
  BY <1>3 DEF Place
<1>5. PICK n \in Nat : n = count_ + 1
  BY <1>0
<1>6. /\ \A i \in 1 .. count_ : Element(i)' = Element(i)
      /\ Element(n)' = v
  <2>1. \A i : Element(i)' = buffer_'[Place(i) + 1] /\ Element(i) = buffer_[Place(i) + 1]
    BY <1>4 DEF Element
  <2>2. \A i \in 1 .. count_ : Place(i) \in 0 .. Len(buffer_) - 1 /\ Place(i) # Place(n)
    BY <1>1, <1>2, <1>5
  <2>3. buffer_'[Place(n) + 1] = v
    BY <1>3, <1>5
  <2>4. \A i \in 1 .. count_ : buffer_'[Place(i) + 1] = buffer_[Place(i) + 1]
    BY <1>3, <1>5, <2>2
  <2>5. QED BY <2>1, <2>3, <2>4
<1>7. RingTyped'
  BY <1>0, <1>2, <1>3 DEF RingTyped
<1>8. RingIInv'
  <2>1. \A i \in 1 .. count_ : Element(i) \in Values
    BY DEF RingIInv
  <2>2. \A i \in 1 .. count_' : Element(i)' \in Values
    BY <1>2, <1>5, <1>6, <2>1
  <2>3. QED BY <1>7, <2>2 DEF RingIInv
<1>9. /\ CB!Window \in Seq(Values) /\ Len(CB!Window) = count_
      /\ \A i \in 1 .. count_ : CB!Window[i] = Element(i)
  BY WindowElements DEF InView
<1>10. /\ CB!Window' \in Seq(Values) /\ Len(CB!Window') = n
       /\ \A i \in 1 .. n : CB!Window'[i] = Element(i)'
  BY <1>5, <1>8, WindowElementsNext DEF InView
<1>11. /\ Append(CB!Window, v) \in Seq(Values) /\ Len(Append(CB!Window, v)) = n
       /\ \A i \in 1 .. count_ : Append(CB!Window, v)[i] = Element(i)
       /\ Append(CB!Window, v)[n] = v
  BY <1>5, <1>9, AppendProperties
<1>12. \A i \in 1 .. n : CB!Window'[i] = Append(CB!Window, v)[i]
  BY <1>2, <1>5, <1>6, <1>10, <1>11
<1>13. CB!Window' = Append(CB!Window, v)
  BY <1>10, <1>11, <1>12, SeqEqual
<1>14. QED BY <1>8, <1>13

\* When the head advances, everyone moves up by one place and the place of the
\* oldest becomes the last.
LEMMA Shifted ==
    ASSUME RingTyped, Len(buffer_) > 0, head_' = CB!AdvanceIndex(head_), Len(buffer_') = Len(buffer_)
    PROVE  /\ head_' \in 0 .. Len(buffer_) - 1
           /\ \A i \in 1 .. Len(buffer_) :
                  Place(i)' = IF i = Len(buffer_) THEN head_ ELSE Place(i + 1)
<1>1. /\ Len(buffer_) \in Nat /\ head_ \in Nat /\ head_ < Len(buffer_)
      /\ head_' = IF head_ + 1 = Len(buffer_) THEN 0 ELSE head_ + 1
  BY DEF RingTyped, CB!AdvanceIndex, CB!Capacity
<1>2. \A i : Place(i)' = IF head_' + i - 1 >= Len(buffer_) THEN head_' + i - 1 - Len(buffer_)
                         ELSE head_' + i - 1
  BY DEF Place
<1>3. QED BY <1>1, <1>2 DEF Place

\* The oldest element's slot is stored to and left: the others move up.
LEMMA Dropped ==
    ASSUME RingIInv, count_ > 0, NEW v \in Values \cup {CB!Vacant}, CB!Store(head_, v),
           head_' = CB!AdvanceIndex(head_)
    PROVE  /\ buffer_' \in Seq(Values \cup {CB!Vacant}) /\ Len(buffer_') = Len(buffer_)
           /\ head_' \in 0 .. Len(buffer_) - 1
           /\ \A i \in 1 .. count_ - 1 : Element(i)' = Element(i + 1)
           /\ \A n \in Nat : n = Len(buffer_) => Element(n)' = v
           /\ CB!Slot(head_) = Element(1)
<1>0. RingTyped /\ count_ \in 0 .. Len(buffer_) /\ Len(buffer_) \in Nat /\ Len(buffer_) > 0
  BY DEF RingIInv, RingTyped
<1>1. /\ \A i \in 1 .. Len(buffer_) : Place(i) \in 0 .. Len(buffer_) - 1
      /\ \A i, j \in 1 .. Len(buffer_) : Place(i) = Place(j) => i = j
      /\ Place(1) = head_
  BY <1>0, Places
<1>2. 1 \in 1 .. Len(buffer_) /\ head_ \in 0 .. Len(buffer_) - 1
  BY <1>0, <1>1
<1>3. /\ buffer_' \in Seq(Values \cup {CB!Vacant}) /\ Len(buffer_') = Len(buffer_)
      /\ buffer_'[head_ + 1] = v
      /\ \A j \in 0 .. Len(buffer_) - 1 : j # head_ => buffer_'[j + 1] = buffer_[j + 1]
  BY <1>0, <1>2, Stored
<1>4. /\ head_' \in 0 .. Len(buffer_) - 1
      /\ \A i \in 1 .. Len(buffer_) :
             Place(i)' = IF i = Len(buffer_) THEN head_ ELSE Place(i + 1)
  BY <1>0, <1>3, Shifted
<1>5. \A i : Element(i)' = buffer_'[Place(i)' + 1] /\ Element(i) = buffer_[Place(i) + 1]
  BY DEF Element
<1>6. ASSUME NEW i \in 1 .. count_ - 1 PROVE Element(i)' = Element(i + 1)
  <2>1. i \in 1 .. Len(buffer_) /\ i # Len(buffer_) /\ i + 1 \in 1 .. Len(buffer_) /\ i + 1 # 1
    BY <1>0
  <2>2. Place(i)' = Place(i + 1) /\ Place(i + 1) \in 0 .. Len(buffer_) - 1 /\ Place(i + 1) # head_
    BY <1>1, <1>2, <1>4, <2>1
  <2>3. QED BY <1>3, <1>5, <2>2
<1>7. ASSUME NEW n \in Nat, n = Len(buffer_) PROVE Element(n)' = v
  <2>1. Place(n)' = head_
    BY <1>0, <1>4, <1>7
  <2>2. QED BY <1>3, <1>5, <2>1
<1>8. CB!Slot(head_) = Element(1)
  BY <1>1 DEF CB!Slot, Element
<1>9. QED BY <1>3, <1>4, <1>6, <1>7, <1>8

\* The window without its first element.
LEMMA WindowTail ==
    ASSUME RingIInv, count_ > 0
    PROVE  /\ CB!Window # << >> /\ Head(CB!Window) = Element(1)
           /\ Tail(CB!Window) \in Seq(Values) /\ Len(Tail(CB!Window)) = count_ - 1
           /\ \A i \in 1 .. count_ - 1 : Tail(CB!Window)[i] = Element(i + 1)
<1>1. /\ CB!Window \in Seq(Values) /\ Len(CB!Window) = count_
      /\ \A i \in 1 .. count_ : CB!Window[i] = Element(i)
  BY WindowElements DEF InView
<1>2. count_ \in Nat /\ 1 \in 1 .. count_ /\ \A i \in 1 .. count_ - 1 : i + 1 \in 1 .. count_
  BY DEF RingIInv, RingTyped
<1>3. PICK w \in Seq(Values) : w = CB!Window
  BY <1>1
<1>4. w # << >> /\ Head(w) = w[1]
  BY <1>1, <1>2, <1>3
<1>5. /\ Tail(w) \in Seq(Values) /\ Len(Tail(w)) = count_ - 1
      /\ \A i \in 1 .. count_ - 1 : Tail(w)[i] = w[i + 1]
  BY <1>1, <1>3, <1>4, HeadTailProperties
<1>6. QED BY <1>1, <1>2, <1>3, <1>4, <1>5

\* pop() of a ring that is not empty.
LEMMA Popped ==
    ASSUME RingIInv, count_ > 0, CB!Store(head_, CB!Vacant),
           head_' = CB!AdvanceIndex(head_), count_' = count_ - 1
    PROVE  RingIInv' /\ CB!Window' = Tail(CB!Window)
<1>0. RingTyped /\ count_ \in 0 .. Len(buffer_) /\ Len(buffer_) \in Nat
      /\ \A i \in 1 .. count_ : Element(i) \in Values
  BY DEF RingIInv, RingTyped
<1>1. /\ buffer_' \in Seq(Values \cup {CB!Vacant}) /\ Len(buffer_') = Len(buffer_)
      /\ head_' \in 0 .. Len(buffer_) - 1
      /\ \A i \in 1 .. count_ - 1 : Element(i)' = Element(i + 1)
  BY Dropped
<1>2. RingTyped'
  BY <1>0, <1>1 DEF RingTyped
<1>3. RingIInv'
  <2>1. \A i \in 1 .. count_ - 1 : i + 1 \in 1 .. count_
    BY <1>0
  <2>2. \A i \in 1 .. count_' : Element(i)' \in Values
    BY <1>0, <1>1, <2>1
  <2>3. QED BY <1>2, <2>2 DEF RingIInv
<1>4. /\ CB!Window' \in Seq(Values) /\ Len(CB!Window') = count_ - 1
      /\ \A i \in 1 .. count_ - 1 : CB!Window'[i] = Element(i)'
  BY <1>3, WindowElementsNext DEF InView
<1>5. /\ Tail(CB!Window) \in Seq(Values) /\ Len(Tail(CB!Window)) = count_ - 1
      /\ \A i \in 1 .. count_ - 1 : Tail(CB!Window)[i] = Element(i + 1)
  BY WindowTail
<1>6. \A i \in 1 .. count_ - 1 : CB!Window'[i] = Tail(CB!Window)[i]
  BY <1>1, <1>4, <1>5
<1>7. CB!Window' = Tail(CB!Window)
  BY <1>4, <1>5, <1>6, SeqEqual
<1>8. QED BY <1>3, <1>7

\* push_overwrite() on a full ring.
LEMMA Overwritten ==
    ASSUME RingIInv, count_ = Len(buffer_), count_ > 0, NEW v \in Values, CB!Store(head_, v),
           head_' = CB!AdvanceIndex(head_), count_' = count_
    PROVE  RingIInv' /\ CB!Window' = Append(Tail(CB!Window), v)
<1>0. RingTyped /\ count_ \in Nat /\ \A i \in 1 .. count_ : Element(i) \in Values
  BY DEF RingIInv, RingTyped
<1>1. PICK n \in Nat : n = count_
  BY <1>0
<1>2. /\ buffer_' \in Seq(Values \cup {CB!Vacant}) /\ Len(buffer_') = n
      /\ head_' \in 0 .. n - 1
      /\ \A i \in 1 .. n - 1 : Element(i)' = Element(i + 1)
      /\ Element(n)' = v
  BY <1>1, Dropped
<1>3. \A i \in 1 .. n : (i \in 1 .. n - 1 /\ i + 1 \in 1 .. n) \/ i = n
  OBVIOUS
<1>4. RingTyped'
  BY <1>0, <1>1, <1>2 DEF RingTyped
<1>5. RingIInv'
  <2>1. \A i \in 1 .. count_' : Element(i)' \in Values
    BY <1>0, <1>1, <1>2, <1>3
  <2>2. QED BY <1>4, <2>1 DEF RingIInv
<1>6. /\ CB!Window' \in Seq(Values) /\ Len(CB!Window') = n
      /\ \A i \in 1 .. n : CB!Window'[i] = Element(i)'
  BY <1>1, <1>5, WindowElementsNext DEF InView
<1>7. PICK w \in Seq(Values) : w = Tail(CB!Window) /\ Len(w) = n - 1
                               /\ \A i \in 1 .. n - 1 : w[i] = Element(i + 1)
  BY <1>1, WindowTail
<1>8. /\ Append(w, v) \in Seq(Values) /\ Len(Append(w, v)) = n
      /\ \A i \in 1 .. n - 1 : Append(w, v)[i] = w[i]
      /\ Append(w, v)[n] = v
  BY <1>7, AppendProperties
<1>9. \A i \in 1 .. n : CB!Window'[i] = Append(w, v)[i]
  BY <1>2, <1>3, <1>6, <1>7, <1>8
<1>10. CB!Window' = Append(w, v)
  BY <1>6, <1>8, <1>9, SeqEqual
<1>11. QED BY <1>5, <1>7, <1>10

\* A ring without elements shows none.
LEMMA Emptied == RingIInv => (count_ = 0 <=> CB!Window = << >>)
<1> SUFFICES ASSUME RingIInv PROVE count_ = 0 <=> CB!Window = << >>
  OBVIOUS
<1>1. PICK w \in Seq(Values) : w = CB!Window /\ Len(w) = count_
  BY WindowElements DEF InView
<1>2. Len(w) = 0 <=> w = << >>
  BY EmptySeq
<1>3. QED BY <1>1, <1>2

\* The same after a step.
LEMMA EmptiedNext == RingIInv' => (count_' = 0 <=> CB!Window' = << >>)
<1> SUFFICES ASSUME RingIInv' PROVE count_' = 0 <=> CB!Window' = << >>
  OBVIOUS
<1>1. PICK w \in Seq(Values) : w = CB!Window' /\ Len(w) = count_'
  BY WindowElementsNext DEF InView
<1>2. Len(w) = 0 <=> w = << >>
  BY EmptySeq
<1>3. QED BY <1>1, <1>2

\* Every operation keeps the ring and acts on the sequence it shows.
LEMMA RingStep ==
    ASSUME CB!ConstantsFit, RingIInv, CB!Next
    PROVE  RingIInv' /\ CB!SequenceStep
<1>0. RingTyped /\ Len(buffer_) \in Nat /\ count_ \in 0 .. Len(buffer_) /\ count_ \in Nat
  BY DEF RingIInv, RingTyped
<1>1. ASSUME UNCHANGED <<buffer_, head_, count_>> PROVE RingIInv' /\ CB!Window' = CB!Window
  <2>1. RingIInv'
    BY <1>1 DEF RingIInv, RingTyped, Element, Place
  <2>2. CB!Window' = CB!Window
    BY <1>1 DEF CB!Window, CB!Slot, CB!Capacity
  <2>3. QED BY <2>1, <2>2
<1>2. ASSUME NEW capacity \in Capacities, CB!Construct(capacity) PROVE RingIInv' /\ CB!SequenceStep
  <2>1. /\ buffer_' = [i \in 1 .. capacity |-> CB!Vacant] /\ capacity \in Nat
        /\ count_' = 0 /\ head_' = 0 /\ done'.op = "construct"
    BY <1>0, <1>2 DEF CB!Construct, CB!Capacity, CB!Done, RingTyped, CB!ConstantsFit
  <2>2. buffer_' \in Seq(Values \cup {CB!Vacant}) /\ Len(buffer_') = capacity
    BY <2>1
  <2>3. RingIInv'
    BY <2>1, <2>2 DEF RingIInv, RingTyped
  <2>4. CB!Window' = << >>
    BY <2>1, <2>3, EmptiedNext
  <2>5. QED BY <2>1, <2>3, <2>4 DEF CB!SequenceStep
<1>3. ASSUME NEW v \in Values, CB!TryPush(v), Len(buffer_) > 0 PROVE RingIInv' /\ CB!SequenceStep
  <2>1. CASE CB!IsFull
    <3>1. UNCHANGED <<buffer_, head_, count_>> /\ done' = [op |-> "try_push", arg |-> v, res |-> FALSE]
      BY <1>3, <2>1 DEF CB!TryPush, CB!Done
    <3>2. done'.op = "try_push" /\ ~ done'.res
      BY <3>1
    <3>3. RingIInv' /\ CB!Window' = CB!Window
      BY <1>1, <3>1
    <3>4. CB!SequenceStep
      BY <2>1, <3>2, <3>3 DEF CB!SequenceStep
    <3>5. QED BY <3>3, <3>4
  <2>2. CASE ~ CB!IsFull
    <3>1. /\ CB!Store(CB!TailIndex, v) /\ count_' = count_ + 1 /\ head_' = head_
          /\ done' = [op |-> "try_push", arg |-> v, res |-> TRUE]
      BY <1>3, <2>2 DEF CB!TryPush, CB!Done
    <3>2. done'.op = "try_push" /\ done'.res /\ done'.arg = v
      BY <3>1
    <3>3. count_ < Len(buffer_)
      BY <1>0, <2>2 DEF CB!IsFull, CB!Capacity
    <3>4. RingIInv' /\ CB!Window' = Append(CB!Window, v)
      BY <3>1, <3>3, Pushed
    <3>5. CB!SequenceStep
      BY <2>2, <3>2, <3>4 DEF CB!SequenceStep
    <3>6. QED BY <3>4, <3>5
  <2>3. QED BY <2>1, <2>2
<1>4. ASSUME NEW v \in Values, CB!PushOverwrite(v), Len(buffer_) > 0 PROVE RingIInv' /\ CB!SequenceStep
  <2>0. done'.op = "push_overwrite" /\ done'.arg = v
    <3>1. done' = [op |-> "push_overwrite", arg |-> v, res |-> TRUE]
      BY <1>4 DEF CB!PushOverwrite, CB!Done
    <3>2. QED BY <3>1
  <2>1. CASE CB!IsFull
    <3>1. CB!Store(head_, v) /\ count_' = count_ /\ head_' = CB!AdvanceIndex(head_)
      BY <1>4, <2>1 DEF CB!PushOverwrite, CB!NextHead
    <3>2. count_ = Len(buffer_) /\ count_ > 0
      BY <1>4, <2>1 DEF CB!IsFull, CB!Capacity
    <3>3. RingIInv' /\ CB!Window' = Append(Tail(CB!Window), v)
      BY <3>1, <3>2, Overwritten
    <3>4. CB!SequenceStep
      BY <2>0, <2>1, <3>3 DEF CB!SequenceStep
    <3>5. QED BY <3>3, <3>4
  <2>2. CASE ~ CB!IsFull
    <3>1. CB!Store(CB!TailIndex, v) /\ count_' = count_ + 1 /\ head_' = head_
      BY <1>4, <2>2 DEF CB!PushOverwrite
    <3>2. count_ < Len(buffer_)
      BY <1>0, <2>2 DEF CB!IsFull, CB!Capacity
    <3>3. RingIInv' /\ CB!Window' = Append(CB!Window, v)
      BY <3>1, <3>2, Pushed
    <3>4. CB!SequenceStep
      BY <2>0, <2>2, <3>3 DEF CB!SequenceStep
    <3>5. QED BY <3>3, <3>4
  <2>3. QED BY <2>1, <2>2
<1>5. CASE CB!Pop
  <2>1. CASE count_ = 0
    <3>1. UNCHANGED <<buffer_, head_, count_>>
          /\ done' = [op |-> "pop", arg |-> CB!Vacant, res |-> CB!Vacant]
      BY <1>5, <2>1 DEF CB!Pop, CB!Done
    <3>2. done'.op = "pop" /\ done'.res = CB!Vacant
      BY <3>1
    <3>3. RingIInv' /\ CB!Window' = CB!Window /\ CB!Window = << >>
      BY <1>1, <2>1, <3>1, Emptied
    <3>4. CB!SequenceStep
      BY <3>2, <3>3 DEF CB!SequenceStep
    <3>5. QED BY <3>3, <3>4
  <2>2. CASE count_ > 0
    <3>1. /\ CB!Store(head_, CB!Vacant) /\ head_' = CB!AdvanceIndex(head_) /\ count_' = count_ - 1
          /\ done' = [op |-> "pop", arg |-> CB!Vacant, res |-> CB!Slot(head_)]
      BY <1>0, <1>5, <2>2 DEF CB!Pop, CB!Done
    <3>2. done'.op = "pop" /\ done'.res = CB!Slot(head_)
      BY <3>1
    <3>3. RingIInv' /\ CB!Window' = Tail(CB!Window)
      BY <2>2, <3>1, Popped
    <3>4. CB!Window # << >> /\ Head(CB!Window) = CB!Slot(head_)
      BY <2>2, <3>1, Dropped, WindowTail
    <3>5. CB!SequenceStep
      BY <3>2, <3>3, <3>4 DEF CB!SequenceStep
    <3>6. QED BY <3>3, <3>5
  <2>3. QED BY <1>0, <2>1, <2>2
<1>6. ASSUME CB!Clear, Len(buffer_) > 0 PROVE RingIInv' /\ CB!SequenceStep
  <2>1. head_' = 0 /\ count_' = 0 /\ buffer_' = buffer_ /\ done'.op = "clear"
    BY <1>6 DEF CB!Clear, CB!Done
  <2>2. RingIInv'
    BY <1>0, <2>1 DEF RingIInv, RingTyped
  <2>3. CB!Window' = << >>
    BY <2>1, <2>2, EmptiedNext
  <2>4. QED BY <2>1, <2>2, <2>3 DEF CB!SequenceStep
<1>7. QED BY <1>2, <1>3, <1>4, <1>5, <1>6 DEF CB!Next, CB!Capacity

(* Pushes, overwriting pushes, pops and clears of a CircularBuffer of any  *)
(* capacity act on a bounded sequence: where the indices wrap never shows, *)
(* and no slot that was vacated or never written comes into view.          *)
THEOREM RingActsAsSequence == CB!Spec => ActsAsSequence
<1>1. CB!Init => RingIInv
  <2> SUFFICES ASSUME CB!Init PROVE RingIInv
    OBVIOUS
  <2>1. buffer_ = << >> /\ head_ = 0 /\ count_ = 0
    BY DEF CB!Init
  <2>2. buffer_ \in Seq(Values \cup {CB!Vacant}) /\ Len(buffer_) = 0
    BY <2>1
  <2>3. QED BY <2>1, <2>2 DEF RingIInv, RingTyped
<1>2. RingIInv /\ [CB!Next]_CB!vars => RingIInv' /\ [CB!SequenceStep]_CB!vars
  <2> SUFFICES ASSUME RingIInv, [CB!Next]_CB!vars
               PROVE  RingIInv' /\ [CB!SequenceStep]_CB!vars
    OBVIOUS
  <2>1. CASE CB!Next
    BY <2>1, PartsAssumption, RingStep
  <2>2. CASE UNCHANGED CB!vars
    BY <2>2 DEF CB!vars, RingIInv, RingTyped, Element, Place
  <2>3. QED BY <2>1, <2>2
<1>3. RingIInv => CB!TypeOK
  BY PartsAssumption, RingVisible
<1>4. QED BY <1>1, <1>2, <1>3, PTL DEF CB!Spec, ActsAsSequence, CB!ActsAsSequence

-----------------------------------------------------------------------------
(* FileStream.                                                             *)

\* The largest of some numbers.
LEMMA MaxIs ==
    ASSUME NEW T, NEW m \in T, T \subseteq Int, \A n \in T : n <= m
    PROVE  FS!Max(T) = m
<1> DEFINE c == CHOOSE x \in T : \A y \in T : x >= y
<1>1. \A x \in T : (\A y \in T : x >= y) => x = m OBVIOUS
<1>2. \E x \in T : \A y \in T : x >= y OBVIOUS
<1>3. c \in T /\ \A y \in T : c >= y BY <1>2
<1>4. c = m BY <1>1, <1>3
<1>5. QED BY <1>4 DEF FS!Max

\* The smallest of some numbers.
LEMMA MinIs ==
    ASSUME NEW T, NEW m \in T, T \subseteq Int, \A n \in T : m <= n
    PROVE  FS!Min(T) = m
<1> DEFINE c == CHOOSE x \in T : \A y \in T : x =< y
<1>1. \A x \in T : (\A y \in T : x =< y) => x = m OBVIOUS
<1>2. \E x \in T : \A y \in T : x =< y OBVIOUS
<1>3. c \in T /\ \A y \in T : c =< y BY <1>2
<1>4. c = m BY <1>1, <1>3
<1>5. QED BY <1>4 DEF FS!Min

\* The smaller of two numbers.
LEMMA Smaller ==
    ASSUME NEW m \in Nat, NEW n \in Nat
    PROVE  FS!Min({m, n}) \in Nat /\ FS!Min({m, n}) <= m /\ FS!Min({m, n}) <= n
<1>1. CASE m <= n
  <2>1. FS!Min({m, n}) = m BY <1>1, MinIs
  <2>2. QED BY <1>1, <2>1
<1>2. CASE n < m
  <2>1. FS!Min({m, n}) = n BY <1>2, MinIs
  <2>2. QED BY <1>2, <2>1
<1>3. QED BY <1>1, <1>2

\* Some number of a set of them is the least.
LEMMA Least ==
    ASSUME NEW T, T \subseteq Nat, T # {}
    PROVE  \E m \in T : \A n \in T : m <= n
<1>1. PICK m \in T : \A n \in T : ~ (<<n, m>> \in OpToRel(<, Nat))
  BY NatLessThanWellFounded, WFMin
<1>2. ASSUME NEW n \in T PROVE m <= n
  <2>1. n \in Nat /\ m \in Nat OBVIOUS
  <2>2. CASE n < m
    <3>1. <<n, m>> \in OpToRel(<, Nat) BY <2>1, <2>2 DEF OpToRel
    <3>2. QED BY <1>1, <3>1
  <2>3. QED BY <2>1, <2>2
<1>3. QED BY <1>2

\* A part of a sequence.
LEMMA Cut ==
    ASSUME NEW s \in Seq(Nat), NEW m \in Int, NEW n \in Int, 1 <= m, m <= n + 1, n <= Len(s)
    PROVE  /\ SubSeq(s, m, n) \in Seq(Nat)
           /\ Len(SubSeq(s, m, n)) = n - m + 1
           /\ \A i \in 1 .. n - m + 1 : SubSeq(s, m, n)[i] = s[m + i - 1]
<1>1. Len(s) \in Nat BY LenProperties
<1>2. \A i \in m .. n : s[i] \in Nat BY <1>1, ElementOfSeq
<1>3. QED BY <1>2, SubSeqProperties

\* The n elements of a sequence that follow the first m.
LEMMA Slice ==
    ASSUME NEW s \in Seq(Nat), NEW m \in Nat, NEW n \in Nat, m + n <= Len(s)
    PROVE  /\ SubSeq(s, m + 1, m + n) \in Seq(Nat)
           /\ Len(SubSeq(s, m + 1, m + n)) = n
           /\ \A i \in 1 .. n : SubSeq(s, m + 1, m + n)[i] = s[m + i]
<1> DEFINE from_ == m + 1
           to_ == m + n
<1>1. /\ from_ \in Int /\ to_ \in Int /\ 1 <= from_ /\ from_ <= to_ + 1 /\ to_ <= Len(s)
      /\ to_ - from_ + 1 = n /\ \A i \in 1 .. n : from_ + i - 1 = m + i
  OBVIOUS
<1> HIDE DEF from_, to_
<1>2. /\ SubSeq(s, from_, to_) \in Seq(Nat) /\ Len(SubSeq(s, from_, to_)) = to_ - from_ + 1
      /\ \A i \in 1 .. to_ - from_ + 1 : SubSeq(s, from_, to_)[i] = s[from_ + i - 1]
  BY <1>1, Cut
<1>3. /\ SubSeq(s, from_, to_) \in Seq(Nat) /\ Len(SubSeq(s, from_, to_)) = n
      /\ \A i \in 1 .. n : SubSeq(s, from_, to_)[i] = s[m + i]
  BY <1>1, <1>2
<1>4. QED BY <1>3 DEF from_, to_

\* The beginning of a sequence.
LEMMA Beginning ==
    ASSUME NEW s \in Seq(Nat), NEW n \in Nat, n <= Len(s)
    PROVE  /\ SubSeq(s, 1, n) \in Seq(Nat) /\ Len(SubSeq(s, 1, n)) = n
           /\ \A i \in 1 .. n : SubSeq(s, 1, n)[i] = s[i]
<1>1. n - 1 + 1 = n /\ (\A i \in 1 .. n : 1 + i - 1 = i) /\ 1 <= n + 1
  OBVIOUS
<1>2. /\ SubSeq(s, 1, n) \in Seq(Nat) /\ Len(SubSeq(s, 1, n)) = n - 1 + 1
      /\ \A i \in 1 .. n - 1 + 1 : SubSeq(s, 1, n)[i] = s[1 + i - 1]
  BY <1>1, Cut
<1>3. QED BY <1>1, <1>2

\* A sequence that agrees with a part of the file is that part.
LEMMA IsPart ==
    ASSUME NEW f \in Seq(Nat), NEW s \in Seq(Nat), NEW m \in Nat, m + Len(s) <= Len(f),
           \A i \in 1 .. Len(s) : s[i] = f[m + i]
    PROVE  s = SubSeq(f, m + 1, m + Len(s))
<1> DEFINE p == SubSeq(f, m + 1, m + Len(s))
<1>1. Len(s) \in Nat BY LenProperties
<1>2. p \in Seq(Nat) /\ Len(p) = Len(s) /\ \A i \in 1 .. Len(s) : p[i] = f[m + i]
  BY <1>1, Slice
<1> HIDE DEF p
<1>3. \A i \in 1 .. Len(s) : s[i] = p[i] BY <1>2
<1>4. s = p BY <1>2, <1>3, SeqEqual
<1>5. QED BY <1>4 DEF p

\* Bytes joined.
LEMMA Joined ==
    ASSUME NEW s \in Seq(Nat), NEW t \in Seq(Nat), NEW u \in Seq(Nat)
    PROVE  (s \o t) \o u = s \o (t \o u)
BY ConcatAssociative

\* q is the last place of s that holds b.
LastAt(s, q, b) == q \in 1 .. Len(s) /\ s[q] = b /\ \A k \in q + 1 .. Len(s) : s[k] # b

\* The bytes of a are in s, their last copies in the order of a.
KeptIn(s, a) ==
    /\ \A i \in 1 .. Len(a) : \E q : LastAt(s, q, a[i])
    /\ \A i, j \in 1 .. Len(a) : \A q, r :
          i < j /\ LastAt(s, q, a[i]) /\ LastAt(s, r, a[j]) => q < r

\* The place HoldsAccepted looks at.
LastCopy(s, b) == FS!Max({0} \cup {i \in DOMAIN s : s[i] = b})

\* It is the last place that holds the byte.
LEMMA LastIs ==
    ASSUME NEW s \in Seq(Nat), NEW b, NEW q, LastAt(s, q, b)
    PROVE  LastCopy(s, b) = q
<1> DEFINE T == {0} \cup {i \in DOMAIN s : s[i] = b}
<1>1. Len(s) \in Nat /\ DOMAIN s = 1 .. Len(s) OBVIOUS
<1>2. q \in T /\ T \subseteq Int BY <1>1 DEF LastAt
<1>3. \A n \in T : n <= q BY <1>1 DEF LastAt
<1>4. QED BY <1>2, <1>3, MaxIs DEF LastCopy

\* So bytes kept in s are held by it.
LEMMA Held ==
    ASSUME NEW s \in Seq(Nat), accepted \in Seq(Nat), KeptIn(s, accepted)
    PROVE  FS!HoldsAccepted(s)
<1>1. ASSUME NEW i \in 1 .. Len(accepted)
      PROVE  /\ LastCopy(s, accepted[i]) \in Nat \ {0}
             /\ LastAt(s, LastCopy(s, accepted[i]), accepted[i])
  <2>1. PICK q : LastAt(s, q, accepted[i]) BY DEF KeptIn
  <2>2. q \in Nat \ {0} BY <2>1 DEF LastAt
  <2>3. LastCopy(s, accepted[i]) = q BY <2>1, LastIs
  <2>4. QED BY <2>1, <2>2, <2>3
<1>2. DOMAIN accepted = 1 .. Len(accepted) OBVIOUS
<1>3. \A b \in FS!Range(accepted) : LastCopy(s, b) > 0
  BY <1>1, <1>2 DEF FS!Range
<1>4. \A i, j \in DOMAIN accepted : i < j => LastCopy(s, accepted[i]) < LastCopy(s, accepted[j])
  BY <1>1, <1>2 DEF KeptIn
<1>5. QED BY <1>3, <1>4 DEF FS!HoldsAccepted, LastCopy

\* Bytes appended to s move no last copy of another byte ...
LEMMA LastOld ==
    ASSUME NEW s \in Seq(Nat), NEW x \in Seq(Nat), NEW b, NEW q,
           \A k \in 1 .. Len(x) : x[k] # b
    PROVE  LastAt(s \o x, q, b) <=> LastAt(s, q, b)
<1>1. /\ Len(s) \in Nat /\ Len(x) \in Nat /\ Len(s \o x) = Len(s) + Len(x)
      /\ \A k \in 1 .. Len(s) + Len(x) :
            (s \o x)[k] = IF k <= Len(s) THEN s[k] ELSE x[k - Len(s)]
  BY ConcatProperties
<1>2. ASSUME LastAt(s, q, b) PROVE LastAt(s \o x, q, b)
  <2>1. q \in 1 .. Len(s) /\ s[q] = b /\ \A k \in q + 1 .. Len(s) : s[k] # b
    BY <1>2 DEF LastAt
  <2>2. q \in 1 .. Len(s \o x) /\ (s \o x)[q] = b BY <1>1, <2>1
  <2>3. ASSUME NEW k \in q + 1 .. Len(s \o x) PROVE (s \o x)[k] # b
    <3>1. CASE k <= Len(s) BY <1>1, <2>1, <3>1
    <3>2. CASE k > Len(s)
      <4>1. k - Len(s) \in 1 .. Len(x) /\ (s \o x)[k] = x[k - Len(s)] BY <1>1, <2>1, <3>2
      <4>2. QED BY <4>1
    <3>3. QED BY <1>1, <2>1, <3>1, <3>2
  <2>4. QED BY <2>2, <2>3 DEF LastAt
<1>3. ASSUME LastAt(s \o x, q, b) PROVE LastAt(s, q, b)
  <2>1. /\ q \in 1 .. Len(s) + Len(x) /\ (s \o x)[q] = b
        /\ \A k \in q + 1 .. Len(s) + Len(x) : (s \o x)[k] # b
    BY <1>1, <1>3 DEF LastAt
  <2>2. q <= Len(s)
    <3>1. CASE q > Len(s)
      <4>1. q - Len(s) \in 1 .. Len(x) /\ (s \o x)[q] = x[q - Len(s)] BY <1>1, <2>1, <3>1
      <4>2. QED BY <2>1, <4>1
    <3>2. QED BY <1>1, <2>1, <3>1
  <2>3. \A k \in q + 1 .. Len(s) : s[k] # b BY <1>1, <2>1
  <2>4. QED BY <1>1, <2>1, <2>2, <2>3 DEF LastAt
<1>4. QED BY <1>2, <1>3

\* ... and the last copies of ascending bytes are where they were appended.
LEMMA LastNew ==
    ASSUME NEW s \in Seq(Nat), NEW x \in Seq(Nat), NEW k \in 1 .. Len(x), NEW q,
           \A i, j \in 1 .. Len(x) : i < j => x[i] < x[j]
    PROVE  LastAt(s \o x, q, x[k]) <=> q = Len(s) + k
<1>1. /\ Len(s) \in Nat /\ Len(x) \in Nat /\ Len(s \o x) = Len(s) + Len(x)
      /\ \A i \in 1 .. Len(s) + Len(x) :
            (s \o x)[i] = IF i <= Len(s) THEN s[i] ELSE x[i - Len(s)]
  BY ConcatProperties
<1>2. \A i \in 1 .. Len(x) : x[i] \in Nat /\ (i # k => x[i] # x[k])
  OBVIOUS
<1>3. \A i \in 1 .. Len(x) : (s \o x)[Len(s) + i] = x[i]
  BY <1>1
<1>4. ASSUME q = Len(s) + k PROVE LastAt(s \o x, q, x[k])
  <2>1. ASSUME NEW i \in q + 1 .. Len(s \o x) PROVE (s \o x)[i] # x[k]
    <3>1. i - Len(s) \in 1 .. Len(x) /\ i - Len(s) # k /\ i = Len(s) + (i - Len(s))
      BY <1>1, <1>4
    <3>2. QED BY <1>2, <1>3, <3>1
  <2>2. q \in 1 .. Len(s \o x) /\ (s \o x)[q] = x[k] BY <1>1, <1>3, <1>4
  <2>3. QED BY <2>1, <2>2 DEF LastAt
<1>5. ASSUME LastAt(s \o x, q, x[k]) PROVE q = Len(s) + k
  <2>1. /\ q \in 1 .. Len(s) + Len(x) /\ (s \o x)[q] = x[k]
        /\ \A i \in q + 1 .. Len(s) + Len(x) : (s \o x)[i] # x[k]
    BY <1>1, <1>5 DEF LastAt
  <2>2. ~ (Len(s) + k \in q + 1 .. Len(s) + Len(x)) BY <1>3, <2>1
  <2>3. q >= Len(s) + k BY <1>1, <2>1, <2>2
  <2>4. q - Len(s) \in 1 .. Len(x) /\ q = Len(s) + (q - Len(s)) BY <1>1, <2>1, <2>3
  <2>5. x[q - Len(s)] = x[k] BY <1>3, <2>1, <2>4
  <2>6. QED BY <1>1, <1>2, <2>4, <2>5
<1>6. QED BY <1>4, <1>5

\* What is kept stays kept when other bytes are appended, a prefix of a block
\* that failed half way for one.
LEMMA KeptWithOthers ==
    ASSUME NEW s \in Seq(Nat), NEW x \in Seq(Nat), NEW a \in Seq(Nat), KeptIn(s, a),
           \A i \in 1 .. Len(a), k \in 1 .. Len(x) : x[k] # a[i]
    PROVE  KeptIn(s \o x, a)
<1>1. ASSUME NEW i \in 1 .. Len(a), NEW q
      PROVE  LastAt(s \o x, q, a[i]) <=> LastAt(s, q, a[i])
  BY LastOld
<1>2. ASSUME NEW i \in 1 .. Len(a) PROVE \E q : LastAt(s \o x, q, a[i])
  BY <1>1 DEF KeptIn
<1>3. ASSUME NEW i \in 1 .. Len(a), NEW j \in 1 .. Len(a), NEW q, NEW r,
             i < j, LastAt(s \o x, q, a[i]), LastAt(s \o x, r, a[j])
      PROVE  q < r
  <2>1. LastAt(s, q, a[i]) /\ LastAt(s, r, a[j]) BY <1>1, <1>3
  <2>2. QED BY <1>3, <2>1 DEF KeptIn
<1>4. QED BY <1>2, <1>3 DEF KeptIn

\* A block written whole is kept with the rest.
LEMMA KeptWithBlock ==
    ASSUME NEW s \in Seq(Nat), NEW x \in Seq(Nat), NEW a \in Seq(Nat), KeptIn(s, a),
           \A i \in 1 .. Len(a), k \in 1 .. Len(x) : x[k] # a[i],
           \A i, j \in 1 .. Len(x) : i < j => x[i] < x[j]
    PROVE  KeptIn(s \o x, a \o x)
<1>1. /\ Len(a) \in Nat /\ Len(x) \in Nat /\ Len(s) \in Nat
      /\ Len(a \o x) = Len(a) + Len(x)
      /\ \A i \in 1 .. Len(a) + Len(x) :
            (a \o x)[i] = IF i <= Len(a) THEN a[i] ELSE x[i - Len(a)]
  BY ConcatProperties
<1>2. ASSUME NEW i \in 1 .. Len(a), NEW q
      PROVE  LastAt(s \o x, q, a[i]) <=> LastAt(s, q, a[i])
  BY LastOld
<1>3. ASSUME NEW i \in 1 .. Len(a), NEW q, LastAt(s, q, a[i])
      PROVE  q \in Int /\ q <= Len(s)
  BY <1>1, <1>3 DEF LastAt
<1>4. ASSUME NEW k \in 1 .. Len(x), NEW q
      PROVE  LastAt(s \o x, q, x[k]) <=> q = Len(s) + k
  BY LastNew
<1>5. ASSUME NEW i \in 1 .. Len(a) + Len(x)
      PROVE  \/ i \in 1 .. Len(a) /\ (a \o x)[i] = a[i]
             \/ i - Len(a) \in 1 .. Len(x) /\ (a \o x)[i] = x[i - Len(a)]
  BY <1>1
<1>6. ASSUME NEW i \in 1 .. Len(a) + Len(x) PROVE \E q : LastAt(s \o x, q, (a \o x)[i])
  <2>1. CASE i \in 1 .. Len(a) /\ (a \o x)[i] = a[i]
    BY <1>2, <2>1 DEF KeptIn
  <2>2. CASE i - Len(a) \in 1 .. Len(x) /\ (a \o x)[i] = x[i - Len(a)]
    BY <1>4, <2>2
  <2>3. QED BY <1>5, <2>1, <2>2
<1>7. ASSUME NEW i \in 1 .. Len(a) + Len(x), NEW j \in 1 .. Len(a) + Len(x), NEW q, NEW r,
             i < j, LastAt(s \o x, q, (a \o x)[i]), LastAt(s \o x, r, (a \o x)[j])
      PROVE  q < r
  <2>1. CASE j \in 1 .. Len(a) /\ (a \o x)[j] = a[j]
    <3>1. i \in 1 .. Len(a) /\ (a \o x)[i] = a[i] BY <1>1, <1>7, <2>1
    <3>2. LastAt(s, q, a[i]) /\ LastAt(s, r, a[j]) BY <1>2, <1>7, <2>1, <3>1
    <3>3. QED BY <1>7, <2>1, <3>1, <3>2 DEF KeptIn
  <2>2. CASE j - Len(a) \in 1 .. Len(x) /\ (a \o x)[j] = x[j - Len(a)]
    <3>1. r = Len(s) + (j - Len(a)) BY <1>4, <1>7, <2>2
    <3>2. CASE i \in 1 .. Len(a) /\ (a \o x)[i] = a[i]
      <4>1. q \in Int /\ q <= Len(s) BY <1>2, <1>3, <1>7, <3>2
      <4>2. QED BY <1>1, <2>2, <3>1, <4>1
    <3>3. CASE i - Len(a) \in 1 .. Len(x) /\ (a \o x)[i] = x[i - Len(a)]
      <4>1. q = Len(s) + (i - Len(a)) BY <1>4, <1>7, <3>3
      <4>2. QED BY <1>1, <1>7, <3>1, <4>1
    <3>4. QED BY <1>5, <3>2, <3>3
  <2>3. QED BY <1>5, <2>1, <2>2
<1>8. QED BY <1>1, <1>6, <1>7 DEF KeptIn

-----------------------------------------------------------------------------
\* acc are ascending serial numbers of the first n bytes handed to write().
Serials(acc, n) ==
    /\ \A i \in 1 .. Len(acc) : 100 < acc[i] /\ acc[i] <= 100 + n
    /\ \A i, j \in 1 .. Len(acc) : i < j => acc[i] < acc[j]

\* The bytes of acc are in the file f but for the last of them, the buffer b.
Kept(f, b, acc) ==
    \E a \in Seq(Nat) : acc = a \o b /\ KeptIn(f, a)

\* f begins with g.
StartsWith(f, g) == Len(g) <= Len(f) /\ \A i \in 1 .. Len(g) : f[i] = g[i]

\* x is the beginning of a block.
PartOf(x, b) == Len(x) <= Len(b) /\ \A k \in 1 .. Len(x) : x[k] = b[k]

\* The parts of a sequence of ascending serials are apart.
LEMMA SerialParts ==
    ASSUME NEW n \in Nat, NEW a \in Seq(Nat), NEW b \in Seq(Nat), Serials(a \o b, n)
    PROVE  /\ \A i \in 1 .. Len(a), k \in 1 .. Len(b) : b[k] # a[i]
           /\ \A i, j \in 1 .. Len(b) : i < j => b[i] < b[j]
<1>1. /\ Len(a) \in Nat /\ Len(b) \in Nat /\ Len(a \o b) = Len(a) + Len(b)
      /\ \A i \in 1 .. Len(a) + Len(b) :
            (a \o b)[i] = IF i <= Len(a) THEN a[i] ELSE b[i - Len(a)]
  BY ConcatProperties
<1>2. \A i \in 1 .. Len(a) : (a \o b)[i] = a[i] /\ a[i] \in Nat BY <1>1
<1>3. \A k \in 1 .. Len(b) : (a \o b)[Len(a) + k] = b[k] /\ b[k] \in Nat BY <1>1
<1>4. ASSUME NEW i \in 1 .. Len(a), NEW k \in 1 .. Len(b) PROVE b[k] # a[i]
  <2>1. /\ i \in 1 .. Len(a \o b) /\ Len(a) + k \in 1 .. Len(a \o b) /\ i < Len(a) + k
    BY <1>1
  <2>2. (a \o b)[i] < (a \o b)[Len(a) + k] BY <2>1 DEF Serials
  <2>3. QED BY <1>2, <1>3, <2>2
<1>5. ASSUME NEW i \in 1 .. Len(b), NEW j \in 1 .. Len(b), i < j PROVE b[i] < b[j]
  <2>1. /\ Len(a) + i \in 1 .. Len(a \o b) /\ Len(a) + j \in 1 .. Len(a \o b)
        /\ Len(a) + i < Len(a) + j
    BY <1>1, <1>5
  <2>2. (a \o b)[Len(a) + i] < (a \o b)[Len(a) + j] BY <2>1 DEF Serials
  <2>3. QED BY <1>3, <2>2
<1>6. QED BY <1>4, <1>5

\* A flush that fails half way leaves the file and the buffer with every byte.
LEMMA FlushFailedKept ==
    ASSUME NEW n \in Nat, NEW f \in Seq(Nat), NEW b \in Seq(Nat), NEW acc \in Seq(Nat),
           NEW x \in Seq(Nat), PartOf(x, b), Kept(f, b, acc), Serials(acc, n)
    PROVE  Kept(f \o x, b, acc)
<1>1. PICK a \in Seq(Nat) : acc = a \o b /\ KeptIn(f, a) BY DEF Kept
<1>2. \A i \in 1 .. Len(a), k \in 1 .. Len(b) : b[k] # a[i] BY <1>1, SerialParts
<1>3. \A i \in 1 .. Len(a), k \in 1 .. Len(x) : x[k] # a[i]
  <2>1. Len(x) \in Nat /\ Len(b) \in Nat OBVIOUS
  <2>2. QED BY <1>2, <2>1 DEF PartOf
<1>4. KeptIn(f \o x, a) BY <1>1, <1>3, KeptWithOthers
<1>5. QED BY <1>1, <1>4 DEF Kept

\* A flush that succeeds leaves every byte in the file.
LEMMA FlushedKept ==
    ASSUME NEW n \in Nat, NEW f \in Seq(Nat), NEW b \in Seq(Nat), NEW acc \in Seq(Nat),
           Kept(f, b, acc), Serials(acc, n)
    PROVE  Kept(f \o b, << >>, acc)
<1>1. PICK a \in Seq(Nat) : acc = a \o b /\ KeptIn(f, a) BY DEF Kept
<1>2. KeptIn(f \o b, a \o b) BY <1>1, SerialParts, KeptWithBlock
<1>3. acc = acc \o << >> BY ConcatEmptySeq
<1>4. QED BY <1>1, <1>2, <1>3 DEF Kept

\* The next block carries serials nobody has seen.
LEMMA FreshSerials ==
    ASSUME NEW n \in Nat, NEW m \in Nat, NEW acc \in Seq(Nat), NEW src \in Seq(Nat),
           Serials(acc, n), Len(src) = m, \A i \in 1 .. m : src[i] = 100 + n + i
    PROVE  Serials(acc \o src, n + m) /\ Serials(acc, n + m)
<1>1. /\ Len(acc) \in Nat /\ Len(acc \o src) = Len(acc) + m
      /\ \A i \in 1 .. Len(acc) + m :
            (acc \o src)[i] = IF i <= Len(acc) THEN acc[i] ELSE src[i - Len(acc)]
  BY ConcatProperties
<1>2. \A i \in 1 .. Len(acc) : acc[i] \in Nat /\ 100 < acc[i] /\ acc[i] <= 100 + n
  BY DEF Serials
<1>3. ASSUME NEW i \in 1 .. Len(acc) + m
      PROVE  \/ i \in 1 .. Len(acc) /\ (acc \o src)[i] = acc[i]
             \/ i - Len(acc) \in 1 .. m /\ (acc \o src)[i] = 100 + n + (i - Len(acc))
  BY <1>1
<1>4. ASSUME NEW i \in 1 .. Len(acc) + m
      PROVE  100 < (acc \o src)[i] /\ (acc \o src)[i] <= 100 + (n + m)
  BY <1>1, <1>2, <1>3
<1>5. ASSUME NEW i \in 1 .. Len(acc) + m, NEW j \in 1 .. Len(acc) + m, i < j
      PROVE  (acc \o src)[i] < (acc \o src)[j]
  <2>1. CASE j \in 1 .. Len(acc) /\ (acc \o src)[j] = acc[j]
    BY <1>1, <1>5, <2>1 DEF Serials
  <2>2. CASE j - Len(acc) \in 1 .. m /\ (acc \o src)[j] = 100 + n + (j - Len(acc))
    BY <1>1, <1>2, <1>3, <1>5, <2>2
  <2>3. QED BY <1>3, <2>1, <2>2
<1>6. Serials(acc \o src, n + m) BY <1>1, <1>4, <1>5 DEF Serials
<1>7. Serials(acc, n + m) BY <1>1, <1>2 DEF Serials
<1>8. QED BY <1>6, <1>7

\* A block that is buffered is kept there.
LEMMA BufferedKept ==
    ASSUME NEW f \in Seq(Nat), NEW b \in Seq(Nat), NEW acc \in Seq(Nat),
           NEW src \in Seq(Nat), Kept(f, b, acc)
    PROVE  Kept(f, b \o src, acc \o src)
<1>1. PICK a \in Seq(Nat) : acc = a \o b /\ KeptIn(f, a) BY DEF Kept
<1>2. acc \o src = a \o (b \o src) BY <1>1, ConcatAssociative
<1>3. QED BY <1>1, <1>2 DEF Kept

\* A block written past the empty buffer is kept whole, or disturbs nothing.
LEMMA LargeKept ==
    ASSUME NEW n \in Nat, NEW f \in Seq(Nat), NEW acc \in Seq(Nat),
           NEW src \in Seq(Nat), NEW x \in Seq(Nat), PartOf(x, src),
           Kept(f, << >>, acc), Serials(acc \o src, n)
    PROVE  Kept(f \o src, << >>, acc \o src) /\ Kept(f \o x, << >>, acc)
<1>1. PICK a \in Seq(Nat) : acc = a \o << >> /\ KeptIn(f, a) BY DEF Kept
<1>2. a = acc /\ acc \o << >> = acc BY <1>1, ConcatEmptySeq
<1>3. /\ \A i \in 1 .. Len(acc), k \in 1 .. Len(src) : src[k] # acc[i]
      /\ \A i, j \in 1 .. Len(src) : i < j => src[i] < src[j]
  BY SerialParts
<1>4. \A i \in 1 .. Len(acc), k \in 1 .. Len(x) : x[k] # acc[i]
  <2>1. Len(x) \in Nat /\ Len(src) \in Nat OBVIOUS
  <2>2. QED BY <1>3, <2>1 DEF PartOf
<1>5. KeptIn(f \o src, acc \o src) BY <1>1, <1>2, <1>3, KeptWithBlock
<1>6. KeptIn(f \o x, acc) BY <1>1, <1>2, <1>4, KeptWithOthers
<1>7. acc \o src \in Seq(Nat) /\ (acc \o src) \o << >> = acc \o src
  BY ConcatProperties, ConcatEmptySeq
<1>8. QED BY <1>2, <1>5, <1>6, <1>7 DEF Kept

\* What is appended to the file changes none of its beginning.
LEMMA StartKept ==
    ASSUME NEW f \in Seq(Nat), NEW g \in Seq(Nat), NEW x \in Seq(Nat), StartsWith(f, g)
    PROVE  StartsWith(f \o x, g)
<1>1. /\ Len(f) \in Nat /\ Len(g) \in Nat /\ Len(x) \in Nat /\ Len(f \o x) = Len(f) + Len(x)
      /\ \A i \in 1 .. Len(f) + Len(x) :
            (f \o x)[i] = IF i <= Len(f) THEN f[i] ELSE x[i - Len(f)]
  BY ConcatProperties
<1>2. QED BY <1>1 DEF StartsWith

-----------------------------------------------------------------------------
\* The types of the stream.
StreamTyped ==
    /\ is_open \in BOOLEAN /\ error_ \in BOOLEAN /\ eof_ \in BOOLEAN
    /\ mode_ \in {"read", "write", "append"}
    /\ pc \in {"idle", "read", "readEnd", "line", "lineEnd"}
    /\ size \in Nat /\ (is_open => size > 0)
    /\ buffer \in Seq(Nat) /\ Len(buffer) <= size
    /\ base \in Seq(Nat) /\ file \in Seq(Nat) /\ got \in Seq(Nat) /\ accepted \in Seq(Nat)
    /\ offset \in Nat /\ want \in Nat /\ from \in Nat
    /\ tried \in Nat /\ tried <= MaxBytes /\ failures \in Nat /\ failures <= MaxFailures

\* A stream that was never opened is as it was constructed.
Unopened ==
    size = 0 =>
        /\ mode_ = "read" /\ buffer = << >> /\ base = << >> /\ file = << >> /\ accepted = << >>
        /\ offset = 0 /\ from = 0 /\ tried = 0 /\ ~ error_ /\ pc = "idle"

\* The buffer holds the bytes before the descriptor's position.
Position ==
    /\ offset <= Len(file)
    /\ mode_ = "read" =>
          /\ from + Len(buffer) <= offset
          /\ \A i \in 1 .. Len(buffer) : buffer[i] = file[offset - Len(buffer) + i]
    /\ mode_ # "read" => from = 0 /\ offset = 0

\* A read in progress has what was served since it began, and knows why it ended.
Served ==
    /\ pc # "idle" =>
          /\ is_open /\ mode_ = "read" /\ ret.op = "none"
          /\ Len(got) = offset - Len(buffer) - from
          /\ \A i \in 1 .. Len(got) : got[i] = file[from + i]
    /\ pc \in {"read", "readEnd"} => Len(got) <= want
    /\ pc \in {"line", "lineEnd"} => \A i \in 1 .. Len(got) : got[i] # FS!LF
    /\ pc \in {"readEnd", "lineEnd"} =>
          buffer = << >> /\ (error_ \/ (eof_ /\ offset = Len(file)))

\* What write() accepted is in the file or in the buffer.
Intact ==
    is_open /\ FS!Writing =>
        /\ Kept(file, buffer, accepted)
        /\ StartsWith(file, base)
        /\ ~ error_ => file \o buffer = base \o accepted

\* The inductive invariant: SuccessMeansWritten and the two parts of ReadsExact
\* speak of the last answer, the others of the stream that gave it.
StreamIInv ==
    /\ StreamTyped /\ Unopened /\ Position /\ Served /\ Intact /\ Serials(accepted, tried)
    /\ FS!SuccessMeansWritten /\ FS!BytesExact /\ FS!LinesExact

\* The three properties of the last answer say nothing of the other calls.
LEMMA OtherAnswer ==
    ASSUME ret'.op \notin {"flush", "close", "read", "line"}
    PROVE  FS!SuccessMeansWritten' /\ FS!BytesExact' /\ FS!LinesExact'
BY DEF FS!SuccessMeansWritten, FS!BytesExact, FS!LinesExact

\* A default-constructed stream.
LEMMA StreamInit == FS!Init => StreamIInv
<1> SUFFICES ASSUME FS!Init PROVE StreamIInv
  OBVIOUS
<1>1. << >> \in Seq(Nat) /\ Len(<< >>) = 0 /\ MaxBytes \in Nat /\ MaxFailures \in Nat
  BY EmptySeq, PartsAssumption DEF FS!ConstantsFit
<1>2. StreamTyped
  <2>1. /\ is_open \in BOOLEAN /\ error_ \in BOOLEAN /\ eof_ \in BOOLEAN /\ ~ is_open
        /\ mode_ \in {"read", "write", "append"}
        /\ pc \in {"idle", "read", "readEnd", "line", "lineEnd"}
    BY DEF FS!Init
  <2>2. /\ size = 0 /\ Len(buffer) = 0 /\ offset = 0 /\ want = 0 /\ from = 0 /\ tried = 0
        /\ failures = 0 /\ buffer \in Seq(Nat) /\ base \in Seq(Nat) /\ file \in Seq(Nat)
        /\ got \in Seq(Nat) /\ accepted \in Seq(Nat)
    BY <1>1 DEF FS!Init
  <2>3. QED BY <1>1, <2>1, <2>2 DEF StreamTyped
<1>3. Unopened /\ Position /\ Served /\ Intact /\ Serials(accepted, tried)
  BY <1>1 DEF FS!Init, Unopened, Position, Served, Intact, FS!Writing, Serials
<1>4. FS!SuccessMeansWritten /\ FS!BytesExact /\ FS!LinesExact
  BY DEF FS!Init, FS!SuccessMeansWritten, FS!BytesExact, FS!LinesExact
<1>5. QED BY <1>2, <1>3, <1>4 DEF StreamIInv

\* The files open() finds.
LEMMA ContentsTyped == \A contents \in FS!Contents : contents \in Seq(Nat)
<1>1. FS!FileBytes \subseteq Nat BY DEF FS!FileBytes, FS!Other, FS!CR, FS!LF
<1>2. SUFFICES ASSUME NEW contents \in FS!Contents PROVE contents \in Seq(Nat)
  OBVIOUS
<1>3. PICK m \in 0 .. MaxContent : contents \in [1 .. m -> FS!FileBytes]
  BY <1>2 DEF FS!Contents, FS!BoundedSeq, FS!SeqOf
<1>4. m \in Nat BY <1>3, PartsAssumption DEF FS!ConstantsFit
<1>5. contents \in [1 .. m -> Nat] BY <1>1, <1>3
<1>6. QED BY <1>4, <1>5, SeqDef

\* The larger of the buffer's size and one.
LEMMA SizeTyped ==
    ASSUME NEW n \in Nat
    PROVE  FS!Max({n, 1}) \in Nat \ {0}
<1>1. CASE n >= 1
  <2>1. FS!Max({n, 1}) = n BY <1>1, MaxIs
  <2>2. QED BY <1>1, <2>1
<1>2. CASE n < 1
  <2>1. FS!Max({n, 1}) = 1 BY <1>2, MaxIs
  <2>2. QED BY <2>1
<1>3. QED BY <1>1, <1>2

\* open() fills a stream that was never opened, whether it succeeds or not.
LEMMA OpenKeeps ==
    ASSUME StreamIInv, size = 0, NEW mode \in {"read", "append", "write"},
           NEW s \in BufferSizes,
           \/ \E contents \in FS!Contents : FS!Open(mode, s, contents)
           \/ FS!OpenFails(mode, s)
    PROVE  StreamIInv'
<1> USE DEF FS!readerVars, FS!writerVars, FS!Returned
<1>1. StreamTyped /\ Position /\ Served /\ Serials(accepted, tried)
  BY DEF StreamIInv
<1>2. /\ buffer = << >> /\ accepted = << >> /\ offset = 0 /\ from = 0 /\ tried = 0
      /\ pc = "idle" /\ file = << >>
  BY DEF StreamIInv, Unopened
<1>3. s \in Nat BY PartsAssumption DEF FS!ConstantsFit
<1>4. size' \in Nat \ {0} /\ ret'.op = "open" /\ mode_' = mode
  BY <1>3, SizeTyped DEF FS!Open, FS!OpenFails
<1>5. /\ UNCHANGED <<buffer, accepted, offset, from, want, got, tried, failures, eof_, pc>>
  BY DEF FS!Open, FS!OpenFails
<1>6. file' \in Seq(Nat) /\ base' \in Seq(Nat) /\ (is_open' => base' = file')
  <2>1. CASE FS!OpenFails(mode, s)
    <3>1. ~ is_open BY <1>1 DEF StreamTyped
    <3>2. QED BY <1>1, <2>1, <3>1 DEF FS!OpenFails, StreamTyped
  <2>2. ASSUME NEW contents \in FS!Contents, FS!Open(mode, s, contents)
        PROVE  file' \in Seq(Nat) /\ base' = file'
    BY <2>2, ContentsTyped, EmptySeq DEF FS!Open, FS!OsOpen
  <2>3. QED BY <2>1, <2>2
<1>7. StreamTyped'
  <2>1. is_open' \in BOOLEAN /\ error_' \in BOOLEAN
    BY <1>1 DEF FS!Open, FS!OpenFails, StreamTyped
  <2>2. QED BY <1>1, <1>2, <1>4, <1>5, <1>6, <2>1, EmptySeq DEF StreamTyped
<1>8. Unopened' /\ Position' /\ Served'
  <2>1. Len(file') \in Nat /\ Len(buffer') = 0 BY <1>2, <1>5, <1>6, EmptySeq
  <2>2. QED BY <1>2, <1>4, <1>5, <2>1 DEF Unopened, Position, Served
<1>9. Intact'
  <2>1. SUFFICES ASSUME is_open', FS!Writing' PROVE Intact'
    BY DEF Intact
  <2>2. KeptIn(file', << >>) BY DEF KeptIn
  <2>3. Kept(file', << >>, << >>)
    <3>1. << >> \in Seq(Nat) /\ << >> = << >> \o << >> BY EmptySeq, ConcatEmptySeq
    <3>2. QED BY <2>2, <3>1 DEF Kept
  <2>4. StartsWith(file', base') BY <1>6, <2>1 DEF StartsWith
  <2>5. file' \o << >> = base' \o << >> BY <1>6, <2>1
  <2>6. QED BY <1>2, <1>5, <2>3, <2>4, <2>5 DEF Intact
<1>10. Serials(accepted, tried)' BY <1>1, <1>5 DEF Serials
<1>11. QED BY <1>4, <1>7, <1>8, <1>9, <1>10, OtherAnswer DEF StreamIInv

\* A refused call changes nothing but the answer.
LEMMA RefusedKeeps ==
    ASSUME StreamIInv, NEW op \in {"read", "line", "write"}, FS!Refused(op)
    PROVE  StreamIInv'
<1> USE DEF FS!readerVars, FS!writerVars, FS!openVars, FS!Returned, FS!Writing
<1>1. /\ UNCHANGED <<is_open, mode_, size, buffer, error_, eof_, base, file, offset, pc,
                     want, from, got, tried, accepted, failures>>
      /\ pc = "idle" /\ ret'.op = op /\ ret'.ok = FALSE
      /\ ~ is_open \/ (op \in {"read", "line"} /\ FS!Writing) \/ (op = "write" /\ ~ FS!Writing)
  BY DEF FS!Refused
<1>2. StreamTyped' /\ Unopened' /\ Position' /\ Served' /\ Intact' /\ Serials(accepted, tried)'
  BY <1>1 DEF StreamIInv, StreamTyped, Unopened, Position, Served, Intact, Serials
<1>3. FS!SuccessMeansWritten' /\ FS!BytesExact' /\ FS!LinesExact'
  BY <1>1 DEF FS!SuccessMeansWritten, FS!BytesExact, FS!LinesExact
<1>4. QED BY <1>2, <1>3 DEF StreamIInv

\* A step of a read leaves what is written alone.
LEMMA ReaderStep ==
    ASSUME StreamIInv, is_open, mode_ = "read",
           UNCHANGED <<is_open, mode_, size, base, file, tried, accepted, failures>>,
           StreamTyped', Position', Served', FS!BytesExact', FS!LinesExact'
    PROVE  StreamIInv'
<1>1. size # 0 BY DEF StreamIInv, StreamTyped
<1>2. Unopened' /\ Intact' /\ FS!SuccessMeansWritten' /\ Serials(accepted, tried)'
  BY <1>1 DEF Unopened, Intact, FS!SuccessMeansWritten, FS!Writing, StreamIInv, Serials
<1>3. QED BY <1>2 DEF StreamIInv

\* read() or read_line() begins.
LEMMA BeginReadKeeps ==
    ASSUME StreamIInv, NEW loop \in {"read", "line"}, NEW n \in Nat, FS!BeginRead(loop, n)
    PROVE  StreamIInv'
<1> USE DEF FS!readerVars, FS!writerVars, FS!openVars, FS!Returned
<1>1. StreamTyped /\ Position BY DEF StreamIInv
<1>2. /\ is_open /\ mode_ = "read" /\ ret'.op = "none" /\ pc' = loop /\ want' = n
      /\ got' = << >> /\ from' = offset - Len(buffer)
      /\ UNCHANGED <<is_open, mode_, size, base, file, tried, accepted, failures, buffer,
                     error_, eof_, offset>>
  BY DEF FS!BeginRead, FS!Consumed
<1>3. Len(got') = 0 /\ got' \in Seq(Nat) BY <1>2, EmptySeq
<1>4. Len(buffer) \in Nat /\ from + Len(buffer) <= offset /\ from \in Nat /\ offset \in Nat
  BY <1>1, <1>2, LenProperties DEF StreamTyped, Position
<1>5. from' \in Nat /\ from' + Len(buffer) <= offset BY <1>2, <1>4
<1>6. StreamTyped' BY <1>1, <1>2, <1>3, <1>5 DEF StreamTyped
<1>7. Position' BY <1>1, <1>2, <1>5 DEF Position
<1>8. Served' BY <1>2, <1>3, <1>4 DEF Served
<1>9. QED BY <1>2, <1>6, <1>7, <1>8, OtherAnswer, ReaderStep

\* What a read that needs bytes has.
LEMMA Needy ==
    ASSUME StreamIInv, FS!NeedsFill
    PROVE  /\ is_open /\ mode_ = "read" /\ ret.op = "none" /\ pc \in {"read", "line"}
           /\ buffer = << >> /\ Len(buffer) = 0
           /\ Len(got) = offset - from /\ \A i \in 1 .. Len(got) : got[i] = file[from + i]
<1>1. buffer = << >> /\ pc \in {"read", "line"} BY DEF FS!NeedsFill
<1>2. Len(buffer) = 0 /\ offset \in Nat /\ from \in Nat
  BY <1>1, EmptySeq DEF StreamIInv, StreamTyped
<1>3. QED BY <1>1, <1>2 DEF StreamIInv, Served

\* fill_buffer() gets some bytes.
LEMMA FillOkKeeps ==
    ASSUME StreamIInv, NEW n \in 1 .. size, FS!FillOk(n)
    PROVE  StreamIInv'
<1> USE DEF FS!readerVars, FS!writerVars, FS!openVars
<1>1. StreamTyped /\ Position BY DEF StreamIInv
<1>2. /\ FS!NeedsFill /\ offset + n <= Len(file)
      /\ buffer' = SubSeq(file, offset + 1, offset + n) /\ offset' = offset + n
      /\ UNCHANGED <<is_open, mode_, size, base, file, tried, accepted, failures, error_,
                     eof_, pc, want, from, got, ret>>
  BY DEF FS!FillOk
<1>3. /\ is_open /\ mode_ = "read" /\ ret.op = "none" /\ pc \in {"read", "line"}
      /\ buffer = << >> /\ Len(buffer) = 0
      /\ Len(got) = offset - from /\ \A i \in 1 .. Len(got) : got[i] = file[from + i]
  BY <1>2, Needy
<1>4. /\ size \in Nat /\ offset \in Nat /\ from \in Nat /\ file \in Seq(Nat)
      /\ Len(file) \in Nat /\ from <= offset
  BY <1>1, <1>3, LenProperties DEF StreamTyped, Position
<1>5. n \in Nat /\ n >= 1 /\ n <= size BY <1>4
<1>6. /\ buffer' \in Seq(Nat) /\ Len(buffer') = n
      /\ \A i \in 1 .. n : buffer'[i] = file[offset + i]
  BY <1>2, <1>4, <1>5, Slice
<1>7. StreamTyped' BY <1>1, <1>2, <1>4, <1>5, <1>6 DEF StreamTyped
<1>8. Position'
  <2>1. offset' <= Len(file') /\ from' + Len(buffer') <= offset' BY <1>2, <1>4, <1>5, <1>6
  <2>2. \A i \in 1 .. Len(buffer') : buffer'[i] = file'[offset' - Len(buffer') + i]
    <3>1. offset' - Len(buffer') = offset BY <1>2, <1>4, <1>5, <1>6
    <3>2. QED BY <1>2, <1>6, <3>1
  <2>3. QED BY <1>2, <1>3, <2>1, <2>2 DEF Position
<1>9. Served'
  <2>1. Len(got') = offset' - Len(buffer') - from' BY <1>2, <1>3, <1>4, <1>5, <1>6
  <2>2. Served BY DEF StreamIInv
  <2>3. QED BY <1>2, <1>3, <2>1, <2>2 DEF Served
<1>10. QED BY <1>2, <1>3, <1>7, <1>8, <1>9, OtherAnswer, ReaderStep

\* fill_buffer() meets the end of the file, or an error.
LEMMA FillEndsKeeps ==
    ASSUME StreamIInv, FS!FillEof \/ FS!FillFails
    PROVE  StreamIInv'
<1> USE DEF FS!readerVars, FS!writerVars, FS!openVars
<1>1. StreamTyped /\ Position /\ Served BY DEF StreamIInv
<1>2. /\ FS!NeedsFill /\ pc' = FS!AfterFailedFill
      /\ UNCHANGED <<is_open, mode_, size, base, file, tried, accepted, failures, buffer,
                     offset, want, from, got, ret>>
      /\ \/ eof_' = TRUE /\ offset = Len(file) /\ UNCHANGED error_
         \/ error_' = TRUE /\ UNCHANGED eof_
  BY DEF FS!FillEof, FS!FillFails
<1>3. /\ is_open /\ mode_ = "read" /\ ret.op = "none" /\ pc \in {"read", "line"}
      /\ buffer = << >>
  BY <1>2, Needy
<1>4. \/ pc = "line" /\ pc' = "lineEnd"
      \/ pc = "read" /\ pc' = "readEnd"
  BY <1>2, <1>3 DEF FS!AfterFailedFill
<1>5. StreamTyped' BY <1>1, <1>2, <1>4 DEF StreamTyped
<1>6. Position' BY <1>1, <1>2 DEF Position
<1>7. Served'
  <2>1. error_' \/ (eof_' /\ offset' = Len(file')) BY <1>2
  <2>2. QED BY <1>1, <1>2, <1>3, <1>4, <2>1 DEF Served
<1>8. QED BY <1>2, <1>3, <1>5, <1>6, <1>7, OtherAnswer, ReaderStep

\* The first bytes of the buffer go to the caller.
LEMMA Taken ==
    ASSUME StreamIInv, pc # "idle", NEW take \in Nat, take <= Len(buffer)
    PROVE  /\ SubSeq(buffer, 1, take) \in Seq(Nat) /\ Len(SubSeq(buffer, 1, take)) = take
           /\ \A i \in 1 .. take : SubSeq(buffer, 1, take)[i] = buffer[i]
           /\ got \o SubSeq(buffer, 1, take) \in Seq(Nat)
           /\ Len(got \o SubSeq(buffer, 1, take)) = Len(got) + take
           /\ \A i \in 1 .. Len(got) + take :
                 (got \o SubSeq(buffer, 1, take))[i] = file[from + i]
<1> DEFINE b == SubSeq(buffer, 1, take)
<1>1. /\ buffer \in Seq(Nat) /\ Len(buffer) \in Nat /\ got \in Seq(Nat) /\ Len(got) \in Nat
      /\ offset \in Nat /\ from \in Nat
  BY LenProperties DEF StreamIInv, StreamTyped
<1>2. /\ Len(got) = offset - Len(buffer) - from
      /\ \A i \in 1 .. Len(got) : got[i] = file[from + i]
      /\ \A i \in 1 .. Len(buffer) : buffer[i] = file[offset - Len(buffer) + i]
  BY DEF StreamIInv, Served, Position
<1>3. b \in Seq(Nat) /\ Len(b) = take /\ \A i \in 1 .. take : b[i] = buffer[i]
  BY <1>1, Beginning
<1> HIDE DEF b
<1>4. /\ got \o b \in Seq(Nat) /\ Len(got \o b) = Len(got) + take
      /\ \A i \in 1 .. Len(got) + take :
            (got \o b)[i] = IF i <= Len(got) THEN got[i] ELSE b[i - Len(got)]
  BY <1>1, <1>3, ConcatProperties
<1>5. ASSUME NEW i \in 1 .. Len(got) + take PROVE (got \o b)[i] = file[from + i]
  <2>1. CASE i <= Len(got) BY <1>1, <1>2, <1>4, <2>1
  <2>2. CASE i > Len(got)
    <3>1. /\ i - Len(got) \in 1 .. take /\ i - Len(got) \in 1 .. Len(buffer)
          /\ offset - Len(buffer) + (i - Len(got)) = from + i
      BY <1>1, <1>2, <2>2
    <3>2. (got \o b)[i] = b[i - Len(got)] BY <1>1, <1>4, <2>2
    <3>3. b[i - Len(got)] = buffer[i - Len(got)] BY <1>3, <3>1
    <3>4. buffer[i - Len(got)] = file[from + i] BY <1>2, <3>1
    <3>5. QED BY <3>2, <3>3, <3>4
  <2>3. i <= Len(got) \/ i > Len(got) BY <1>1
  <2>4. QED BY <2>1, <2>2, <2>3
<1>6. QED BY <1>3, <1>4, <1>5 DEF b

\* The others stay in it, before the descriptor's position.
LEMMA Left ==
    ASSUME StreamIInv, mode_ = "read", NEW take \in Nat, take <= Len(buffer)
    PROVE  /\ SubSeq(buffer, take + 1, Len(buffer)) \in Seq(Nat)
           /\ Len(SubSeq(buffer, take + 1, Len(buffer))) = Len(buffer) - take
           /\ \A i \in 1 .. Len(buffer) - take :
                 SubSeq(buffer, take + 1, Len(buffer))[i]
                     = file[offset - (Len(buffer) - take) + i]
<1> DEFINE b == SubSeq(buffer, take + 1, Len(buffer))
<1>1. /\ buffer \in Seq(Nat) /\ Len(buffer) \in Nat /\ offset \in Nat
  BY LenProperties DEF StreamIInv, StreamTyped
<1>2. \A i \in 1 .. Len(buffer) : buffer[i] = file[offset - Len(buffer) + i]
  BY DEF StreamIInv, Position
<1>3. /\ Len(buffer) - (take + 1) + 1 = Len(buffer) - take
      /\ \A i \in 1 .. Len(buffer) - take :
            /\ take + 1 + i - 1 \in 1 .. Len(buffer)
            /\ offset - Len(buffer) + (take + 1 + i - 1) = offset - (Len(buffer) - take) + i
  BY <1>1
<1>4. /\ b \in Seq(Nat) /\ Len(b) = Len(buffer) - (take + 1) + 1
      /\ \A i \in 1 .. Len(buffer) - (take + 1) + 1 : b[i] = buffer[take + 1 + i - 1]
  <2>1. /\ take + 1 \in Int /\ 1 <= take + 1 /\ take + 1 <= Len(buffer) + 1
        /\ Len(buffer) \in Int /\ Len(buffer) <= Len(buffer)
    BY <1>1
  <2>2. QED BY <1>1, <2>1, Cut
<1>5. ASSUME NEW i \in 1 .. Len(buffer) - take
      PROVE  b[i] = file[offset - (Len(buffer) - take) + i]
  <2>1. /\ take + 1 + i - 1 \in 1 .. Len(buffer)
        /\ offset - Len(buffer) + (take + 1 + i - 1) = offset - (Len(buffer) - take) + i
    BY <1>3
  <2>2. b[i] = buffer[take + 1 + i - 1] BY <1>3, <1>4
  <2>3. QED BY <1>2, <2>1, <2>2
<1>6. QED BY <1>3, <1>4, <1>5

\* A turn of read()'s loop.
LEMMA ReadCopyKeeps ==
    ASSUME StreamIInv, FS!ReadCopy
    PROVE  StreamIInv'
<1> USE DEF FS!readerVars, FS!writerVars, FS!openVars
<1> DEFINE take == FS!Min({Len(buffer), want - Len(got)})
<1>1. StreamTyped /\ Position /\ Served BY DEF StreamIInv
<1>2. /\ pc = "read" /\ Len(got) < want
      /\ got' = got \o SubSeq(buffer, 1, take)
      /\ buffer' = SubSeq(buffer, take + 1, Len(buffer))
      /\ UNCHANGED <<is_open, mode_, size, base, file, tried, accepted, failures, error_,
                     eof_, offset, pc, want, from, ret>>
  BY DEF FS!ReadCopy
<1>3. /\ size \in Nat /\ Len(buffer) \in Nat /\ Len(buffer) <= size
      /\ Len(got) \in Nat /\ want \in Nat /\ offset \in Nat /\ from \in Nat
  BY <1>1, LenProperties DEF StreamTyped
<1>4. /\ is_open /\ mode_ = "read" /\ ret.op = "none"
      /\ Len(got) = offset - Len(buffer) - from /\ offset <= Len(file)
  BY <1>1, <1>2 DEF Served, Position
<1>5. take \in Nat /\ take <= Len(buffer) /\ take <= want - Len(got)
  <2>1. want - Len(got) \in Nat BY <1>2, <1>3
  <2>2. QED BY <1>3, <2>1, Smaller
<1> HIDE DEF take
<1>6. /\ got' \in Seq(Nat) /\ Len(got') = Len(got) + take
      /\ \A i \in 1 .. Len(got) + take : got'[i] = file[from + i]
  BY <1>2, <1>5, Taken
<1>7. /\ buffer' \in Seq(Nat) /\ Len(buffer') = Len(buffer) - take
      /\ \A i \in 1 .. Len(buffer) - take :
            buffer'[i] = file[offset - (Len(buffer) - take) + i]
  BY <1>2, <1>4, <1>5, Left
<1>8. /\ Len(buffer') <= size /\ from + Len(buffer') <= offset
      /\ Len(got') = offset - Len(buffer') - from /\ Len(got') <= want
  BY <1>3, <1>4, <1>5, <1>6, <1>7
<1>9. StreamTyped' BY <1>1, <1>2, <1>6, <1>7, <1>8 DEF StreamTyped
<1>10. Position' BY <1>1, <1>2, <1>4, <1>7, <1>8 DEF Position
<1>11. Served' BY <1>1, <1>2, <1>4, <1>6, <1>8 DEF Served
<1>12. QED BY <1>2, <1>4, <1>9, <1>10, <1>11, OtherAnswer, ReaderStep

\* read() returns.
LEMMA ReadReturnKeeps ==
    ASSUME StreamIInv, FS!ReadReturn
    PROVE  StreamIInv'
<1> USE DEF FS!readerVars, FS!writerVars, FS!openVars, FS!Returned
<1>1. StreamTyped /\ Position /\ Served BY DEF StreamIInv
<1>2. /\ pc = "readEnd" \/ (pc = "read" /\ Len(got) = want)
      /\ pc' = "idle" /\ ret'.op = "read" /\ ret'.data = got
      /\ UNCHANGED <<is_open, mode_, size, base, file, tried, accepted, failures, error_,
                     eof_, offset, want, from, got, buffer>>
  BY DEF FS!ReadReturn
<1>3. /\ file \in Seq(Nat) /\ got \in Seq(Nat) /\ Len(got) \in Nat /\ Len(buffer) \in Nat
      /\ offset \in Nat /\ from \in Nat /\ want \in Nat /\ Len(file) \in Nat
  BY <1>1, LenProperties DEF StreamTyped
<1>4. /\ is_open /\ mode_ = "read" /\ Len(got) = offset - Len(buffer) - from
      /\ offset <= Len(file) /\ \A i \in 1 .. Len(got) : got[i] = file[from + i]
  BY <1>1, <1>2 DEF Served, Position
<1>5. got = SubSeq(file, from + 1, FS!Consumed)
  <2>1. from + Len(got) = FS!Consumed /\ from + Len(got) <= Len(file)
    BY <1>3, <1>4 DEF FS!Consumed
  <2>2. QED BY <1>3, <1>4, <2>1, IsPart
<1>6. Len(got) < want => error_ \/ (eof_ /\ FS!Consumed = Len(file))
  <2>1. CASE pc = "readEnd"
    <3>1. buffer = << >> /\ (error_ \/ (eof_ /\ offset = Len(file)))
      BY <1>1, <2>1 DEF Served
    <3>2. FS!Consumed = offset BY <1>3, <3>1, EmptySeq DEF FS!Consumed
    <3>3. QED BY <3>1, <3>2
  <2>2. CASE Len(got) = want BY <1>3, <2>2
  <2>3. QED BY <1>2, <2>1, <2>2
<1>7. FS!BytesExact' BY <1>2, <1>5, <1>6 DEF FS!BytesExact, FS!Consumed
<1>8. FS!LinesExact' BY <1>2 DEF FS!LinesExact
<1>9. StreamTyped' /\ Position' /\ Served' BY <1>1, <1>2 DEF StreamTyped, Position, Served
<1>10. QED BY <1>2, <1>4, <1>7, <1>8, <1>9, ReaderStep

\* A sequence ends in another where their last elements agree.
LEMMA SuffixIs ==
    ASSUME NEW s \in Seq(Nat), NEW t \in Seq(Nat)
    PROVE  FS!IsSuffix(s, t) <=> /\ Len(s) <= Len(t)
                                 /\ \A i \in 1 .. Len(s) :
                                       s[(Len(s) - i) + 1] = t[(Len(t) - i) + 1]
<1> DEFINE r == FS!Reverse(s)
           u == FS!Reverse(t)
<1>1. Len(s) \in Nat /\ Len(t) \in Nat BY LenProperties
<1>2. /\ r \in Seq(Nat) /\ Len(r) = Len(s)
      /\ \A i \in 1 .. Len(s) : r[i] = s[(Len(s) - i) + 1]
  <2>1. \A i \in 1 .. Len(s) : s[(Len(s) - i) + 1] \in Nat BY <1>1, ElementOfSeq
  <2>2. QED BY <1>1, <2>1 DEF FS!Reverse
<1>3. /\ u \in Seq(Nat) /\ Len(u) = Len(t)
      /\ \A i \in 1 .. Len(t) : u[i] = t[(Len(t) - i) + 1]
  <2>1. \A i \in 1 .. Len(t) : t[(Len(t) - i) + 1] \in Nat BY <1>1, ElementOfSeq
  <2>2. QED BY <1>1, <2>1 DEF FS!Reverse
<1> HIDE DEF r, u
<1>4. FS!IsPrefix(r, u) <=> Len(s) <= Len(t) /\ \A i \in 1 .. Len(s) : r[i] = u[i]
  <2>1. CASE Len(s) <= Len(t)
    <3>1. /\ SubSeq(r, 1, Len(s)) \in Seq(Nat) /\ Len(SubSeq(r, 1, Len(s))) = Len(s)
          /\ \A i \in 1 .. Len(s) : SubSeq(r, 1, Len(s))[i] = r[i]
      BY <1>1, <1>2, Beginning
    <3>2. /\ SubSeq(u, 1, Len(s)) \in Seq(Nat) /\ Len(SubSeq(u, 1, Len(s))) = Len(s)
          /\ \A i \in 1 .. Len(s) : SubSeq(u, 1, Len(s))[i] = u[i]
      BY <1>1, <1>3, <2>1, Beginning
    <3>3. (SubSeq(r, 1, Len(s)) = SubSeq(u, 1, Len(s))) <=> \A i \in 1 .. Len(s) : r[i] = u[i]
      <4>1. ASSUME SubSeq(r, 1, Len(s)) = SubSeq(u, 1, Len(s))
            PROVE  \A i \in 1 .. Len(s) : r[i] = u[i]
        BY <3>1, <3>2, <4>1
      <4>2. ASSUME \A i \in 1 .. Len(s) : r[i] = u[i]
            PROVE  SubSeq(r, 1, Len(s)) = SubSeq(u, 1, Len(s))
        <5>1. \A i \in 1 .. Len(s) : SubSeq(r, 1, Len(s))[i] = SubSeq(u, 1, Len(s))[i]
          BY <3>1, <3>2, <4>2
        <5>2. QED BY <3>1, <3>2, <5>1, SeqEqual
      <4>3. QED BY <4>1, <4>2
    <3>4. QED BY <1>2, <1>3, <2>1, <3>3 DEF FS!IsPrefix
  <2>2. CASE ~ (Len(s) <= Len(t)) BY <1>2, <1>3, <2>2 DEF FS!IsPrefix
  <2>3. QED BY <2>1, <2>2
<1>5. ASSUME Len(s) <= Len(t)
      PROVE  (\A i \in 1 .. Len(s) : r[i] = u[i])
                 <=> \A i \in 1 .. Len(s) : s[(Len(s) - i) + 1] = t[(Len(t) - i) + 1]
  <2>1. ASSUME NEW i \in 1 .. Len(s)
        PROVE  r[i] = s[(Len(s) - i) + 1] /\ u[i] = t[(Len(t) - i) + 1]
    <3>1. i \in 1 .. Len(t) BY <1>1, <1>5
    <3>2. QED BY <1>2, <1>3, <3>1
  <2>2. ASSUME \A i \in 1 .. Len(s) : r[i] = u[i], NEW i \in 1 .. Len(s)
        PROVE  s[(Len(s) - i) + 1] = t[(Len(t) - i) + 1]
    <3>1. r[i] = u[i] BY <2>2
    <3>2. r[i] = s[(Len(s) - i) + 1] /\ u[i] = t[(Len(t) - i) + 1] BY <2>1
    <3>3. QED BY <3>1, <3>2, Zenon
  <2>3. ASSUME \A i \in 1 .. Len(s) : s[(Len(s) - i) + 1] = t[(Len(t) - i) + 1],
               NEW i \in 1 .. Len(s)
        PROVE  r[i] = u[i]
    <3>1. s[(Len(s) - i) + 1] = t[(Len(t) - i) + 1] BY <2>3
    <3>2. r[i] = s[(Len(s) - i) + 1] /\ u[i] = t[(Len(t) - i) + 1] BY <2>1
    <3>3. QED BY <3>1, <3>2, Zenon
  <2>4. QED BY <2>2, <2>3
<1>6. FS!IsPrefix(r, u) <=> /\ Len(s) <= Len(t)
                            /\ \A i \in 1 .. Len(s) :
                                  s[(Len(s) - i) + 1] = t[(Len(t) - i) + 1]
  BY <1>4, <1>5
<1>7. FS!IsSuffix(s, t) <=> FS!IsPrefix(r, u) BY DEF FS!IsSuffix, r, u
<1>8. QED BY <1>6, <1>7

\* Which sequences end in a newline, and which in CR LF.
LEMMA EndsOfLine ==
    ASSUME NEW t \in Seq(Nat)
    PROVE  /\ FS!IsSuffix(<<FS!LF>>, t) <=> Len(t) >= 1 /\ t[Len(t)] = FS!LF
           /\ FS!IsSuffix(<<FS!CR, FS!LF>>, t)
                 <=> Len(t) >= 2 /\ t[Len(t)] = FS!LF /\ t[Len(t) - 1] = FS!CR
<1> DEFINE lf == <<FS!LF>>
           crlf == <<FS!CR, FS!LF>>
<1>1. Len(t) \in Nat BY LenProperties
<1>2. FS!LF \in Nat /\ FS!CR \in Nat BY DEF FS!LF, FS!CR
<1>3. lf \in Seq(Nat) /\ Len(lf) = 1 /\ lf[1] = FS!LF BY <1>2
<1>4. crlf \in Seq(Nat) /\ Len(crlf) = 2 /\ crlf[1] = FS!CR /\ crlf[2] = FS!LF BY <1>2
<1> HIDE DEF lf, crlf
<1>5. FS!IsSuffix(lf, t) <=> Len(t) >= 1 /\ t[Len(t)] = FS!LF
  <2>1. FS!IsSuffix(lf, t) <=> /\ Len(lf) <= Len(t)
                               /\ \A i \in 1 .. Len(lf) :
                                     lf[(Len(lf) - i) + 1] = t[(Len(t) - i) + 1]
    BY <1>3, SuffixIs
  <2>2. (1 - 1) + 1 = 1 /\ (Len(t) - 1) + 1 = Len(t) /\ 1 .. 1 = {1} BY <1>1
  <2>3. QED BY <1>1, <1>3, <2>1, <2>2
<1>6. FS!IsSuffix(crlf, t) <=> Len(t) >= 2 /\ t[Len(t)] = FS!LF /\ t[Len(t) - 1] = FS!CR
  <2>1. FS!IsSuffix(crlf, t) <=> /\ Len(crlf) <= Len(t)
                                 /\ \A i \in 1 .. Len(crlf) :
                                       crlf[(Len(crlf) - i) + 1] = t[(Len(t) - i) + 1]
    BY <1>4, SuffixIs
  <2>2. /\ (2 - 1) + 1 = 2 /\ (2 - 2) + 1 = 1 /\ (Len(t) - 1) + 1 = Len(t)
        /\ (Len(t) - 2) + 1 = Len(t) - 1 /\ 1 .. 2 = {1, 2}
    BY <1>1
  <2>3. QED BY <1>1, <1>4, <2>1, <2>2
<1>7. QED BY <1>5, <1>6 DEF lf, crlf

\* A line that ends in a newline.
LEMMA LineFolded ==
    ASSUME file \in Seq(Nat), from \in Nat, NEW line \in Seq(Nat),
           from + Len(line) + 1 <= Len(file), file[from + Len(line) + 1] = FS!LF,
           \A i \in 1 .. Len(line) : line[i] = file[from + i] /\ line[i] # FS!LF
    PROVE  /\ FS!LineEnd(from) = from + Len(line) + 1
           /\ FS!LineAt(from) = FS!FoldCR(line)
<1> DEFINE e == from + Len(line) + 1
           breaks == {i \in from + 1 .. Len(file) : file[i] = FS!LF}
           raw == SubSeq(file, from + 1, e)
<1>1. Len(line) \in Nat /\ Len(file) \in Nat BY LenProperties
<1>2. FS!LineEnd(from) = e
  <2>1. e \in breaks /\ breaks \subseteq Int BY <1>1
  <2>2. ASSUME NEW i \in breaks PROVE e <= i
    <3>1. i \in Int /\ from + 1 <= i /\ file[i] = FS!LF BY <1>1
    <3>2. CASE i < e
      <4>1. i - from \in 1 .. Len(line) /\ from + (i - from) = i BY <1>1, <3>1, <3>2
      <4>2. QED BY <3>1, <4>1
    <3>3. QED BY <1>1, <3>1, <3>2
  <2>3. FS!Min(breaks) = e BY <2>1, <2>2, MinIs
  <2>4. QED BY <2>1, <2>3 DEF FS!LineEnd
<1>3. /\ raw \in Seq(Nat) /\ Len(raw) = Len(line) + 1 /\ raw[Len(line) + 1] = FS!LF
      /\ \A i \in 1 .. Len(line) : raw[i] = line[i]
  <2>1. Len(line) + 1 \in Nat /\ from + (Len(line) + 1) = e /\ e <= Len(file) BY <1>1
  <2>2. /\ raw \in Seq(Nat) /\ Len(raw) = Len(line) + 1
        /\ \A i \in 1 .. Len(line) + 1 : raw[i] = file[from + i]
    <3> DEFINE n == Len(line) + 1
    <3>1. n \in Nat /\ from + n <= Len(file) /\ from + n = e BY <2>1
    <3> HIDE DEF n, e
    <3>2. /\ SubSeq(file, from + 1, from + n) \in Seq(Nat)
          /\ Len(SubSeq(file, from + 1, from + n)) = n
          /\ \A i \in 1 .. n : SubSeq(file, from + 1, from + n)[i] = file[from + i]
      BY <3>1, Slice
    <3>3. QED BY <3>1, <3>2 DEF n
  <2>3. \A i \in 1 .. Len(line) + 1 : raw[i] = file[from + i] BY <2>2
  <2>4. ASSUME NEW i \in 1 .. Len(line) PROVE raw[i] = line[i]
    <3>1. i \in 1 .. Len(line) + 1 BY <1>1
    <3>2. QED BY <2>3, <3>1
  <2>5. raw[Len(line) + 1] = FS!LF
    <3>1. Len(line) + 1 \in 1 .. Len(line) + 1 /\ from + (Len(line) + 1) = e BY <1>1
    <3>2. QED BY <2>3, <3>1
  <2>6. QED BY <2>1, <2>2, <2>4, <2>5
<1>4. FS!LineAt(from) = IF FS!IsSuffix(<<FS!CR, FS!LF>>, raw) THEN SubSeq(raw, 1, Len(raw) - 2)
                        ELSE IF FS!IsSuffix(<<FS!LF>>, raw) THEN SubSeq(raw, 1, Len(raw) - 1) ELSE raw
  BY <1>2 DEF FS!LineAt, FS!Front
<1> HIDE DEF raw, e, breaks
<1>5. FS!IsSuffix(<<FS!LF>>, raw)
  <2>1. Len(raw) >= 1 /\ raw[Len(raw)] = FS!LF BY <1>1, <1>3
  <2>2. QED BY <1>3, <2>1, EndsOfLine
<1>6. FS!IsSuffix(<<FS!CR, FS!LF>>, raw) <=> Len(line) # 0 /\ line[Len(line)] = FS!CR
  <2>1. FS!IsSuffix(<<FS!CR, FS!LF>>, raw) <=> Len(raw) >= 2 /\ raw[Len(raw) - 1] = FS!CR
    BY <1>1, <1>3, EndsOfLine
  <2>2. Len(raw) - 1 = Len(line) /\ (Len(raw) >= 2 <=> Len(line) # 0) BY <1>1, <1>3
  <2>3. ASSUME Len(line) # 0 PROVE raw[Len(line)] = line[Len(line)]
    <3>1. Len(line) \in 1 .. Len(line) BY <1>1, <2>3
    <3>2. QED BY <1>3, <3>1
  <2>4. QED BY <2>1, <2>2, <2>3
<1>7. line = << >> <=> Len(line) = 0 BY EmptySeq
<1>8. ASSUME NEW n \in Nat, n <= Len(line)
      PROVE  SubSeq(raw, 1, n) = SubSeq(line, 1, n)
  <2>1. n <= Len(raw) BY <1>1, <1>3, <1>8
  <2>2. /\ SubSeq(raw, 1, n) \in Seq(Nat) /\ Len(SubSeq(raw, 1, n)) = n
        /\ \A i \in 1 .. n : SubSeq(raw, 1, n)[i] = raw[i]
    BY <1>3, <2>1, Beginning
  <2>3. /\ SubSeq(line, 1, n) \in Seq(Nat) /\ Len(SubSeq(line, 1, n)) = n
        /\ \A i \in 1 .. n : SubSeq(line, 1, n)[i] = line[i]
    BY <1>8, Beginning
  <2>4. \A i \in 1 .. n : i \in 1 .. Len(line) BY <1>1, <1>8
  <2>5. \A i \in 1 .. n : SubSeq(raw, 1, n)[i] = SubSeq(line, 1, n)[i]
    BY <1>3, <2>2, <2>3, <2>4
  <2>6. QED BY <2>2, <2>3, <2>5, SeqEqual
<1>9. CASE Len(line) # 0 /\ line[Len(line)] = FS!CR
  <2>1. FS!FoldCR(line) = SubSeq(line, 1, Len(line) - 1)
    BY <1>7, <1>9 DEF FS!FoldCR, FS!Last, FS!Front
  <2>2. FS!LineAt(from) = SubSeq(raw, 1, Len(raw) - 2) BY <1>4, <1>6, <1>9
  <2>3. Len(raw) - 2 = Len(line) - 1 /\ Len(line) - 1 \in Nat /\ Len(line) - 1 <= Len(line)
    <3> DEFINE n == Len(line)
               m == Len(raw)
    <3>1. n \in Nat /\ n # 0 /\ m = n + 1 BY <1>1, <1>3, <1>9, Zenon
    <3> HIDE DEF n, m
    <3>2. m - 2 = n - 1 /\ n - 1 \in Nat /\ n - 1 <= n BY <3>1
    <3>3. QED BY <3>2 DEF n, m
  <2>4. QED BY <1>2, <1>8, <2>1, <2>2, <2>3 DEF e
<1>10. CASE ~ (Len(line) # 0 /\ line[Len(line)] = FS!CR)
  <2>1. FS!FoldCR(line) = line BY <1>7, <1>10 DEF FS!FoldCR, FS!Last
  <2>2. FS!LineAt(from) = SubSeq(raw, 1, Len(raw) - 1) BY <1>4, <1>5, <1>6, <1>10
  <2>3. Len(raw) - 1 = Len(line) BY <1>1, <1>3
  <2>4. SubSeq(line, 1, Len(line)) = line BY SubSeqFull
  <2>5. SubSeq(raw, 1, Len(line)) = SubSeq(line, 1, Len(line)) BY <1>1, <1>8
  <2>6. QED BY <1>2, <2>1, <2>2, <2>3, <2>4, <2>5 DEF e
<1>11. QED BY <1>9, <1>10

\* A last line without one.
LEMMA LastLine ==
    ASSUME file \in Seq(Nat), from \in Nat, NEW line \in Seq(Nat),
           from + Len(line) = Len(file),
           \A i \in 1 .. Len(line) : line[i] = file[from + i] /\ line[i] # FS!LF
    PROVE  FS!LineEnd(from) = Len(file) /\ FS!LineAt(from) = line
<1> DEFINE breaks == {i \in from + 1 .. Len(file) : file[i] = FS!LF}
           raw == SubSeq(file, from + 1, Len(file))
<1>1. Len(line) \in Nat /\ Len(file) \in Nat BY LenProperties
<1>2. FS!LineEnd(from) = Len(file)
  <2>1. ASSUME NEW i \in from + 1 .. Len(file) PROVE file[i] # FS!LF
    <3>1. i - from \in 1 .. Len(line) /\ from + (i - from) = i BY <1>1
    <3>2. QED BY <3>1
  <2>2. breaks = {} BY <2>1
  <2>3. QED BY <2>2 DEF FS!LineEnd
<1>3. raw = line
  <2>1. line = SubSeq(file, from + 1, from + Len(line)) BY <1>1, IsPart
  <2>2. QED BY <2>1
<1>4. ~ FS!IsSuffix(<<FS!LF>>, line) /\ ~ FS!IsSuffix(<<FS!CR, FS!LF>>, line)
  <2>1. Len(line) >= 1 => line[Len(line)] # FS!LF BY <1>1
  <2>2. Len(line) >= 2 => Len(line) >= 1 BY <1>1
  <2>3. QED BY <2>1, <2>2, EndsOfLine
<1>5. FS!LineAt(from) = line BY <1>2, <1>3, <1>4 DEF FS!LineAt
<1>6. QED BY <1>2, <1>5

\* The folded line is a line still.
LEMMA FoldTyped ==
    ASSUME NEW line \in Seq(Nat)
    PROVE  FS!FoldCR(line) \in Seq(Nat)
<1>1. Len(line) \in Nat /\ (line # << >> => Len(line) # 0) BY LenProperties, EmptySeq
<1>2. CASE line # << >>
  <2>1. Len(line) - 1 \in Nat /\ Len(line) - 1 <= Len(line) BY <1>1, <1>2
  <2>2. SubSeq(line, 1, Len(line) - 1) \in Seq(Nat) BY <2>1, Beginning
  <2>3. QED BY <2>2 DEF FS!FoldCR, FS!Front
<1>3. CASE line = << >> BY <1>3 DEF FS!FoldCR
<1>4. QED BY <1>2, <1>3

\* A turn of read_line()'s loop that finds the newline.
LEMMA LineFoundKeeps ==
    ASSUME StreamIInv, FS!LineFound
    PROVE  StreamIInv'
<1> USE DEF FS!readerVars, FS!writerVars, FS!openVars, FS!Returned
<1> DEFINE T == {i \in 1 .. Len(buffer) : buffer[i] = FS!LF}
           first == FS!SelectInSeq(buffer, LAMBDA b : b = FS!LF)
           line == got \o SubSeq(buffer, 1, first - 1)
<1>1. StreamTyped /\ Position /\ Served BY DEF StreamIInv
<1>2. /\ pc = "line" /\ pc' = "idle" /\ got' = FS!FoldCR(line)
      /\ buffer' = SubSeq(buffer, (first - 1) + 2, Len(buffer))
      /\ ret'.op = "line" /\ ret'.ok = TRUE /\ ret'.data = got'
      /\ UNCHANGED <<is_open, mode_, size, base, file, tried, accepted, failures, error_,
                     eof_, offset, want, from>>
  BY DEF FS!LineFound, FS!LineOf
<1>3. /\ size \in Nat /\ Len(buffer) \in Nat /\ Len(buffer) <= size
      /\ Len(got) \in Nat /\ want \in Nat /\ offset \in Nat /\ from \in Nat
      /\ file \in Seq(Nat) /\ Len(file) \in Nat
  BY <1>1, LenProperties DEF StreamTyped
<1>4. /\ is_open /\ mode_ = "read"
      /\ Len(got) = offset - Len(buffer) - from /\ offset <= Len(file)
      /\ \A i \in 1 .. Len(got) : got[i] # FS!LF
      /\ \A i \in 1 .. Len(buffer) : buffer[i] = file[offset - Len(buffer) + i]
  BY <1>1, <1>2 DEF Served, Position
<1>5. first \in 1 .. Len(buffer) /\ buffer[first] = FS!LF /\ \A i \in T : first <= i
  <2>1. T # {} BY DEF FS!LineFound, FS!Contains
  <2>2. T \subseteq Nat BY <1>3
  <2>3. PICK m \in T : \A n \in T : m <= n BY <2>1, <2>2, Least
  <2>4. T \subseteq Int BY <2>2
  <2>5. FS!Min(T) = m BY <2>3, <2>4, MinIs
  <2>6. first = FS!Min(T) BY <2>1 DEF FS!SelectInSeq
  <2>7. QED BY <2>3, <2>5, <2>6
<1> HIDE DEF first
<1>6. /\ first \in Nat /\ 1 <= first /\ first <= Len(buffer)
      /\ first - 1 \in Nat /\ first - 1 <= Len(buffer) /\ (first - 1) + 2 = first + 1
  BY <1>3, <1>5
<1>7. /\ SubSeq(buffer, 1, first - 1) \in Seq(Nat)
      /\ Len(SubSeq(buffer, 1, first - 1)) = first - 1
      /\ \A i \in 1 .. first - 1 : SubSeq(buffer, 1, first - 1)[i] = buffer[i]
      /\ line \in Seq(Nat) /\ Len(line) = Len(got) + (first - 1)
      /\ \A i \in 1 .. Len(got) + (first - 1) : line[i] = file[from + i]
  BY <1>2, <1>6, Taken
<1>8. /\ buffer' \in Seq(Nat) /\ Len(buffer') = Len(buffer) - first
      /\ \A i \in 1 .. Len(buffer) - first :
            buffer'[i] = file[offset - (Len(buffer) - first) + i]
  BY <1>2, <1>4, <1>6, Left
<1>9. ASSUME NEW i \in 1 .. Len(line) PROVE line[i] # FS!LF
  <2>1. (got \o SubSeq(buffer, 1, first - 1))[i]
            = IF i <= Len(got) THEN got[i] ELSE SubSeq(buffer, 1, first - 1)[i - Len(got)]
    BY <1>1, <1>3, <1>7, ConcatProperties DEF StreamTyped
  <2>2. CASE i <= Len(got) BY <1>3, <1>4, <1>7, <2>1, <2>2
  <2>3. CASE i > Len(got)
    <3>1. i - Len(got) \in 1 .. first - 1 BY <1>3, <1>6, <1>7, <2>3
    <3>2. line[i] = buffer[i - Len(got)] BY <1>3, <1>7, <2>1, <2>3, <3>1
    <3>3. i - Len(got) \in 1 .. Len(buffer) /\ ~ (first <= i - Len(got)) BY <1>3, <1>6, <3>1
    <3>4. i - Len(got) \notin T BY <1>5, <3>3
    <3>5. QED BY <3>2, <3>3, <3>4
  <2>4. i <= Len(got) \/ i > Len(got) BY <1>3, <1>7
  <2>5. QED BY <2>2, <2>3, <2>4
<1> HIDE DEF line
<1>10. /\ from + Len(line) + 1 <= Len(file) /\ file[from + Len(line) + 1] = FS!LF
       /\ offset - Len(buffer') = from + Len(line) + 1
  <2>1. /\ from + Len(line) + 1 = offset - Len(buffer) + first
        /\ offset - Len(buffer) + first <= Len(file)
        /\ offset - Len(buffer') = from + Len(line) + 1
    BY <1>3, <1>4, <1>6, <1>7, <1>8
  <2>2. buffer[first] = file[offset - Len(buffer) + first] BY <1>4, <1>5
  <2>3. QED BY <1>5, <2>1, <2>2
<1>11. FS!LineEnd(from) = from + Len(line) + 1 /\ FS!LineAt(from) = FS!FoldCR(line)
  <2>1. \A i \in 1 .. Len(line) : line[i] = file[from + i] /\ line[i] # FS!LF
    BY <1>7, <1>9
  <2>2. QED BY <1>3, <1>7, <1>10, <2>1, LineFolded
<1>12. FS!LinesExact'
  <2>1. FS!LineEnd(from)' = FS!LineEnd(from) /\ FS!LineAt(from)' = FS!LineAt(from)
    BY <1>2 DEF FS!LineEnd, FS!LineAt
  <2>2. FS!Consumed' = FS!LineEnd(from) BY <1>2, <1>10, <1>11 DEF FS!Consumed
  <2>3. QED BY <1>2, <1>11, <2>1, <2>2 DEF FS!LinesExact
<1>13. FS!BytesExact' BY <1>2 DEF FS!BytesExact
<1>14. StreamTyped'
  <2>1. got' \in Seq(Nat) BY <1>2, <1>7, FoldTyped
  <2>2. Len(buffer') <= size BY <1>3, <1>6, <1>8
  <2>3. QED BY <1>1, <1>2, <1>8, <2>1, <2>2 DEF StreamTyped
<1>15. Position'
  <2>1. from + Len(buffer') <= offset BY <1>3, <1>4, <1>6, <1>8
  <2>2. QED BY <1>1, <1>2, <1>4, <1>8, <2>1 DEF Position
<1>16. Served' BY <1>2 DEF Served
<1>17. QED BY <1>2, <1>4, <1>12, <1>13, <1>14, <1>15, <1>16, ReaderStep

\* A turn that finds none.
LEMMA LineGoesOnKeeps ==
    ASSUME StreamIInv, FS!LineGoesOn
    PROVE  StreamIInv'
<1> USE DEF FS!readerVars, FS!writerVars, FS!openVars
<1>1. StreamTyped /\ Position /\ Served BY DEF StreamIInv
<1>2. /\ pc = "line" /\ got' = got \o buffer /\ buffer' = << >>
      /\ \A i \in 1 .. Len(buffer) : buffer[i] # FS!LF
      /\ UNCHANGED <<is_open, mode_, size, base, file, tried, accepted, failures, error_,
                     eof_, offset, want, from, pc, ret>>
  BY DEF FS!LineGoesOn, FS!Contains
<1>3. /\ size \in Nat /\ buffer \in Seq(Nat) /\ Len(buffer) \in Nat /\ got \in Seq(Nat)
      /\ Len(got) \in Nat /\ offset \in Nat /\ from \in Nat
      /\ buffer' \in Seq(Nat) /\ Len(buffer') = 0
  BY <1>1, <1>2, LenProperties, EmptySeq DEF StreamTyped
<1>4. /\ is_open /\ mode_ = "read" /\ ret.op = "none"
      /\ Len(got) = offset - Len(buffer) - from
      /\ \A i \in 1 .. Len(got) : got[i] # FS!LF
  BY <1>1, <1>2 DEF Served
<1>5. /\ got' \in Seq(Nat) /\ Len(got') = Len(got) + Len(buffer)
      /\ \A i \in 1 .. Len(got) + Len(buffer) : got'[i] = file[from + i]
  <2>1. SubSeq(buffer, 1, Len(buffer)) = buffer BY <1>3, SubSeqFull
  <2>2. Len(buffer) <= Len(buffer) /\ pc # "idle" BY <1>2, <1>3
  <2>3. /\ got \o SubSeq(buffer, 1, Len(buffer)) \in Seq(Nat)
        /\ Len(got \o SubSeq(buffer, 1, Len(buffer))) = Len(got) + Len(buffer)
        /\ \A i \in 1 .. Len(got) + Len(buffer) :
              (got \o SubSeq(buffer, 1, Len(buffer)))[i] = file[from + i]
    BY <1>3, <2>2, Taken
  <2>4. QED BY <1>2, <2>1, <2>3
<1>6. ASSUME NEW i \in 1 .. Len(got') PROVE got'[i] # FS!LF
  <2>1. (got \o buffer)[i] = IF i <= Len(got) THEN got[i] ELSE buffer[i - Len(got)]
    BY <1>3, <1>5, ConcatProperties
  <2>2. CASE i <= Len(got) BY <1>2, <1>3, <1>4, <1>5, <2>1, <2>2
  <2>3. CASE i > Len(got)
    <3>1. i - Len(got) \in 1 .. Len(buffer) BY <1>3, <1>5, <2>3
    <3>2. QED BY <1>2, <1>3, <2>1, <2>3, <3>1
  <2>4. i <= Len(got) \/ i > Len(got) BY <1>3, <1>5
  <2>5. QED BY <2>2, <2>3, <2>4
<1>7. StreamTyped' BY <1>1, <1>2, <1>3, <1>5 DEF StreamTyped
<1>8. Position'
  <2>1. from + Len(buffer') <= offset BY <1>3, <1>4
  <2>2. QED BY <1>1, <1>2, <1>3, <1>4, <2>1 DEF Position
<1>9. Served'
  <2>1. Len(got') = offset - Len(buffer') - from BY <1>3, <1>4, <1>5
  <2>2. QED BY <1>2, <1>4, <1>5, <1>6, <2>1 DEF Served
<1>10. QED BY <1>2, <1>4, <1>7, <1>8, <1>9, OtherAnswer, ReaderStep

\* read_line() returns what it has when there is no more.
LEMMA LineReturnKeeps ==
    ASSUME StreamIInv, FS!LineReturn
    PROVE  StreamIInv'
<1> USE DEF FS!readerVars, FS!writerVars, FS!openVars, FS!Returned
<1>1. StreamTyped /\ Position /\ Served BY DEF StreamIInv
<1>2. /\ pc = "lineEnd" /\ pc' = "idle" /\ ret'.op = "line"
      /\ ret'.ok = (~ error_ /\ got # << >>) /\ (ret'.ok => ret'.data = got)
      /\ UNCHANGED <<is_open, mode_, size, base, file, tried, accepted, failures, error_,
                     eof_, offset, want, from, got, buffer>>
  BY DEF FS!LineReturn
<1>3. /\ file \in Seq(Nat) /\ got \in Seq(Nat) /\ Len(got) \in Nat /\ Len(buffer) = 0
      /\ offset \in Nat /\ from \in Nat /\ Len(file) \in Nat
  BY <1>1, <1>2, LenProperties, EmptySeq DEF StreamTyped, Served
<1>4. /\ is_open /\ mode_ = "read" /\ Len(got) = offset - Len(buffer) - from
      /\ \A i \in 1 .. Len(got) : got[i] = file[from + i] /\ got[i] # FS!LF
      /\ error_ \/ (eof_ /\ offset = Len(file))
  BY <1>1, <1>2 DEF Served
<1>5. ASSUME ~ error_, got # << >>
      PROVE  got = FS!LineAt(from) /\ FS!Consumed = FS!LineEnd(from)
  <2>1. from + Len(got) = Len(file) /\ FS!Consumed = Len(file)
    BY <1>3, <1>4, <1>5 DEF FS!Consumed
  <2>2. FS!LineEnd(from) = Len(file) /\ FS!LineAt(from) = got
    BY <1>3, <1>4, <2>1, LastLine
  <2>3. QED BY <2>1, <2>2
<1>6. ASSUME ~ error_, got = << >> PROVE eof_ /\ from = Len(file)
  <2>1. Len(got) = 0 BY <1>6, EmptySeq
  <2>2. QED BY <1>3, <1>4, <1>6, <2>1
<1>7. FS!LinesExact'
  <2>1. /\ FS!LineEnd(from)' = FS!LineEnd(from) /\ FS!LineAt(from)' = FS!LineAt(from)
        /\ FS!Consumed' = FS!Consumed
    BY <1>2 DEF FS!LineEnd, FS!LineAt, FS!Consumed
  <2>2. ret'.ok => ret'.data = FS!LineAt(from)' /\ FS!Consumed' = FS!LineEnd(from)'
    BY <1>2, <1>5, <2>1
  <2>3. ~ ret'.ok /\ ~ error_' => eof_' /\ from' = Len(file') BY <1>2, <1>6
  <2>4. QED BY <2>2, <2>3 DEF FS!LinesExact
<1>8. FS!BytesExact' BY <1>2 DEF FS!BytesExact
<1>9. StreamTyped' /\ Position' /\ Served' BY <1>1, <1>2 DEF StreamTyped, Position, Served
<1>10. QED BY <1>2, <1>4, <1>7, <1>8, <1>9, ReaderStep

\* os_write_all writes the block, or a part of it and fails.
LEMMA WriteOutcome ==
    ASSUME StreamTyped, NEW contents \in Seq(Nat), NEW src \in Seq(Nat),
           NEW w \in FS!OsWriteAll(contents, src)
    PROVE  \E x \in Seq(Nat) :
              /\ PartOf(x, src) /\ w.file = contents \o x /\ w.ok \in BOOLEAN
              /\ w.ok => x = src
              /\ ~ w.ok => failures < MaxFailures
<1>1. Len(src) \in Nat /\ failures \in Nat /\ MaxFailures \in Nat
  BY LenProperties, PartsAssumption DEF StreamTyped, FS!ConstantsFit
<1>2. PICK k \in IF failures < MaxFailures THEN 0 .. Len(src) ELSE {Len(src)} :
           w = [ok |-> k = Len(src), file |-> contents \o SubSeq(src, 1, k)]
  BY DEF FS!OsWriteAll
<1>3. k \in Nat /\ k <= Len(src) /\ (k # Len(src) => failures < MaxFailures) BY <1>1, <1>2
<1>4. /\ SubSeq(src, 1, k) \in Seq(Nat) /\ Len(SubSeq(src, 1, k)) = k
      /\ \A i \in 1 .. k : SubSeq(src, 1, k)[i] = src[i]
  BY <1>3, Beginning
<1>5. PartOf(SubSeq(src, 1, k), src) BY <1>3, <1>4 DEF PartOf
<1>6. /\ w.file = contents \o SubSeq(src, 1, k) /\ w.ok \in BOOLEAN /\ (w.ok <=> k = Len(src))
  BY <1>2
<1>7. k = Len(src) => SubSeq(src, 1, k) = src BY SubSeqFull
<1>8. QED BY <1>3, <1>4, <1>5, <1>6, <1>7

\* flush_buffer() empties the buffer, or keeps all of it.
LEMMA FlushOutcome ==
    ASSUME StreamTyped, NEW f \in FS!FlushBuffer
    PROVE  \E x \in Seq(Nat) :
              /\ PartOf(x, buffer) /\ f.file = file \o x /\ f.ok \in BOOLEAN
              /\ f.ok => x = buffer /\ f.buffer = << >>
              /\ ~ f.ok => failures < MaxFailures /\ f.buffer = buffer
<1>1. PICK w \in FS!OsWriteAll(file, buffer) :
           f = [ok |-> w.ok, file |-> w.file, buffer |-> IF w.ok THEN << >> ELSE buffer]
  BY DEF FS!FlushBuffer
<1>2. PICK x \in Seq(Nat) :
           /\ PartOf(x, buffer) /\ w.file = file \o x /\ w.ok \in BOOLEAN
           /\ w.ok => x = buffer
           /\ ~ w.ok => failures < MaxFailures
  BY WriteOutcome DEF StreamTyped
<1>3. /\ f.ok = w.ok /\ f.file = w.file /\ f.buffer = IF w.ok THEN << >> ELSE buffer
  BY <1>1
<1>4. QED BY <1>2, <1>3

\* The caller's next block.
LEMMA NextTyped ==
    ASSUME tried \in Nat, NEW n \in Nat
    PROVE  /\ FS!NextBytes(n) \in Seq(Nat) /\ Len(FS!NextBytes(n)) = n
           /\ \A i \in 1 .. n : FS!NextBytes(n)[i] = 100 + tried + i
BY DEF FS!NextBytes

\* A step of write(), flush() or close() on a stream open for writing.
LEMMA WriterStep ==
    ASSUME StreamIInv, is_open, FS!Writing, pc = "idle",
           UNCHANGED <<mode_, size, eof_, offset, base, pc, want, from, got>>,
           NEW x \in Seq(Nat), file' = file \o x, is_open' \in BOOLEAN, error_' \in BOOLEAN,
           buffer' \in Seq(Nat), Len(buffer') <= size, accepted' \in Seq(Nat),
           tried' \in Nat, tried' <= MaxBytes, failures' \in Nat, failures' <= MaxFailures,
           Serials(accepted', tried'),
           is_open' => Kept(file', buffer', accepted'),
           is_open' /\ ~ error_' => file' \o buffer' = base \o accepted',
           FS!SuccessMeansWritten', ret'.op \notin {"read", "line"}
    PROVE  StreamIInv'
<1>1. StreamTyped /\ Position /\ Intact BY DEF StreamIInv
<1>2. /\ file' \in Seq(Nat) /\ Len(file') = Len(file) + Len(x) /\ Len(x) \in Nat
      /\ Len(file) \in Nat /\ size # 0 /\ mode_ # "read" /\ offset \in Nat
  BY <1>1, ConcatProperties, LenProperties DEF StreamTyped, FS!Writing
<1>3. StreamTyped'
  BY <1>1, <1>2 DEF StreamTyped
<1>4. offset' <= Len(file') BY <1>1, <1>2 DEF Position
<1>5. Unopened' /\ Position' /\ Served' BY <1>1, <1>2, <1>4 DEF Unopened, Position, Served
<1>6. StartsWith(file', base')
  <2>1. StartsWith(file, base) BY <1>1 DEF Intact
  <2>2. QED BY <1>1, <2>1, StartKept DEF StreamTyped
<1>7. Intact' BY <1>6 DEF Intact
<1>8. FS!BytesExact' /\ FS!LinesExact' BY DEF FS!BytesExact, FS!LinesExact
<1>9. QED BY <1>3, <1>5, <1>7, <1>8 DEF StreamIInv

\* What a stream open for writing has.
LEMMA WriterHas ==
    ASSUME StreamIInv, is_open, FS!Writing
    PROVE  /\ file \in Seq(Nat) /\ buffer \in Seq(Nat) /\ accepted \in Seq(Nat)
           /\ base \in Seq(Nat) /\ tried \in Nat /\ size \in Nat /\ Len(buffer) \in Nat
           /\ Len(buffer) <= size /\ tried <= MaxBytes
           /\ failures \in Nat /\ failures <= MaxFailures /\ MaxFailures \in Nat
           /\ Kept(file, buffer, accepted) /\ Serials(accepted, tried)
           /\ StartsWith(file, base) /\ error_ \in BOOLEAN
           /\ ~ error_ => file \o buffer = base \o accepted
<1>1. /\ file \in Seq(Nat) /\ buffer \in Seq(Nat) /\ accepted \in Seq(Nat)
      /\ base \in Seq(Nat) /\ tried \in Nat /\ size \in Nat /\ Len(buffer) \in Nat
      /\ Len(buffer) <= size /\ tried <= MaxBytes
      /\ failures \in Nat /\ failures <= MaxFailures /\ MaxFailures \in Nat
  BY LenProperties, PartsAssumption DEF StreamIInv, StreamTyped, FS!ConstantsFit
<1>2. /\ Kept(file, buffer, accepted) /\ Serials(accepted, tried)
      /\ StartsWith(file, base) /\ error_ \in BOOLEAN
      /\ ~ error_ => file \o buffer = base \o accepted
  BY DEF StreamIInv, StreamTyped, Intact
<1>3. QED BY <1>1, <1>2

\* What write() leaves alone.
LEMMA WriteFrame ==
    ASSUME NEW ok, NEW src, FS!WriteReturned(ok, src)
    PROVE  /\ UNCHANGED <<is_open, mode_, size, eof_, offset, base, pc, want, from, got>>
           /\ tried' = tried + Len(src)
           /\ accepted' = IF ok THEN accepted \o src ELSE accepted
           /\ ret'.op = "write" /\ FS!SuccessMeansWritten'
<1>1. /\ UNCHANGED <<is_open, mode_, size, eof_, offset, base, pc, want, from, got>>
      /\ tried' = tried + Len(src)
      /\ accepted' = IF ok THEN accepted \o src ELSE accepted
      /\ ret'.op = "write"
  BY DEF FS!WriteReturned, FS!Returned, FS!openVars, FS!readerVars
<1>2. QED BY <1>1, OtherAnswer

\* A large block.
LEMMA WriteLargeKeeps ==
    ASSUME StreamIInv, NEW n \in Nat, FS!WriteLarge(n)
    PROVE  StreamIInv'
<1> DEFINE src == FS!NextBytes(n)
<1>1. is_open /\ FS!Writing /\ pc = "idle" /\ tried + n <= MaxBytes
  BY DEF FS!WriteLarge, FS!CanWrite
<1>2. /\ file \in Seq(Nat) /\ buffer \in Seq(Nat) /\ accepted \in Seq(Nat)
      /\ base \in Seq(Nat) /\ tried \in Nat /\ size \in Nat /\ Len(buffer) \in Nat
      /\ Len(buffer) <= size
      /\ failures \in Nat /\ failures <= MaxFailures /\ MaxFailures \in Nat
      /\ Kept(file, buffer, accepted) /\ Serials(accepted, tried)
      /\ error_ \in BOOLEAN
      /\ ~ error_ => file \o buffer = base \o accepted
  BY <1>1, WriterHas
<1>3. /\ src \in Seq(Nat) /\ Len(src) = n /\ \A i \in 1 .. n : src[i] = 100 + tried + i
  BY <1>2, NextTyped
<1>4. /\ file \in Seq(Nat) /\ buffer \in Seq(Nat) /\ base \in Seq(Nat)
       /\ accepted \in Seq(Nat) /\ src \in Seq(Nat)
  BY <1>2, <1>3
<1>5. (base \o accepted) \o src = base \o (accepted \o src) BY <1>4, Joined
<1>6. StreamTyped BY DEF StreamIInv
<1>7. PICK f \in FS!FlushBuffer :
          /\ buffer' = f.buffer
          /\ \/ /\ ~f.ok
                /\ file' = f.file /\ FS!Failed(FALSE) /\ FS!WriteReturned(FALSE, src)
             \/ /\ f.ok
                /\ \E w \in FS!OsWriteAll(f.file, src) :
                      /\ file' = w.file /\ FS!Failed(w.ok) /\ FS!WriteReturned(w.ok, src)
  BY DEF FS!WriteLarge
<1> HIDE DEF src
<1>8. PICK x \in Seq(Nat) :
          /\ PartOf(x, buffer) /\ f.file = file \o x /\ f.ok \in BOOLEAN
          /\ f.ok => x = buffer /\ f.buffer = << >>
          /\ ~ f.ok => failures < MaxFailures /\ f.buffer = buffer
  BY <1>6, FlushOutcome
<1>9. tried + n \in Nat /\ Serials(accepted \o src, tried + n) /\ Serials(accepted, tried + n)
  BY <1>2, <1>3, FreshSerials
<1>10. CASE ~ f.ok
  <2>1. file' = file \o x /\ FS!Failed(FALSE) /\ FS!WriteReturned(FALSE, src) /\ buffer' = buffer
    BY <1>7, <1>8, <1>10
  <2>2. /\ UNCHANGED <<is_open, mode_, size, eof_, offset, base, pc, want, from, got>>
        /\ tried' = tried + n /\ accepted' = accepted
        /\ ret'.op = "write" /\ FS!SuccessMeansWritten'
    BY <1>3, <2>1, WriteFrame
  <2>3. error_' = TRUE /\ failures' = failures + 1 BY <2>1 DEF FS!Failed
  <2>4. failures' \in Nat /\ failures' <= MaxFailures BY <1>2, <1>8, <1>10, <2>3
  <2>5. Kept(file', buffer', accepted') BY <1>2, <1>8, <2>1, <2>2, FlushFailedKept
  <2>6. QED BY <1>1, <1>2, <1>9, <2>1, <2>2, <2>3, <2>4, <2>5, WriterStep
<1>11. CASE f.ok
  <2>1. PICK w \in FS!OsWriteAll(f.file, src) :
            file' = w.file /\ FS!Failed(w.ok) /\ FS!WriteReturned(w.ok, src)
    BY <1>7, <1>11
  <2>2. /\ f.file = file \o buffer /\ buffer' = << >> /\ f.file \in Seq(Nat)
        /\ buffer' \in Seq(Nat) /\ Len(buffer') <= size
    <3>1. f.file = file \o buffer /\ buffer' = << >> BY <1>7, <1>8, <1>11
    <3>2. << >> \in Seq(Nat) /\ Len(<< >>) <= size BY <1>2, EmptySeq
    <3>3. QED BY <1>2, <3>1, <3>2, ConcatProperties
  <2>3. PICK y \in Seq(Nat) :
            /\ PartOf(y, src) /\ w.file = f.file \o y /\ w.ok \in BOOLEAN
            /\ w.ok => y = src
            /\ ~ w.ok => failures < MaxFailures
    BY <1>3, <1>6, <2>2, WriteOutcome
  <2>4. /\ UNCHANGED <<is_open, mode_, size, eof_, offset, base, pc, want, from, got>>
        /\ tried' = tried + n
        /\ accepted' = IF w.ok THEN accepted \o src ELSE accepted
        /\ ret'.op = "write" /\ FS!SuccessMeansWritten'
    <3>1. FS!WriteReturned(w.ok, src) BY <2>1
    <3>2. QED BY <1>3, <3>1, WriteFrame
  <2>5. file' = file \o (buffer \o y) /\ buffer \o y \in Seq(Nat)
    <3>1. file' = (file \o buffer) \o y BY <2>1, <2>2, <2>3
    <3>2. file \in Seq(Nat) /\ buffer \in Seq(Nat) BY <1>2
    <3>3. (file \o buffer) \o y = file \o (buffer \o y) BY <3>2, Joined
    <3>4. buffer \o y \in Seq(Nat) BY <3>2, ConcatProperties
    <3>5. QED BY <3>1, <3>3, <3>4
  <2>6. /\ Kept(f.file \o src, << >>, accepted \o src) /\ Kept(f.file \o y, << >>, accepted)
    <3>1. Kept(f.file, << >>, accepted) BY <1>2, <2>2, FlushedKept
    <3>2. QED BY <1>2, <1>3, <1>9, <2>2, <2>3, <3>1, LargeKept
  <2>7. CASE w.ok
    <3>1. /\ accepted' = accepted \o src /\ accepted' \in Seq(Nat) /\ file' = f.file \o src
          /\ error_' = error_ /\ failures' = failures
      BY <1>2, <1>3, <2>1, <2>3, <2>4, <2>7, ConcatProperties DEF FS!Failed
    <3>2. Kept(file', buffer', accepted') BY <2>2, <2>6, <3>1
    <3>3. ASSUME ~ error_' PROVE file' \o buffer' = base \o accepted'
      <4>1. file \o buffer = base \o accepted BY <1>2, <3>1, <3>3
      <4>2. file' = (file \o buffer) \o src BY <2>2, <3>1
      <4>3. file' \in Seq(Nat) BY <1>2, <2>5, ConcatProperties
      <4>4. file' \o buffer' = file' BY <2>2, <4>3, ConcatEmptySeq
      <4>5. QED BY <1>5, <3>1, <4>1, <4>2, <4>4
    <3>4. QED BY <1>1, <1>2, <1>9, <2>2, <2>4, <2>5, <3>1, <3>2, <3>3, WriterStep
  <2>8. CASE ~ w.ok
    <3>1. /\ accepted' = accepted /\ file' = f.file \o y
          /\ error_' = TRUE /\ failures' = failures + 1
      BY <1>2, <2>1, <2>3, <2>4, <2>8 DEF FS!Failed
    <3>2. Kept(file', buffer', accepted') BY <2>2, <2>6, <3>1
    <3>3. failures' \in Nat /\ failures' <= MaxFailures BY <1>2, <2>3, <2>8, <3>1
    <3>4. QED BY <1>1, <1>2, <1>9, <2>2, <2>4, <2>5, <3>1, <3>2, <3>3, WriterStep
  <2>9. QED BY <2>7, <2>8
<1>12. QED BY <1>10, <1>11

\* A small block.
LEMMA WriteSmallKeeps ==
    ASSUME StreamIInv, NEW n \in Nat, FS!WriteSmall(n)
    PROVE  StreamIInv'
<1> DEFINE src == FS!NextBytes(n)
<1>1. is_open /\ FS!Writing /\ pc = "idle" /\ tried + n <= MaxBytes /\ n < size
  BY DEF FS!WriteSmall, FS!CanWrite
<1>2. /\ file \in Seq(Nat) /\ buffer \in Seq(Nat) /\ accepted \in Seq(Nat)
      /\ base \in Seq(Nat) /\ tried \in Nat /\ size \in Nat /\ Len(buffer) \in Nat
      /\ Len(buffer) <= size
      /\ failures \in Nat /\ failures <= MaxFailures /\ MaxFailures \in Nat
      /\ Kept(file, buffer, accepted) /\ Serials(accepted, tried)
      /\ error_ \in BOOLEAN
      /\ ~ error_ => file \o buffer = base \o accepted
  BY <1>1, WriterHas
<1>3. /\ src \in Seq(Nat) /\ Len(src) = n /\ \A i \in 1 .. n : src[i] = 100 + tried + i
  BY <1>2, NextTyped
<1>4. /\ file \in Seq(Nat) /\ buffer \in Seq(Nat) /\ base \in Seq(Nat)
       /\ accepted \in Seq(Nat) /\ src \in Seq(Nat)
  BY <1>2, <1>3
<1>5. (base \o accepted) \o src = base \o (accepted \o src) BY <1>4, Joined
<1>6. (file \o buffer) \o src = file \o (buffer \o src) BY <1>4, Joined
<1>7. StreamTyped BY DEF StreamIInv
<1>8. \/ /\ Len(buffer) + n <= size /\ buffer' = buffer \o src
         /\ FS!WriteReturned(TRUE, src) /\ UNCHANGED <<file, error_, failures>>
      \/ \E f \in FS!FlushBuffer :
            /\ file' = f.file /\ FS!Failed(f.ok) /\ FS!WriteReturned(f.ok, src)
            /\ buffer' = IF f.ok THEN src ELSE f.buffer
  BY DEF FS!WriteSmall
<1> HIDE DEF src
<1>9. tried + n \in Nat /\ Serials(accepted \o src, tried + n) /\ Serials(accepted, tried + n)
  BY <1>2, <1>3, FreshSerials
<1>10. accepted \o src \in Seq(Nat) BY <1>2, <1>3, ConcatProperties
<1>11. CASE /\ Len(buffer) + n <= size /\ buffer' = buffer \o src
           /\ FS!WriteReturned(TRUE, src) /\ UNCHANGED <<file, error_, failures>>
  <2>1. /\ UNCHANGED <<is_open, mode_, size, eof_, offset, base, pc, want, from, got>>
        /\ tried' = tried + n /\ accepted' = accepted \o src
        /\ ret'.op = "write" /\ FS!SuccessMeansWritten'
    BY <1>3, <1>11, WriteFrame
  <2>2. buffer' \in Seq(Nat) /\ Len(buffer') <= size BY <1>2, <1>3, <1>11, ConcatProperties
  <2>3. file' = file \o << >> /\ << >> \in Seq(Nat) BY <1>2, <1>11, EmptySeq, ConcatEmptySeq
  <2>4. Kept(file', buffer', accepted') BY <1>2, <1>3, <1>11, <2>1, BufferedKept
  <2>5. ASSUME ~ error_' PROVE file' \o buffer' = base \o accepted'
    <3>1. file \o buffer = base \o accepted BY <1>2, <1>11, <2>5
    <3>2. QED BY <1>11, <1>5, <1>6, <2>1, <3>1
  <2>6. QED BY <1>1, <1>2, <1>9, <1>10, <1>11, <2>1, <2>2, <2>3, <2>4, <2>5, WriterStep
<1>12. ASSUME NEW f \in FS!FlushBuffer,
             file' = f.file /\ FS!Failed(f.ok) /\ FS!WriteReturned(f.ok, src),
             buffer' = IF f.ok THEN src ELSE f.buffer
      PROVE  StreamIInv'
  <2>1. PICK x \in Seq(Nat) :
            /\ PartOf(x, buffer) /\ f.file = file \o x /\ f.ok \in BOOLEAN
            /\ f.ok => x = buffer /\ f.buffer = << >>
            /\ ~ f.ok => failures < MaxFailures /\ f.buffer = buffer
    BY <1>7, FlushOutcome
  <2>2. /\ UNCHANGED <<is_open, mode_, size, eof_, offset, base, pc, want, from, got>>
        /\ tried' = tried + n
        /\ accepted' = IF f.ok THEN accepted \o src ELSE accepted
        /\ ret'.op = "write" /\ FS!SuccessMeansWritten'
    BY <1>3, <1>12, WriteFrame
  <2>3. file' = file \o x BY <1>12, <2>1
  <2>4. CASE f.ok
    <3>1. /\ accepted' = accepted \o src /\ file' = file \o buffer /\ buffer' = src
          /\ error_' = error_ /\ failures' = failures
      BY <1>2, <1>12, <2>1, <2>2, <2>3, <2>4 DEF FS!Failed
    <3>2. file \o buffer \in Seq(Nat) /\ << >> \in Seq(Nat) /\ << >> \o src = src
      BY <1>2, <1>3, ConcatProperties, EmptySeq, ConcatEmptySeq
    <3>3. Kept(file \o buffer, << >>, accepted) BY <1>2, FlushedKept
    <3>4. Kept(file \o buffer, << >> \o src, accepted \o src)
      BY <1>2, <1>3, <3>2, <3>3, BufferedKept
    <3>5. Kept(file', buffer', accepted') BY <3>1, <3>2, <3>4
    <3>6. ASSUME ~ error_' PROVE file' \o buffer' = base \o accepted'
      <4>1. file \o buffer = base \o accepted BY <1>2, <3>1, <3>6
      <4>2. file' \o buffer' = (file \o buffer) \o src BY <3>1
      <4>3. QED BY <1>5, <3>1, <4>1, <4>2
    <3>7. Len(buffer') <= size BY <1>1, <1>2, <1>3, <3>1
    <3>8. QED BY <1>1, <1>2, <1>3, <1>9, <1>10, <2>2, <2>3, <3>1, <3>5, <3>6, <3>7, WriterStep
  <2>5. CASE ~ f.ok
    <3>1. /\ accepted' = accepted /\ buffer' = buffer
          /\ error_' = TRUE /\ failures' = failures + 1
      BY <1>12, <2>1, <2>2, <2>5 DEF FS!Failed
    <3>2. failures' \in Nat /\ failures' <= MaxFailures BY <1>2, <2>1, <2>5, <3>1
    <3>3. Kept(file', buffer', accepted') BY <1>2, <2>1, <2>3, <3>1, FlushFailedKept
    <3>4. QED BY <1>1, <1>2, <1>9, <2>2, <2>3, <3>1, <3>2, <3>3, WriterStep
  <2>6. QED BY <2>4, <2>5
<1>13. QED BY <1>8, <1>11, <1>12

\* Everything accepted is in the file once the buffer is empty.
LEMMA WrittenOut ==
    ASSUME NEW f \in Seq(Nat), accepted \in Seq(Nat), Kept(f, << >>, accepted)
    PROVE  FS!HoldsAccepted(f)
<1>1. PICK a \in Seq(Nat) : accepted = a \o << >> /\ KeptIn(f, a) BY DEF Kept
<1>2. a = accepted BY <1>1, ConcatEmptySeq
<1>3. QED BY <1>1, <1>2, Held

\* What a flush of a stream open for writing leaves.
LEMMA FlushLeaves ==
    ASSUME StreamIInv, is_open, FS!Writing, NEW f \in FS!FlushBuffer
    PROVE  \E x \in Seq(Nat) :
              /\ f.file = file \o x /\ f.file \in Seq(Nat) /\ f.ok \in BOOLEAN
              /\ f.buffer \in Seq(Nat) /\ Len(f.buffer) <= size
              /\ Kept(f.file, f.buffer, accepted)
              /\ f.ok => FS!HoldsAccepted(f.file)
              /\ f.ok /\ ~ error_ => f.file \o f.buffer = base \o accepted
              /\ ~ f.ok => failures + 1 <= MaxFailures
<1>1. /\ file \in Seq(Nat) /\ buffer \in Seq(Nat) /\ accepted \in Seq(Nat)
      /\ tried \in Nat /\ size \in Nat /\ Len(buffer) <= size
      /\ failures \in Nat /\ MaxFailures \in Nat
      /\ Kept(file, buffer, accepted) /\ Serials(accepted, tried)
      /\ ~ error_ => file \o buffer = base \o accepted
  BY WriterHas
<1>2. PICK x \in Seq(Nat) :
          /\ PartOf(x, buffer) /\ f.file = file \o x /\ f.ok \in BOOLEAN
          /\ f.ok => x = buffer /\ f.buffer = << >>
          /\ ~ f.ok => failures < MaxFailures /\ f.buffer = buffer
  BY FlushOutcome DEF StreamIInv
<1>3. f.file \in Seq(Nat) BY <1>1, <1>2, ConcatProperties
<1>4. CASE f.ok
  <2>1. f.file = file \o buffer /\ f.buffer = << >> BY <1>2, <1>4
  <2>2. << >> \in Seq(Nat) /\ Len(<< >>) <= size BY <1>1, EmptySeq
  <2>3. Kept(f.file, << >>, accepted) BY <1>1, <2>1, FlushedKept
  <2>4. FS!HoldsAccepted(f.file) BY <1>1, <1>3, <2>3, WrittenOut
  <2>5. f.file \o << >> = f.file BY <1>3, ConcatEmptySeq
  <2>6. QED BY <1>1, <1>2, <1>3, <1>4, <2>1, <2>2, <2>3, <2>4, <2>5
<1>5. CASE ~ f.ok
  <2>1. Kept(file \o x, buffer, accepted) BY <1>1, <1>2, FlushFailedKept
  <2>2. failures + 1 <= MaxFailures BY <1>1, <1>2, <1>5
  <2>3. QED BY <1>1, <1>2, <1>3, <1>5, <2>1, <2>2
<1>6. QED BY <1>2, <1>4, <1>5

\* flush().
LEMMA FlushKeeps ==
    ASSUME StreamIInv, FS!Flush
    PROVE  StreamIInv'
<1> USE DEF FS!readerVars, FS!openVars, FS!Returned
<1>1. /\ pc = "idle" /\ ret'.op = "flush"
      /\ UNCHANGED <<is_open, mode_, size, eof_, offset, base, pc, want, from, got, tried,
                     accepted>>
  BY DEF FS!Flush
<1>2. CASE is_open /\ FS!Writing
  <2>1. PICK f \in FS!FlushBuffer :
            /\ file' = f.file /\ buffer' = f.buffer /\ FS!Failed(f.ok) /\ ret'.ok = f.ok
    BY <1>2 DEF FS!Flush
  <2>2. PICK x \in Seq(Nat) :
            /\ f.file = file \o x /\ f.file \in Seq(Nat) /\ f.ok \in BOOLEAN
            /\ f.buffer \in Seq(Nat) /\ Len(f.buffer) <= size
            /\ Kept(f.file, f.buffer, accepted)
            /\ f.ok => FS!HoldsAccepted(f.file)
            /\ f.ok /\ ~ error_ => f.file \o f.buffer = base \o accepted
            /\ ~ f.ok => failures + 1 <= MaxFailures
    BY <1>2, FlushLeaves
  <2>3. /\ accepted \in Seq(Nat) /\ tried \in Nat /\ tried <= MaxBytes /\ error_ \in BOOLEAN
        /\ failures \in Nat /\ failures <= MaxFailures /\ Serials(accepted, tried)
    BY <1>2, WriterHas
  <2>4. /\ error_' \in BOOLEAN /\ (~ error_' => f.ok /\ ~ error_)
        /\ failures' = IF f.ok THEN failures ELSE failures + 1
    BY <2>1, <2>2, <2>3 DEF FS!Failed
  <2>5. failures' \in Nat /\ failures' <= MaxFailures BY <2>2, <2>3, <2>4
  <2>6. FS!SuccessMeansWritten'
    <3>1. FS!HoldsAccepted(file') => FS!HoldsAccepted(file)' BY <1>1 DEF FS!HoldsAccepted
    <3>2. ret'.ok => FS!HoldsAccepted(file') BY <2>1, <2>2
    <3>3. QED BY <3>1, <3>2 DEF FS!SuccessMeansWritten
  <2>7. Kept(file', buffer', accepted') BY <1>1, <2>1, <2>2
  <2>8. ~ error_' => file' \o buffer' = base \o accepted' BY <1>1, <2>1, <2>2, <2>4
  <2>9. QED
    BY <1>1, <1>2, <2>1, <2>2, <2>3, <2>4, <2>5, <2>6, <2>7, <2>8, WriterStep
    DEF StreamIInv, StreamTyped
<1>3. CASE ~ (is_open /\ FS!Writing)
  <2>1. UNCHANGED <<file, buffer, error_, failures>> /\ ret'.ok = is_open
    BY <1>3 DEF FS!Flush
  <2>2. /\ StreamTyped' /\ Unopened' /\ Position' /\ Served' /\ Intact'
        /\ Serials(accepted, tried)'
    BY <1>1, <2>1
    DEF StreamIInv, StreamTyped, Unopened, Position, Served, Intact, Serials, FS!Writing
  <2>3. FS!SuccessMeansWritten' /\ FS!BytesExact' /\ FS!LinesExact'
    BY <1>1, <1>3, <2>1
    DEF FS!SuccessMeansWritten, FS!BytesExact, FS!LinesExact, FS!Writing
  <2>4. QED BY <2>2, <2>3 DEF StreamIInv
<1>4. QED BY <1>2, <1>3

\* close(), or the destructor.
LEMMA CloseWithKeeps ==
    ASSUME StreamIInv, pc = "idle", is_open, NEW op \in {"close", "destroy"},
           NEW closed \in BOOLEAN, FS!CloseWith(op, closed)
    PROVE  StreamIInv'
<1> USE DEF FS!Returned
<1>1. /\ is_open' = FALSE /\ buffer' = << >> /\ ret'.op = op
      /\ UNCHANGED <<mode_, size, eof_, offset, base, pc, want, from, got, tried, accepted>>
  BY DEF FS!CloseWith
<1>2. StreamTyped /\ Position /\ size # 0 BY DEF StreamIInv, StreamTyped
<1>3. /\ size \in Nat /\ buffer' \in Seq(Nat) /\ Len(buffer') = 0 /\ Len(buffer') <= size
  BY <1>1, <1>2, EmptySeq DEF StreamTyped
<1>4. CASE FS!Writing
  <2>1. PICK f \in FS!FlushBuffer :
            /\ file' = f.file /\ failures' = IF f.ok THEN failures ELSE failures + 1
            /\ error_' = (error_ \/ ~ f.ok \/ ~ closed) /\ ret'.ok = (f.ok /\ closed)
    BY <1>4 DEF FS!CloseWith
  <2>2. PICK x \in Seq(Nat) :
            /\ f.file = file \o x /\ f.file \in Seq(Nat) /\ f.ok \in BOOLEAN
            /\ f.buffer \in Seq(Nat) /\ Len(f.buffer) <= size
            /\ Kept(f.file, f.buffer, accepted)
            /\ f.ok => FS!HoldsAccepted(f.file)
            /\ f.ok /\ ~ error_ => f.file \o f.buffer = base \o accepted
            /\ ~ f.ok => failures + 1 <= MaxFailures
    BY <1>4, FlushLeaves
  <2>3. /\ accepted \in Seq(Nat) /\ tried \in Nat /\ tried <= MaxBytes /\ error_ \in BOOLEAN
        /\ failures \in Nat /\ failures <= MaxFailures /\ Serials(accepted, tried)
    BY <1>4, WriterHas
  <2>4. error_' \in BOOLEAN /\ is_open' \in BOOLEAN BY <1>1, <2>1, <2>2, <2>3
  <2>5. failures' \in Nat /\ failures' <= MaxFailures BY <2>1, <2>2, <2>3
  <2>6. FS!SuccessMeansWritten'
    <3>1. FS!HoldsAccepted(file') => FS!HoldsAccepted(file)' BY <1>1 DEF FS!HoldsAccepted
    <3>2. ret'.ok => FS!HoldsAccepted(file') BY <2>1, <2>2
    <3>3. QED BY <3>1, <3>2 DEF FS!SuccessMeansWritten
  <2>7. QED
    BY <1>1, <1>3, <1>4, <2>1, <2>2, <2>3, <2>4, <2>5, <2>6, WriterStep
<1>5. CASE ~ FS!Writing
  <2>1. /\ file' = file /\ failures' = failures /\ error_' = (error_ \/ ~ closed)
    BY <1>5 DEF FS!CloseWith
  <2>2. mode_ = "read" BY <1>2, <1>5 DEF StreamTyped, FS!Writing
  <2>3. is_open' \in BOOLEAN /\ error_' \in BOOLEAN BY <1>1, <1>2, <2>1 DEF StreamTyped
  <2>4. StreamTyped' BY <1>1, <1>2, <1>3, <2>1, <2>3 DEF StreamTyped
  <2>5. from + Len(buffer') <= offset
    <3>1. from \in Nat /\ Len(buffer) \in Nat /\ offset \in Nat /\ from + Len(buffer) <= offset
      BY <1>2, <2>2, LenProperties DEF StreamTyped, Position
    <3>2. QED BY <1>3, <3>1
  <2>6. Position' BY <1>1, <1>2, <1>3, <2>1, <2>2, <2>5 DEF Position
  <2>7. Unopened' /\ Served' /\ Intact' /\ Serials(accepted, tried)'
    BY <1>1, <1>2 DEF Unopened, Served, Intact, StreamIInv, Serials
  <2>8. FS!SuccessMeansWritten' /\ FS!BytesExact' /\ FS!LinesExact'
    BY <1>1, <2>2 DEF FS!SuccessMeansWritten, FS!BytesExact, FS!LinesExact, FS!Writing
  <2>9. QED BY <2>4, <2>6, <2>7, <2>8 DEF StreamIInv
<1>6. QED BY <1>4, <1>5

\* close(), the destructor, and a second close().
LEMMA CloseKeeps ==
    ASSUME StreamIInv, FS!Close \/ FS!Destroy
    PROVE  StreamIInv'
<1> USE DEF FS!readerVars, FS!writerVars, FS!openVars, FS!Returned
<1>1. CASE FS!Destroy BY <1>1, CloseWithKeeps DEF FS!Destroy
<1>2. CASE FS!Close /\ is_open
  <2>1. pc = "idle" /\ \E closed \in BOOLEAN : FS!CloseWith("close", closed)
    BY <1>2 DEF FS!Close
  <2>2. QED BY <1>2, <2>1, CloseWithKeeps
<1>3. CASE FS!Close /\ ~ is_open
  <2>1. /\ ret'.op = "close again"
        /\ UNCHANGED <<is_open, mode_, size, eof_, offset, want, from, got, base, file, tried,
                       accepted, failures, buffer, error_, pc>>
    <3>1. /\ ret' = [op |-> "close again", ok |-> TRUE, data |-> << >>]
          /\ UNCHANGED <<FS!openVars, FS!readerVars, FS!writerVars, buffer, error_, pc>>
      BY <1>3, Zenon DEF FS!Close
    <3>2. QED BY <3>1
  <2>2. /\ StreamTyped' /\ Unopened' /\ Position' /\ Served' /\ Intact'
        /\ Serials(accepted, tried)'
    BY <1>3, <2>1 DEF StreamIInv, StreamTyped, Unopened, Position, Served, Intact, Serials
  <2>3. QED BY <2>1, <2>2, OtherAnswer DEF StreamIInv
<1>4. QED BY <1>1, <1>2, <1>3

\* Every step of the stream preserves the invariant.
LEMMA StreamStep ==
    ASSUME StreamIInv, FS!Next
    PROVE  StreamIInv'
<1>1. CASE size = 0 /\ \E mode \in {"read", "append", "write"}, s \in BufferSizes :
               \/ \E contents \in FS!Contents : FS!Open(mode, s, contents)
               \/ FS!OpenFails(mode, s)
  BY <1>1, OpenKeeps
<1>2. CASE \E op \in {"read", "line", "write"} : FS!Refused(op) BY <1>2, RefusedKeeps
<1>3. MaxRequest \in Nat BY PartsAssumption DEF FS!ConstantsFit
<1>4. CASE \E n \in 0 .. MaxRequest : FS!BeginRead("read", n)
  <2>1. PICK n \in 0 .. MaxRequest : FS!BeginRead("read", n) BY <1>4
  <2>2. n \in Nat BY <1>3, <2>1
  <2>3. QED BY <2>1, <2>2, BeginReadKeeps
<1>5. CASE FS!BeginRead("line", 0) BY <1>5, BeginReadKeeps
<1>6. CASE FS!ReadStep \/ FS!FillFails
  <2>1. CASE \E n \in 1 .. size : FS!FillOk(n) BY <2>1, FillOkKeeps
  <2>2. CASE FS!FillEof \/ FS!FillFails BY <2>2, FillEndsKeeps
  <2>3. CASE FS!ReadCopy BY <2>3, ReadCopyKeeps
  <2>4. CASE FS!ReadReturn BY <2>4, ReadReturnKeeps
  <2>5. CASE FS!LineFound BY <2>5, LineFoundKeeps
  <2>6. CASE FS!LineGoesOn BY <2>6, LineGoesOnKeeps
  <2>7. CASE FS!LineReturn BY <2>7, LineReturnKeeps
  <2>8. QED BY <1>6, <2>1, <2>2, <2>3, <2>4, <2>5, <2>6, <2>7 DEF FS!ReadStep
<1>7. CASE \E n \in 0 .. MaxRequest : FS!WriteLarge(n) \/ FS!WriteSmall(n)
  <2>1. PICK n \in 0 .. MaxRequest : FS!WriteLarge(n) \/ FS!WriteSmall(n) BY <1>7
  <2>2. n \in Nat BY <1>3, <2>1
  <2>3. CASE FS!WriteLarge(n) BY <2>2, <2>3, WriteLargeKeeps
  <2>4. CASE FS!WriteSmall(n) BY <2>2, <2>4, WriteSmallKeeps
  <2>5. QED BY <2>1, <2>3, <2>4
<1>8. CASE FS!Flush BY <1>8, FlushKeeps
<1>9. CASE FS!Close \/ FS!Destroy BY <1>9, CloseKeeps
<1>10. QED BY <1>1, <1>2, <1>4, <1>5, <1>6, <1>7, <1>8, <1>9 DEF FS!Next

\* So does a step that leaves the stream alone.
LEMMA StreamStutter ==
    ASSUME StreamIInv, UNCHANGED FS!vars
    PROVE  StreamIInv'
<1> USE DEF FS!vars
<1>1. /\ StreamTyped' /\ Unopened' /\ Position' /\ Served' /\ Intact'
      /\ Serials(accepted, tried)'
  BY DEF StreamIInv, StreamTyped, Unopened, Position, Served, Intact, Serials, FS!Writing
<1>2. FS!SuccessMeansWritten'
  <2>1. FS!HoldsAccepted(file) => FS!HoldsAccepted(file)' BY DEF FS!HoldsAccepted
  <2>2. QED BY <2>1 DEF StreamIInv, FS!SuccessMeansWritten, FS!Writing
<1>3. FS!BytesExact' BY DEF StreamIInv, FS!BytesExact, FS!Writing, FS!Consumed
<1>4. FS!LinesExact'
  <2>1. FS!LineAt(from)' = FS!LineAt(from) /\ FS!LineEnd(from)' = FS!LineEnd(from)
    BY DEF FS!LineAt, FS!LineEnd
  <2>2. QED BY <2>1 DEF StreamIInv, FS!LinesExact, FS!Writing, FS!Consumed
<1>5. QED BY <1>1, <1>2, <1>3, <1>4 DEF StreamIInv

\* The invariant holds of every state of a stream's life.
LEMMA StreamInvariant == FS!Spec => []StreamIInv
<1>1. StreamIInv /\ [FS!Next]_(FS!vars) => StreamIInv' BY StreamStep, StreamStutter
<1>2. QED BY <1>1, StreamInit, PTL DEF FS!Spec

\* What the invariant says of writing.
LEMMA InvariantKeepsWrites == StreamIInv => WritesKept
<1> SUFFICES ASSUME StreamIInv PROVE WritesKept
  OBVIOUS
<1>1. StreamTyped /\ Position /\ Served /\ Intact BY DEF StreamIInv
<1>2. FS!TypeOK
  <2>1. /\ offset \in Nat /\ from \in Nat /\ Len(buffer) \in Nat /\ Len(file) \in Nat
        /\ failures \in Nat /\ failures <= MaxFailures /\ tried \in Nat /\ tried <= MaxBytes
        /\ MaxFailures \in Nat /\ MaxBytes \in Nat
    BY <1>1, LenProperties, PartsAssumption DEF StreamTyped, FS!ConstantsFit
  <2>2. /\ offset \in 0 .. Len(file) /\ failures \in 0 .. MaxFailures /\ tried \in 0 .. MaxBytes
    BY <1>1, <2>1 DEF Position
  <2>3. from \in 0 .. offset
    <3>1. CASE mode_ = "read" BY <1>1, <2>1, <3>1 DEF Position
    <3>2. CASE mode_ # "read" BY <1>1, <2>1, <3>2 DEF Position
    <3>3. QED BY <3>1, <3>2
  <2>4. QED BY <1>1, <2>2, <2>3 DEF FS!TypeOK, StreamTyped, Served
<1>3. FS!BytesInOrder BY <1>1 DEF FS!BytesInOrder, Intact
<1>4. FS!AcceptedBytesKept
  <2>1. SUFFICES ASSUME is_open, FS!Writing
                 PROVE  FS!IsPrefix(base, file) /\ FS!HoldsAccepted(file \o buffer)
    BY DEF FS!AcceptedBytesKept
  <2>2. /\ file \in Seq(Nat) /\ buffer \in Seq(Nat) /\ accepted \in Seq(Nat) /\ base \in Seq(Nat)
        /\ tried \in Nat /\ Kept(file, buffer, accepted) /\ Serials(accepted, tried)
        /\ StartsWith(file, base)
    BY <2>1, WriterHas
  <2>3. FS!HoldsAccepted(file \o buffer)
    <3>1. Kept(file \o buffer, << >>, accepted) BY <2>2, FlushedKept
    <3>2. file \o buffer \in Seq(Nat) BY <2>2, ConcatProperties
    <3>3. QED BY <2>2, <3>1, <3>2, WrittenOut
  <2>4. FS!IsPrefix(base, file)
    <3>1. Len(base) \in Nat /\ Len(base) <= Len(file) BY <2>2, LenProperties DEF StartsWith
    <3>2. /\ SubSeq(file, 1, Len(base)) \in Seq(Nat) /\ Len(SubSeq(file, 1, Len(base))) = Len(base)
          /\ \A i \in 1 .. Len(base) : SubSeq(file, 1, Len(base))[i] = file[i]
      BY <2>2, <3>1, Beginning
    <3>3. \A i \in 1 .. Len(base) : base[i] = SubSeq(file, 1, Len(base))[i]
      BY <2>2, <3>2 DEF StartsWith
    <3>4. base = SubSeq(file, 1, Len(base)) BY <2>2, <3>2, <3>3, SeqEqual
    <3>5. SubSeq(base, 1, Len(base)) = base BY <2>2, SubSeqFull
    <3>6. QED BY <3>1, <3>4, <3>5 DEF FS!IsPrefix
  <2>5. QED BY <2>3, <2>4
<1>5. QED BY <1>2, <1>3, <1>4 DEF WritesKept, FS!WritesKept, StreamIInv

(* Whatever prefix of a block the OS takes before it fails, write(),       *)
(* flush() and close() leave every accepted byte in the file or in the     *)
(* buffer, in the caller's order, and what they report as written is in    *)
(* the file: for every buffer size, every block and any number of calls.   *)
THEOREM WritesAreKept == FS!Spec => []WritesKept
BY StreamInvariant, InvariantKeepsWrites, PTL

(* However the OS cuts the file into short reads, read() delivers the      *)
(* bytes at the stream's position and read_line() the line that starts     *)
(* there: for every file, every buffer size and reads of any size.  While  *)
(* no error has been met, nullopt means the end of the file.               *)
THEOREM ReadsAreExact == FS!Spec => []ReadsExact
<1>1. StreamIInv => ReadsExact BY DEF StreamIInv, ReadsExact, FS!ReadsExact
<1>2. QED BY <1>1, StreamInvariant, PTL

-----------------------------------------------------------------------------
(* StringSplitter.                                                         *)

\* The delimiter d stands at place i of t.
StandsAt(t, d, i) ==
    /\ i + Len(d) - 1 <= Len(t)
    /\ \A k \in 1 .. Len(d) : t[i + k - 1] = d[k]

\* A part of a text.
LEMMA Portion ==
    ASSUME NEW C, NEW s \in Seq(C), NEW m \in Int, NEW n \in Int, 1 <= m, m <= n + 1, n <= Len(s)
    PROVE  /\ SubSeq(s, m, n) \in Seq(C)
           /\ Len(SubSeq(s, m, n)) = n - m + 1
           /\ \A i \in 1 .. n - m + 1 : SubSeq(s, m, n)[i] = s[m + i - 1]
<1>1. Len(s) \in Nat BY LenProperties
<1>2. \A i \in m .. n : s[i] \in C BY <1>1, ElementOfSeq
<1>3. QED BY <1>2, SubSeqProperties

\* OccursAt() compares character by character.
LEMMA Occurrence ==
    ASSUME NEW C, NEW t \in Seq(C), NEW d \in Seq(C), NEW i \in Nat \ {0}
    PROVE  SS!OccursAt(t, d, i) <=> StandsAt(t, d, i)
<1> DEFINE e == i + Len(d) - 1
           p == SubSeq(t, i, e)
<1>1. Len(d) \in Nat /\ Len(t) \in Nat /\ e \in Int /\ i <= e + 1 /\ e - i + 1 = Len(d)
  BY LenProperties
<1>2. CASE e <= Len(t)
  <2>1. p \in Seq(C) /\ Len(p) = Len(d) /\ \A k \in 1 .. Len(d) : p[k] = t[i + k - 1]
    <3> HIDE DEF e
    <3>1. p \in Seq(C) /\ Len(p) = e - i + 1 /\ \A k \in 1 .. e - i + 1 : p[k] = t[i + k - 1]
      BY <1>1, <1>2, Portion
    <3>2. QED BY <1>1, <3>1
  <2> HIDE DEF p, e
  <2>2. p = d <=> \A k \in 1 .. Len(d) : t[i + k - 1] = d[k]
    <3>1. CASE p = d BY <2>1, <3>1
    <3>2. CASE \A k \in 1 .. Len(d) : t[i + k - 1] = d[k]
      <4>1. \A k \in 1 .. Len(p) : p[k] = d[k] BY <2>1, <3>2
      <4>2. p = d BY <2>1, <4>1, SeqEqual
      <4>3. QED BY <3>2, <4>2
    <3>3. QED BY <3>1, <3>2
  <2>3. QED BY <1>2, <2>2 DEF p, e, SS!OccursAt, StandsAt
<1>3. CASE ~ (e <= Len(t))
  BY <1>3 DEF SS!OccursAt, StandsAt
<1>4. QED BY <1>2, <1>3

\* find() gives the first place at or after c where the delimiter stands ...
LEMMA FirstIs ==
    ASSUME NEW C, NEW t \in Seq(C), NEW d \in Seq(C), NEW c \in Nat \ {0},
           NEW m \in c .. Len(t), StandsAt(t, d, m), \A i \in c .. m - 1 : ~ StandsAt(t, d, i)
    PROVE  SS!Find(t, d, c) = m
<1> DEFINE T == {i \in c .. Len(t) : SS!OccursAt(t, d, i)}
           f == CHOOSE x \in T : \A y \in T : x =< y
<1>1. Len(t) \in Nat BY LenProperties
<1>2. \A i \in c .. Len(t) : SS!OccursAt(t, d, i) <=> StandsAt(t, d, i)
  BY <1>1, Occurrence
<1>3. m \in T /\ T \subseteq Int BY <1>1, <1>2
<1>4. \A y \in T : m <= y BY <1>1, <1>2
<1> HIDE DEF T
<1>5. \A x \in T : (\A y \in T : x =< y) => x = m BY <1>3, <1>4
<1>6. f \in T /\ \A y \in T : f =< y BY <1>3, <1>4
<1>7. f = m BY <1>5, <1>6
<1>8. SS!Find(t, d, c) = f BY <1>3 DEF T, SS!Find, SS!Min
<1>9. QED BY <1>7, <1>8

\* ... and npos when there is none.
LEMMA NoneIs ==
    ASSUME NEW C, NEW t \in Seq(C), NEW d \in Seq(C), NEW c \in Nat \ {0},
           \A i \in c .. Len(t) : ~ StandsAt(t, d, i)
    PROVE  SS!Find(t, d, c) = 0
<1>1. Len(t) \in Nat BY LenProperties
<1>2. {i \in c .. Len(t) : SS!OccursAt(t, d, i)} = {}
  BY <1>1, Occurrence
<1>3. QED BY <1>2 DEF SS!Find

\* One of the two is the case.
LEMMA FindIs ==
    ASSUME NEW C, NEW t \in Seq(C), NEW d \in Seq(C), NEW c \in Nat \ {0}
    PROVE  \/ /\ SS!Find(t, d, c) = 0
              /\ \A i \in c .. Len(t) : ~ StandsAt(t, d, i)
           \/ /\ SS!Find(t, d, c) \in c .. Len(t)
              /\ StandsAt(t, d, SS!Find(t, d, c))
              /\ \A i \in c .. SS!Find(t, d, c) - 1 : ~ StandsAt(t, d, i)
<1> DEFINE T == {i \in c .. Len(t) : StandsAt(t, d, i)}
<1>1. Len(t) \in Nat BY LenProperties
<1>2. CASE T = {}
  BY <1>2, NoneIs
<1>3. CASE T # {}
  <2>1. T \subseteq Nat BY <1>1
  <2>2. PICK m \in T : \A n \in T : m <= n
    <3> HIDE DEF T
    <3>1. QED BY <1>3, <2>1, Least
  <2>3. m \in c .. Len(t) /\ StandsAt(t, d, m) BY <2>2
  <2>4. \A i \in c .. m - 1 : ~ StandsAt(t, d, i)
    <3>1. ASSUME NEW i \in c .. m - 1, StandsAt(t, d, i) PROVE FALSE
      <4>1. i \in T BY <1>1, <2>3, <3>1
      <4>2. m <= i BY <2>2, <4>1
      <4>3. QED BY <2>3, <4>2
    <3>2. QED BY <3>1
  <2>5. SS!Find(t, d, c) = m BY <2>3, <2>4, FirstIs
  <2>6. QED BY <2>3, <2>4, <2>5
<1>4. QED BY <1>2, <1>3

\* What stands in a part of the text stands in the text.
LEMMA StandsInPart ==
    ASSUME NEW C, NEW t \in Seq(C), NEW d \in Seq(C), NEW w \in Seq(C), NEW a \in Nat \ {0},
           a + Len(w) - 1 <= Len(t), \A k \in 1 .. Len(w) : w[k] = t[a + k - 1],
           NEW p \in 1 .. Len(w), StandsAt(w, d, p)
    PROVE  StandsAt(t, d, a + p - 1)
<1>1. Len(w) \in Nat /\ Len(t) \in Nat /\ Len(d) \in Nat BY LenProperties
<1>2. p + Len(d) - 1 <= Len(w) /\ \A k \in 1 .. Len(d) : w[p + k - 1] = d[k]
  BY DEF StandsAt
<1>3. a + p - 1 + Len(d) - 1 <= Len(t) BY <1>1, <1>2
<1>4. ASSUME NEW k \in 1 .. Len(d) PROVE t[a + p - 1 + k - 1] = d[k]
  <2>1. p + k - 1 \in 1 .. Len(w) /\ a + (p + k - 1) - 1 = a + p - 1 + k - 1
    BY <1>1, <1>2
  <2>2. w[p + k - 1] = t[a + (p + k - 1) - 1] BY <2>1
  <2>3. QED BY <1>2, <2>1, <2>2
<1>5. QED BY <1>3, <1>4 DEF StandsAt

\* A field that a delimiter ends: it runs to the first delimiter from its beginning.
Ended(v, t, d) ==
    /\ StandsAt(t, d, v.at + v.length)
    /\ \A p \in v.at .. v.at + v.length - 1 : ~ StandsAt(t, d, p)

\* The last field: it runs to the end of the text, which has no more delimiters.
Unended(v, t, d) ==
    /\ v.at + v.length = Len(t) + 1
    /\ \A p \in v.at .. Len(t) : ~ StandsAt(t, d, p)

Views == [at : Nat \ {0}, length : Nat]
Iterators == [current : Views, cursor : Nat \ {0}, final : BOOLEAN, done : {FALSE}]

\* An iterator at a field of t, and where it goes on.
Loaded(i, t, d) ==
    IF i.final THEN Unended(i.current, t, d)
    ELSE /\ Ended(i.current, t, d)
         /\ i.cursor = i.current.at + i.current.length + Len(d)

\* The iterators passed: one field each, one after the other, none the last but the last.
Passed ==
    /\ copies \in Seq(Iterators)
    /\ \A i \in 1 .. Len(copies) : Loaded(copies[i], text, delimiter)
    /\ Len(copies) > 0 => copies[1].current.at = 1
    /\ \A i \in 1 .. Len(copies) - 1 :
          ~ copies[i].final /\ copies[i + 1].current.at = copies[i].cursor
    /\ \A i, j \in 1 .. Len(copies) : i < j => copies[i].current.at < copies[j].current.at

\* The iterator goes on where the one before it ends, until that was the last.
Arrived ==
    IF it.done THEN Len(copies) > 0 /\ copies[Len(copies)].final
    ELSE /\ it \in Iterators
         /\ Loaded(it, text, delimiter)
         /\ Len(copies) = 0 => it.current.at = 1
         /\ Len(copies) > 0 =>
               ~ copies[Len(copies)].final /\ it.current.at = copies[Len(copies)].cursor

SplitIInv ==
    IF delimiter = <<>> THEN it = SS!End /\ copies = <<>>
    ELSE /\ text \in Seq(SS!Characters) /\ delimiter \in Seq(SS!Characters)
         /\ Passed /\ Arrived

\* An iterator before advance().
At(view, cursor) == [current |-> view, cursor |-> cursor, final |-> FALSE, done |-> FALSE]

\* advance() loads the field that begins at the cursor.
LEMMA AdvanceLoads ==
    ASSUME NEW C, NEW t \in Seq(C), NEW d \in Seq(C), d # <<>>,
           NEW v, NEW c \in 1 .. Len(t) + 1
    PROVE  /\ SS!Advance(At(v, c), t, d) \in Iterators
           /\ Loaded(SS!Advance(At(v, c), t, d), t, d)
           /\ SS!Advance(At(v, c), t, d).current.at = c
<1> DEFINE at == SS!Find(t, d, c)
           j == SS!Advance(At(v, c), t, d)
<1>1. Len(t) \in Nat /\ Len(d) \in Nat /\ Len(d) > 0 BY LenProperties, EmptySeq
<1>2. c \in Nat \ {0} BY <1>1
<1>3. \/ at = 0 /\ \A p \in c .. Len(t) : ~ StandsAt(t, d, p)
      \/ /\ at \in c .. Len(t)
         /\ StandsAt(t, d, at)
         /\ \A p \in c .. at - 1 : ~ StandsAt(t, d, p)
  BY <1>2, FindIs
<1> HIDE DEF at
<1>4. CASE at = 0 /\ \A p \in c .. Len(t) : ~ StandsAt(t, d, p)
  <2>1. j = [current |-> [at |-> c, length |-> Len(t) + 1 - c],
             cursor |-> c, final |-> TRUE, done |-> FALSE]
    BY <1>4 DEF at, At, SS!Advance, SS!View
  <2> HIDE DEF j
  <2>2. j \in Iterators BY <1>1, <1>2, <2>1 DEF Iterators, Views
  <2>3. c + (Len(t) + 1 - c) = Len(t) + 1 BY <1>1, <1>2
  <2>4. Loaded(j, t, d) BY <1>4, <2>1, <2>3 DEF Loaded, Unended
  <2>5. QED BY <2>1, <2>2, <2>4 DEF j
<1>5. CASE /\ at \in c .. Len(t)
           /\ StandsAt(t, d, at)
           /\ \A p \in c .. at - 1 : ~ StandsAt(t, d, p)
  <2>0. at # 0 BY <1>2, <1>5
  <2>1. j = [current |-> [at |-> c, length |-> at - c],
             cursor |-> at + Len(d), final |-> FALSE, done |-> FALSE]
    BY <2>0 DEF at, At, SS!Advance, SS!View, SS!CursorAfter
  <2> HIDE DEF j
  <2>2. j \in Iterators BY <1>1, <1>2, <1>5, <2>1 DEF Iterators, Views
  <2>3. c + (at - c) = at BY <1>2, <1>5
  <2>4. Loaded(j, t, d) BY <1>5, <2>1, <2>3 DEF Loaded, Ended
  <2>5. QED BY <2>1, <2>2, <2>4 DEF j
<1>6. QED BY <1>3, <1>4, <1>5

\* begin() is at the first field.
LEMMA BeginLoads ==
    ASSUME SplitIInv, NEW t \in Texts, NEW d \in Delimiters, SS!Begin(t, d)
    PROVE  SplitIInv'
<1>1. t \in Seq(SS!Characters) /\ d \in Seq(SS!Characters) /\ d # <<>>
  BY PartsAssumption DEF SS!ConstantsFit
<1>2. copies' = <<>> /\ Len(copies') = 0 /\ text' = t /\ delimiter' = d
  BY EmptySeq DEF SplitIInv, SS!Begin
<1>3. [SS!End EXCEPT !.done = FALSE] = At(SS!View(0, 0), 1)
  <2> DEFINE i == [SS!End EXCEPT !.done = FALSE]
  <2>1. i \in [current : {SS!View(0, 0)}, cursor : {1}, final : {FALSE}, done : {FALSE}]
    BY DEF SS!End
  <2> HIDE DEF i
  <2>2. i = [current |-> SS!View(0, 0), cursor |-> 1, final |-> FALSE, done |-> FALSE]
    BY <2>1
  <2>3. QED BY <2>2 DEF At, i
<1>4. 1 \in 1 .. Len(t) + 1 BY <1>1, LenProperties
<1>5. it' = SS!Advance(At(SS!View(0, 0), 1), t, d) BY <1>3 DEF SS!Begin
<1>6. it' \in Iterators /\ Loaded(it', t, d) /\ it'.current.at = 1
  BY <1>1, <1>4, <1>5, AdvanceLoads
<1>7. ~ it'.done BY <1>6 DEF Iterators
<1>8. Arrived' BY <1>2, <1>6, <1>7 DEF Arrived
<1>9. Passed' BY <1>2 DEF Passed
<1>10. QED BY <1>1, <1>2, <1>8, <1>9 DEF SplitIInv

\* An iterator at a field but the last goes on past where it is.
LEMMA CursorAhead ==
    ASSUME NEW C, NEW t \in Seq(C), NEW d \in Seq(C), d # <<>>,
           NEW i \in Iterators, Loaded(i, t, d), ~ i.final
    PROVE  i.cursor \in 1 .. Len(t) + 1 /\ i.current.at < i.cursor
<1>1. Len(t) \in Nat /\ Len(d) \in Nat /\ Len(d) > 0 BY LenProperties, EmptySeq
<1>2. i.current.at \in Nat \ {0} /\ i.current.length \in Nat BY DEF Iterators, Views
<1>3. /\ i.cursor = i.current.at + i.current.length + Len(d)
      /\ i.current.at + i.current.length + Len(d) - 1 <= Len(t)
  BY DEF Loaded, Ended, StandsAt
<1>4. QED BY <1>1, <1>2, <1>3

\* operator++ keeps the copies and moves on.
LEMMA IncrementLoads ==
    ASSUME SplitIInv, SS!Increment
    PROVE  SplitIInv'
<1> DEFINE C == SS!Characters
           n == Len(copies)
<1>1. ~ it.done BY DEF SS!Increment, SS!Equal, SS!End
<1>2. delimiter # <<>>
  BY <1>1 DEF SplitIInv, SS!End
<1>3. text \in Seq(C) /\ delimiter \in Seq(C) /\ Passed /\ Arrived
  BY <1>2 DEF SplitIInv
<1>4. text' = text /\ delimiter' = delimiter /\ copies' = Append(copies, it)
      /\ it' = SS!Advance(it, text, delimiter)
  BY DEF SS!Increment
<1>5. /\ it \in Iterators /\ Loaded(it, text, delimiter)
      /\ n = 0 => it.current.at = 1
      /\ n > 0 => ~ copies[n].final /\ it.current.at = copies[n].cursor
  BY <1>1, <1>3 DEF Arrived
<1>6. copies \in Seq(Iterators) /\ n \in Nat
  BY <1>3, LenProperties DEF Passed
<1>7. /\ copies' \in Seq(Iterators) /\ Len(copies') = n + 1
      /\ \A i \in 1 .. n : copies'[i] = copies[i]
      /\ copies'[n + 1] = it
  BY <1>4, <1>5, <1>6, AppendProperties
<1> HIDE DEF n
<1>8. Passed'
  <2>1. \A i \in 1 .. n + 1 : Loaded(copies'[i], text, delimiter)
    BY <1>3, <1>5, <1>6, <1>7 DEF Passed, n
  <2>2. copies'[1].current.at = 1
    BY <1>3, <1>5, <1>6, <1>7 DEF Passed, n
  <2>3. ASSUME NEW i \in 1 .. n
        PROVE  ~ copies'[i].final /\ copies'[i + 1].current.at = copies'[i].cursor
    <3>1. CASE i = n BY <1>5, <1>6, <1>7, <3>1
    <3>2. CASE i \in 1 .. n - 1
      <4>1. i + 1 \in 1 .. n BY <1>6, <3>2
      <4>2. ~ copies[i].final /\ copies[i + 1].current.at = copies[i].cursor
        BY <1>3, <3>2 DEF Passed, n
      <4>3. QED BY <1>7, <4>1, <4>2
    <3>3. QED BY <1>6, <3>1, <3>2
  <2>4. ASSUME NEW i \in 1 .. n PROVE copies[i].current.at < it.current.at
    <3>0. n > 0 /\ n \in 1 .. n /\ copies[n] \in Iterators /\ copies[i] \in Iterators
      BY <1>6, ElementOfSeq DEF n
    <3>1. copies[n].current.at < it.current.at
      <4>1. Loaded(copies[n], text, delimiter) BY <1>3, <3>0 DEF Passed, n
      <4>2. QED BY <1>2, <1>3, <1>5, <3>0, <4>1, CursorAhead
    <3>2. i < n => copies[i].current.at < copies[n].current.at
      BY <1>3, <3>0 DEF Passed, n
    <3>3. copies[n].current.at \in Nat /\ copies[i].current.at \in Nat /\ it.current.at \in Nat
      BY <1>5, <3>0 DEF Iterators, Views
    <3>4. i < n \/ i = n BY <1>6
    <3>5. QED BY <3>1, <3>2, <3>3, <3>4
  <2>5. ASSUME NEW i \in 1 .. n + 1, NEW j \in 1 .. n + 1, i < j
        PROVE  copies'[i].current.at < copies'[j].current.at
    <3>1. CASE j = n + 1
      <4>1. i \in 1 .. n BY <1>6, <2>5, <3>1
      <4>2. QED BY <1>7, <2>4, <3>1, <4>1
    <3>2. CASE j \in 1 .. n
      <4>1. i \in 1 .. n BY <1>6, <2>5, <3>2
      <4>2. copies[i].current.at < copies[j].current.at
        BY <1>3, <2>5, <3>2, <4>1 DEF Passed, n
      <4>3. QED BY <1>7, <3>2, <4>1, <4>2
    <3>3. QED BY <1>6, <3>1, <3>2
  <2>6. Len(copies') - 1 = n BY <1>6, <1>7
  <2>7. \A i \in 1 .. Len(copies') - 1 :
           ~ copies'[i].final /\ copies'[i + 1].current.at = copies'[i].cursor
    BY <2>3, <2>6
  <2>8. \A i, j \in 1 .. Len(copies') : i < j => copies'[i].current.at < copies'[j].current.at
    BY <1>7, <2>5
  <2>9. \A i \in 1 .. Len(copies') : Loaded(copies'[i], text', delimiter')
    BY <1>4, <1>7, <2>1
  <2>10. QED BY <1>7, <2>2, <2>7, <2>8, <2>9 DEF Passed
<1>9. Arrived'
  <2>1. n + 1 > 0 /\ n + 1 # 0 BY <1>6
  <2>2. it = [current |-> it.current, cursor |-> it.cursor, final |-> it.final, done |-> FALSE]
        /\ it.final \in BOOLEAN
    BY <1>5 DEF Iterators
  <2>3. CASE it.final
    <3>1. it'.done BY <1>4, <2>2, <2>3 DEF SS!Advance
    <3>2. QED BY <1>7, <2>1, <2>3, <3>1 DEF Arrived
  <2>4. CASE ~ it.final
    <3>1. it.cursor \in 1 .. Len(text) + 1 BY <1>2, <1>3, <1>5, <2>4, CursorAhead
    <3>2. it = At(it.current, it.cursor) BY <2>2, <2>4 DEF At
    <3>3. it' \in Iterators /\ Loaded(it', text, delimiter) /\ it'.current.at = it.cursor
      BY <1>2, <1>3, <1>4, <3>1, <3>2, AdvanceLoads
    <3>4. ~ it'.done BY <3>3 DEF Iterators
    <3>5. QED BY <1>4, <1>7, <2>1, <2>4, <3>3, <3>4 DEF Arrived
  <2>5. QED BY <2>3, <2>4
<1>10. QED BY <1>2, <1>3, <1>4, <1>8, <1>9 DEF SplitIInv

\* Every step keeps the invariant.
LEMMA SplitStep ==
    ASSUME SplitIInv, [SS!Next]_SS!vars
    PROVE  SplitIInv'
<1>1. CASE \E t \in Texts, d \in Delimiters : SS!Begin(t, d)
  BY <1>1, BeginLoads
<1>2. CASE SS!Increment
  BY <1>2, IncrementLoads
<1>3. CASE UNCHANGED SS!vars
  BY <1>3 DEF SS!vars, SplitIInv, Passed, Arrived
<1>4. QED BY <1>1, <1>2, <1>3 DEF SS!Next

-----------------------------------------------------------------------------
\* The part of t from place a to before place b.
Piece(t, a, b) == SubSeq(t, a, b - 1)

\* Its characters.
LEMMA PieceIs ==
    ASSUME NEW C, NEW t \in Seq(C), NEW a \in Nat \ {0}, NEW b \in Nat, a <= b, b <= Len(t) + 1
    PROVE  /\ Piece(t, a, b) \in Seq(C)
           /\ Len(Piece(t, a, b)) = b - a
           /\ \A i \in 1 .. b - a : Piece(t, a, b)[i] = t[a + i - 1]
<1> DEFINE e == b - 1
<1>1. Len(t) \in Nat BY LenProperties
<1>2. e \in Int /\ 1 <= a /\ a \in Int /\ a <= e + 1 /\ e <= Len(t) /\ e - a + 1 = b - a
  BY <1>1
<1> HIDE DEF e
<1>3. /\ SubSeq(t, a, e) \in Seq(C) /\ Len(SubSeq(t, a, e)) = e - a + 1
      /\ \A i \in 1 .. e - a + 1 : SubSeq(t, a, e)[i] = t[a + i - 1]
  BY <1>2, Portion
<1>4. /\ SubSeq(t, a, e) \in Seq(C) /\ Len(SubSeq(t, a, e)) = b - a
      /\ \A i \in 1 .. b - a : SubSeq(t, a, e)[i] = t[a + i - 1]
  BY <1>2, <1>3
<1>5. QED BY <1>4 DEF Piece, e

\* A piece with a delimiter after it.
LEMMA Followed ==
    ASSUME NEW C, NEW s \in Seq(C), NEW d \in Seq(C), NEW l, l = Len(s), NEW n, n = Len(d)
    PROVE  /\ s \o d \in Seq(C)
           /\ Len(s \o d) = l + n
           /\ \A i \in 1 .. l + n : (s \o d)[i] = IF i <= l THEN s[i] ELSE d[i - l]
BY ConcatProperties

\* The field of length l at a, cut out with the delimiter that ends it.
CutOut(t, d, a, l) ==
    /\ Len(Piece(t, a, a + l)) = l
    /\ Piece(t, a, a + l + Len(d)) = Piece(t, a, a + l) \o d
    /\ SS!Find(Piece(t, a, a + l) \o d, d, 1) = l + 1

\* A field that ends at the first delimiter is cut out.
LEMMA FieldCut ==
    ASSUME NEW C, NEW t \in Seq(C), NEW d \in Seq(C), d # <<>>,
           NEW a \in Nat \ {0}, NEW l \in Nat, StandsAt(t, d, a + l),
           \A p \in a .. a + l - 1 : ~ StandsAt(t, d, p)
    PROVE  CutOut(t, d, a, l)
<1> DEFINE n == Len(d)
           field == Piece(t, a, a + l)
           whole == Piece(t, a, a + l + n)
           w == field \o d
<1> HIDE DEF w
<1>1. Len(t) \in Nat /\ n \in Nat /\ n > 0 BY LenProperties, EmptySeq
<1>2. a + l + n - 1 <= Len(t) /\ \A k \in 1 .. n : t[a + l + k - 1] = d[k]
  BY DEF StandsAt
<1> HIDE DEF n
<1>3. field \in Seq(C) /\ Len(field) = l /\ \A i \in 1 .. l : field[i] = t[a + i - 1]
  <2> DEFINE b == a + l
  <2>1. b \in Nat /\ a <= b /\ b <= Len(t) + 1 /\ b - a = l BY <1>1, <1>2
  <2> HIDE DEF b
  <2>2. /\ Piece(t, a, b) \in Seq(C) /\ Len(Piece(t, a, b)) = b - a
        /\ \A i \in 1 .. b - a : Piece(t, a, b)[i] = t[a + i - 1]
    BY <2>1, PieceIs
  <2>3. QED BY <2>1, <2>2 DEF b
<1>4. whole \in Seq(C) /\ Len(whole) = l + n /\ \A i \in 1 .. l + n : whole[i] = t[a + i - 1]
  <2> DEFINE b == a + l + n
  <2>1. b \in Nat /\ a <= b /\ b <= Len(t) + 1 /\ b - a = l + n BY <1>1, <1>2
  <2> HIDE DEF b
  <2>2. /\ Piece(t, a, b) \in Seq(C) /\ Len(Piece(t, a, b)) = b - a
        /\ \A i \in 1 .. b - a : Piece(t, a, b)[i] = t[a + i - 1]
    BY <2>1, PieceIs
  <2>3. QED BY <2>1, <2>2 DEF b
<1> HIDE DEF field, whole
<1>5. /\ w \in Seq(C) /\ Len(w) = l + n
      /\ \A i \in 1 .. l + n : w[i] = IF i <= l THEN field[i] ELSE d[i - l]
  <2>1. l = Len(field) /\ n = Len(d) /\ field \in Seq(C) BY <1>3 DEF n
  <2>2. /\ field \o d \in Seq(C) /\ Len(field \o d) = l + n
        /\ \A i \in 1 .. l + n : (field \o d)[i] = IF i <= l THEN field[i] ELSE d[i - l]
    BY <2>1, Followed
  <2>3. QED BY <2>2 DEF w
<1>6. ASSUME NEW i \in 1 .. l + n PROVE w[i] = t[a + i - 1]
  <2>1. CASE i <= l
    <3>1. i \in 1 .. l BY <1>1, <2>1
    <3>2. QED BY <1>3, <1>5, <2>1, <3>1
  <2>2. CASE ~ (i <= l)
    <3>1. i - l \in 1 .. n /\ a + l + (i - l) - 1 = a + i - 1 BY <1>1, <2>2
    <3>2. t[a + l + (i - l) - 1] = d[i - l] BY <1>2, <3>1
    <3>3. QED BY <1>5, <2>2, <3>1, <3>2
  <2>3. QED BY <2>1, <2>2
<1>7. whole = w
  <2>1. \A i \in 1 .. Len(whole) : whole[i] = w[i] BY <1>4, <1>6
  <2>2. QED BY <1>4, <1>5, <2>1, SeqEqual
<1>8. SS!Find(w, d, 1) = l + 1
  <2> DEFINE m == l + 1
  <2>1. 1 \in Nat \ {0} /\ m - 1 = l /\ m \in 1 .. Len(w) BY <1>1, <1>5
  <2>2. StandsAt(w, d, m)
    <3>1. m + n - 1 <= Len(w) BY <1>1, <1>5
    <3>2. ASSUME NEW k \in 1 .. n PROVE w[m + k - 1] = d[k]
      <4> DEFINE q == m + k - 1
      <4>1. q \in 1 .. l + n /\ ~ (q <= l) /\ q - l = k BY <1>1
      <4> HIDE DEF q
      <4>2. w[q] = d[k] BY <1>5, <4>1
      <4>3. QED BY <4>2 DEF q
    <3>3. QED BY <3>1, <3>2 DEF StandsAt, n
  <2>3. ASSUME NEW p \in 1 .. l, StandsAt(w, d, p) PROVE FALSE
    <3>1. p \in 1 .. Len(w) /\ a + p - 1 \in a .. a + l - 1 /\ a + Len(w) - 1 <= Len(t)
      BY <1>1, <1>2, <1>5
    <3>2. \A k \in 1 .. Len(w) : w[k] = t[a + k - 1] BY <1>5, <1>6
    <3>3. StandsAt(t, d, a + p - 1) BY <1>5, <2>3, <3>1, <3>2, StandsInPart
    <3>4. QED BY <3>1, <3>3
  <2> HIDE DEF m
  <2>4. \A p \in 1 .. m - 1 : ~ StandsAt(w, d, p) BY <2>1, <2>3
  <2>5. SS!Find(w, d, 1) = m BY <1>5, <2>1, <2>2, <2>4, FirstIs
  <2>6. QED BY <2>5 DEF m
<1>9. QED BY <1>3, <1>7, <1>8 DEF CutOut, w, whole, field, n

\* The last field, cut out of the text.
LEMMA LastFieldCut ==
    ASSUME NEW C, NEW t \in Seq(C), NEW d \in Seq(C), NEW a \in Nat \ {0}, a <= Len(t) + 1,
           \A p \in a .. Len(t) : ~ StandsAt(t, d, p)
    PROVE  SS!Find(Piece(t, a, Len(t) + 1), d, 1) = 0
<1> DEFINE b == Len(t) + 1
           field == Piece(t, a, b)
<1>1. Len(t) \in Nat /\ b \in Nat /\ b <= Len(t) + 1 /\ a <= b BY LenProperties
<1> HIDE DEF b
<1>2. field \in Seq(C) /\ Len(field) = b - a /\ \A i \in 1 .. b - a : field[i] = t[a + i - 1]
  BY <1>1, PieceIs
<1> HIDE DEF field
<1>3. ASSUME NEW p \in 1 .. Len(field), StandsAt(field, d, p) PROVE FALSE
  <2>1. p \in 1 .. b - a BY <1>2
  <2>2. a + p - 1 \in a .. Len(t) /\ a + (b - a) - 1 <= Len(t) BY <1>1, <2>1 DEF b
  <2>3. \A k \in 1 .. Len(field) : field[k] = t[a + k - 1] BY <1>2
  <2>4. a + Len(field) - 1 <= Len(t) BY <1>2, <2>2
  <2>5. StandsAt(t, d, a + p - 1) BY <1>2, <1>3, <2>3, <2>4, StandsInPart
  <2>6. QED BY <2>2, <2>5
<1>4. 1 \in Nat \ {0} OBVIOUS
<1>5. SS!Find(field, d, 1) = 0 BY <1>2, <1>3, <1>4, NoneIs
<1>6. QED BY <1>5 DEF field, b

\* At the end the fields passed are all the text.
LEMMA FieldsAll == SplitIInv => SS!FieldsExact
<1> SUFFICES ASSUME SplitIInv, delimiter # <<>>, it.done
    PROVE  /\ SS!Fields # <<>>
           /\ SS!Begins(1) = 1
           /\ \A i \in 1 .. Len(SS!Fields) - 1 :
                /\ SubSeq(text, SS!Begins(i), SS!Begins(i + 1) - 1) = SS!Fields[i] \o delimiter
                /\ SS!Find(SS!Fields[i] \o delimiter, delimiter, 1) = Len(SS!Fields[i]) + 1
           /\ SubSeq(text, SS!Begins(Len(SS!Fields)), Len(text)) = SS!Fields[Len(SS!Fields)]
           /\ SS!Find(SS!Fields[Len(SS!Fields)], delimiter, 1) = 0
  BY DEF SS!FieldsExact
<1> DEFINE C == SS!Characters
           n == Len(copies)
           F == SS!Fields
<1>1. text \in Seq(C) /\ delimiter \in Seq(C) /\ Passed /\ n > 0 /\ copies[n].final
  BY DEF SplitIInv, Arrived
<1>2. copies \in Seq(Iterators) /\ n \in Nat /\ DOMAIN copies = 1 .. n
  BY <1>1, LenProperties DEF Passed
<1>3. ASSUME NEW i \in 1 .. n
      PROVE  /\ copies[i] \in Iterators /\ copies[i].current \in Views
             /\ Loaded(copies[i], text, delimiter)
             /\ F[i] = Piece(text, copies[i].current.at,
                             copies[i].current.at + copies[i].current.length)
  <2>1. copies[i] \in Iterators BY <1>2, ElementOfSeq
  <2>2. copies[i].current \in Views BY <2>1 DEF Iterators
  <2>3. Loaded(copies[i], text, delimiter) BY <1>1 DEF Passed
  <2>4. F[i] = Piece(text, copies[i].current.at, copies[i].current.at + copies[i].current.length)
    <3>1. PICK a \in Nat, l \in Nat : a = copies[i].current.at /\ l = copies[i].current.length
      BY <2>2 DEF Views
    <3>2. a + l - 1 = (a + l) - 1 OBVIOUS
    <3>3. QED BY <1>2, <3>1, <3>2, Zenon DEF SS!Fields, SS!Chars, Piece
  <2>5. QED BY <2>1, <2>2, <2>3, <2>4
<1>4. Len(F) = n /\ F # <<>>
  <2>1. DOMAIN F = 1 .. n BY <1>2 DEF SS!Fields
  <2>2. Len(F) = n BY <1>2, <2>1 DEF SS!Fields
  <2>3. 1 \in DOMAIN F BY <1>1, <1>2, <2>1
  <2>4. DOMAIN <<>> = {} OBVIOUS
  <2>5. F # <<>> BY <2>3, <2>4, Zenon
  <2>6. QED BY <2>2, <2>5
<1> HIDE DEF F, n
<1>5. SS!Begins(1) = 1 BY <1>1 DEF Passed, SS!Begins, n
<1>6. ASSUME NEW i \in 1 .. n - 1
      PROVE  /\ SubSeq(text, SS!Begins(i), SS!Begins(i + 1) - 1) = F[i] \o delimiter
             /\ SS!Find(F[i] \o delimiter, delimiter, 1) = Len(F[i]) + 1
  <2>1. i \in 1 .. n BY <1>2
  <2>2. PICK a, l : a = copies[i].current.at /\ l = copies[i].current.length
    OBVIOUS
  <2>3. ~ copies[i].final /\ copies[i + 1].current.at = copies[i].cursor
    BY <1>1 DEF Passed, n
  <2>4. /\ a \in Nat \ {0} /\ l \in Nat
        /\ StandsAt(text, delimiter, a + l)
        /\ \A p \in a .. a + l - 1 : ~ StandsAt(text, delimiter, p)
        /\ copies[i].cursor = a + l + Len(delimiter)
    BY <1>3, <2>1, <2>2, <2>3 DEF Loaded, Ended, Views
  <2>5. F[i] = Piece(text, a, a + l) BY <1>3, <2>1, <2>2
  <2>6. SS!Begins(i) = a /\ SS!Begins(i + 1) = a + l + Len(delimiter)
    BY <2>2, <2>3, <2>4 DEF SS!Begins
  <2>7. /\ Len(F[i]) = l
        /\ Piece(text, a, a + l + Len(delimiter)) = F[i] \o delimiter
        /\ SS!Find(F[i] \o delimiter, delimiter, 1) = l + 1
    <3>1. CutOut(text, delimiter, a, l) BY <1>1, <2>4, FieldCut
    <3>2. QED BY <2>5, <3>1 DEF CutOut
  <2>8. Piece(text, SS!Begins(i), SS!Begins(i + 1)) = F[i] \o delimiter BY <2>6, <2>7
  <2>9. QED BY <2>7, <2>8 DEF Piece
<1>7. SubSeq(text, SS!Begins(n), Len(text)) = F[n] /\ SS!Find(F[n], delimiter, 1) = 0
  <2>1. n \in 1 .. n BY <1>1, <1>2
  <2>2. PICK a, l : a = copies[n].current.at /\ l = copies[n].current.length
    OBVIOUS
  <2>3. /\ a \in Nat \ {0} /\ l \in Nat /\ a + l = Len(text) + 1
        /\ \A p \in a .. Len(text) : ~ StandsAt(text, delimiter, p)
    BY <1>1, <1>3, <2>1, <2>2 DEF Loaded, Unended, Views
  <2>4. F[n] = Piece(text, a, Len(text) + 1) BY <1>3, <2>1, <2>2, <2>3
  <2>5. SS!Begins(n) = a BY <2>2 DEF SS!Begins
  <2>6. Len(text) \in Nat /\ Len(text) + 1 - 1 = Len(text) BY <1>1, LenProperties
  <2>7. Piece(text, SS!Begins(n), Len(text) + 1) = F[n] BY <2>4, <2>5
  <2>8. SubSeq(text, SS!Begins(n), Len(text)) = F[n] BY <2>6, <2>7 DEF Piece
  <2>9. a <= Len(text) + 1 BY <2>3, <2>6
  <2>10. SS!Find(F[n], delimiter, 1) = 0 BY <1>1, <2>3, <2>4, <2>9, LastFieldCut
  <2>11. QED BY <2>8, <2>10
<1>8. F[Len(F)] = F[n] BY <1>4
<1>9. QED BY <1>4, <1>5, <1>6, <1>7, <1>8 DEF F

\* Iterators at different fields are told apart.
LEMMA FieldsApart == SplitIInv /\ delimiter # <<>> => SS!CopiesDistinct
<1> SUFFICES ASSUME SplitIInv, delimiter # <<>> PROVE SS!CopiesDistinct
  OBVIOUS
<1> DEFINE n == Len(copies)
           all == Append(copies, it)
<1>1. /\ text \in Seq(SS!Characters) /\ delimiter \in Seq(SS!Characters)
      /\ Passed /\ Arrived /\ copies \in Seq(Iterators)
  BY DEF SplitIInv, Passed
<1>2. n \in Nat BY <1>1, LenProperties
<1>3. DOMAIN all = 1 .. n + 1 /\ all[n + 1] = it /\ \A i \in 1 .. n : all[i] = copies[i]
  BY <1>1, <1>2
<1> HIDE DEF n, all
<1>4. \A i \in 1 .. n : copies[i] \in Iterators /\ copies[i].done = FALSE
  <2>1. \A i \in 1 .. n : copies[i] \in Iterators BY <1>1, <1>2, ElementOfSeq DEF n
  <2>2. QED BY <2>1 DEF Iterators
<1>5. ASSUME NEW i \in 1 .. n PROVE ~ SS!Equal(copies[i], it)
  <2>1. CASE it.done BY <1>4, <2>1 DEF SS!Equal
  <2>2. CASE ~ it.done
    <3>1. it \in Iterators /\ it.current.at = copies[n].cursor /\ ~ copies[n].final
      BY <1>1, <1>2, <2>2 DEF Arrived, n
    <3>2. n \in 1 .. n /\ copies[n] \in Iterators /\ Loaded(copies[n], text, delimiter)
      BY <1>1, <1>2, <1>4 DEF Passed, n
    <3>3. copies[n].current.at < it.current.at BY <1>1, <3>1, <3>2, CursorAhead
    <3>4. i < n => copies[i].current.at < copies[n].current.at BY <1>1, <3>2 DEF Passed, n
    <3>5. copies[n].current.at \in Nat /\ copies[i].current.at \in Nat /\ it.current.at \in Nat
      BY <1>4, <3>1, <3>2 DEF Iterators, Views
    <3>6. i < n \/ i = n BY <1>2
    <3>7. copies[i].current.at # it.current.at BY <3>3, <3>4, <3>5, <3>6
    <3>8. copies[i].current # it.current BY <3>7
    <3>9. QED BY <1>4, <2>2, <3>8 DEF SS!Equal
  <2>3. QED BY <2>1, <2>2
<1>6. ASSUME NEW i \in 1 .. n, NEW j \in 1 .. n, i # j PROVE ~ SS!Equal(copies[i], copies[j])
  <2>1. copies[i].current.at < copies[j].current.at \/ copies[j].current.at < copies[i].current.at
    <3>1. i < j \/ j < i BY <1>2, <1>6
    <3>2. QED BY <1>1, <3>1 DEF Passed, n
  <2>2. copies[i].current.at \in Nat /\ copies[j].current.at \in Nat
    BY <1>4 DEF Iterators, Views
  <2>3. copies[i].current.at # copies[j].current.at BY <2>1, <2>2
  <2>4. copies[i].current # copies[j].current BY <2>3
  <2>5. QED BY <1>4, <2>4 DEF SS!Equal
<1>7. \A x, y : SS!Equal(x, y) <=> SS!Equal(y, x)
  BY DEF SS!Equal
<1>8. \A x : SS!Equal(x, x)
  BY DEF SS!Equal
<1>9. ASSUME NEW i \in DOMAIN all, NEW j \in DOMAIN all PROVE SS!Equal(all[i], all[j]) <=> i = j
  <2>1. (i \in 1 .. n \/ i = n + 1) /\ (j \in 1 .. n \/ j = n + 1) BY <1>2, <1>3
  <2>2. ASSUME i # j PROVE ~ SS!Equal(all[i], all[j])
    <3>1. CASE i \in 1 .. n /\ j \in 1 .. n BY <1>3, <1>6, <2>2, <3>1
    <3>2. CASE i \in 1 .. n /\ j = n + 1 BY <1>3, <1>5, <3>2
    <3>3. CASE i = n + 1 /\ j \in 1 .. n
      <4>1. ~ SS!Equal(copies[j], it) BY <1>5, <3>3
      <4>2. QED BY <1>3, <1>7, <3>3, <4>1
    <3>4. QED BY <2>1, <2>2, <3>1, <3>2, <3>3
  <2>3. ASSUME i = j PROVE SS!Equal(all[i], all[j]) BY <1>8, <2>3
  <2>4. QED BY <2>2, <2>3
<1>10. QED BY <1>9 DEF SS!CopiesDistinct, all

\* operator++ from begin() to end() yields every field of the text once and in order,
\* cut at the first occurrences of the delimiter from the left, and iterators at
\* different fields compare unequal, for every text and delimiter that is not empty.
THEOREM FieldsAreExact == SS!Spec => []SplitExact
<1>1. SS!Init => SplitIInv
  BY DEF SS!Init, SplitIInv
<1>2. SplitIInv /\ [SS!Next]_SS!vars => SplitIInv'
  BY SplitStep
<1>3. SplitIInv => SplitExact
  BY FieldsAll, FieldsApart DEF SplitExact, SS!SplitExact
<1>4. QED BY <1>1, <1>2, <1>3, PTL DEF SS!Spec

-----------------------------------------------------------------------------
(* The logger's sinks.                                                     *)

\* A quotient and its remainder.
LEMMA Divided ==
    ASSUME NEW x \in Int, NEW d \in Nat \ {0}
    PROVE  /\ x \div d \in Int
           /\ d * (x \div d) <= x /\ x < d * (x \div d) + d
<1> DEFINE q == x \div d
           r == x % d
<1>1. q \in Int /\ r \in 0 .. d - 1 /\ x = d * q + r
  OBVIOUS
<1>2. d * q \in Int BY <1>1
<1> HIDE DEF q, r
<1>3. d * q <= x /\ x < d * q + d BY <1>1, <1>2
<1>4. QED BY <1>1, <1>3 DEF q

\* Products keep order ...
LEMMA ProductOrder ==
    ASSUME NEW d \in Nat, NEW a \in Int, NEW b \in Int, a <= b
    PROVE  d * a <= d * b
OBVIOUS

\* ... and may be regrouped.
LEMMA Regrouped ==
    ASSUME NEW a \in Int, NEW b \in Int, NEW c \in Int
    PROVE  a * (b * c) = b * (a * c)
OBVIOUS

\* There is one quotient only.
LEMMA Quotient ==
    ASSUME NEW x \in Int, NEW d \in Nat \ {0}, NEW q \in Int, d * q <= x, x < d * q + d
    PROVE  x \div d = q
<1> DEFINE p == x \div d
<1>1. p \in Int /\ d * p <= x /\ x < d * p + d BY Divided
<1> HIDE DEF p
<1>2. d * p \in Int /\ d * q \in Int BY <1>1
<1>3. CASE p < q
  <2>1. d * (p + 1) <= d * q BY <1>1, <1>3
  <2>2. d * (p + 1) = d * p + d BY <1>1
  <2>3. QED BY <1>1, <1>2, <2>1, <2>2
<1>4. CASE q < p
  <2>1. d * (q + 1) <= d * p BY <1>1, <1>4
  <2>2. d * (q + 1) = d * q + d BY <1>1
  <2>3. QED BY <1>1, <1>2, <2>1, <2>2
<1>5. QED BY <1>1, <1>3, <1>4 DEF p

\* A quotient of less than M times the divisor is less than M.
LEMMA QuotientBounds ==
    ASSUME NEW d \in Nat \ {0}, NEW M \in Nat \ {0}, NEW r \in Int, 0 <= r, r < d * M,
           NEW k \in Int, d * k <= r, r < d * k + d
    PROVE  k >= 0 /\ k < M
<1>1. d * k \in Int /\ d * M \in Int OBVIOUS
<1>2. k >= 0
  <2>1. CASE k + 1 <= 0
    <3>1. d * (k + 1) <= d * 0 BY <2>1, ProductOrder
    <3>2. d * (k + 1) = d * k + d /\ d * 0 = 0 OBVIOUS
    <3>3. QED BY <1>1, <3>1, <3>2
  <2>2. QED BY <2>1
<1>3. k < M
  <2>1. CASE M <= k
    <3>1. d * M <= d * k BY <2>1, ProductOrder
    <3>2. QED BY <1>1, <3>1
  <2>2. QED BY <2>1
<1>4. QED BY <1>2, <1>3

\* The second of a time, and the milliseconds after it ...
SecondOf(time, T, M) == time \div (T * M)
RestOf(time, T, M) == (time - SecondOf(time, T, M) * (T * M)) \div T

\* ... name the time to the millisecond.
LEMMA StampIs ==
    ASSUME NEW time \in Int, NEW T \in Nat \ {0}, NEW M \in Nat \ {0}
    PROVE  /\ SecondOf(time, T, M) \in Int /\ RestOf(time, T, M) \in 0 .. M - 1
           /\ SecondOf(time, T, M) * M + RestOf(time, T, M) = time \div T
           /\ SecondOf(time, T, M) = (time \div T) \div M
<1>0. PICK second, ms : /\ second = SecondOf(time, T, M) /\ second = time \div (T * M)
                       /\ ms = RestOf(time, T, M) /\ ms = (time - second * (T * M)) \div T
  BY Zenon DEF SecondOf, RestOf
<1> DEFINE D == T * M
           r == time - second * D
<1>1. D \in Nat \ {0} BY SMTT(30)
<1>2. second \in Int /\ D * second <= time /\ time < D * second + D
  <2> HIDE DEF D
  <2>1. QED BY <1>0, <1>1, Divided DEF D
<1>3. D * second = second * D /\ second * D \in Int /\ D * second \in Int
  BY <1>1, <1>2
<1>4. r \in Int /\ 0 <= r /\ r < D
  <2> HIDE DEF D
  <2>1. QED BY <1>1, <1>2, <1>3
<1>5. ms \in Int /\ T * ms <= r /\ r < T * ms + T
  <2>1. ms = r \div T BY <1>0, Zenon
  <2> HIDE DEF r
  <2>2. QED BY <1>4, <2>1, Divided
<1>6. T * ms \in Int BY <1>5
<1>7. ms >= 0 /\ ms < M
  <2> HIDE DEF r
  <2>1. QED BY <1>4, <1>5, QuotientBounds DEF D
<1> DEFINE v == second * M + ms
<1>8. v \in Int BY <1>2, <1>5
<1>9. T * v = second * D + T * ms
  <2>1. T * (second * M + ms) = T * (second * M) + T * ms BY <1>2, <1>5
  <2>2. T * (second * M) = second * (T * M)
    <3>1. T \in Int /\ M \in Int OBVIOUS
    <3>2. QED BY <1>2, <3>1, Regrouped
  <2>3. QED BY <2>1, <2>2
<1>10. T * v <= time /\ time < T * v + T
  <2> HIDE DEF v, D
  <2>1. r = time - second * D OBVIOUS
  <2> HIDE DEF r
  <2>2. PICK a \in Int, b \in Int, c \in Int : a = second * D /\ b = T * ms /\ c = T * v
    BY <1>3, <1>6, <1>9
  <2>3. T * ms = b /\ T * v = a + b /\ r = time - a BY <1>9, <2>1, <2>2
  <2>4. b <= time - a /\ time - a < b + T BY <1>5, <2>3
  <2>5. a + b <= time /\ time < a + b + T BY <2>4
  <2>6. QED BY <2>3, <2>5
<1>11. time \div T = v
  <2> HIDE DEF v
  <2>1. QED BY <1>8, <1>10, Quotient
<1>12. v \div M = second
  <2>1. M * second = second * M /\ M * second \in Int BY <1>2
  <2>2. M * second <= v /\ v < M * second + M BY <1>5, <1>7, <2>1
  <2> HIDE DEF v
  <2>3. QED BY <1>2, <1>8, <2>2, Quotient
<1>13. /\ second \in Int /\ ms \in 0 .. M - 1
       /\ second * M + ms = time \div T /\ second = (time \div T) \div M
  <2>1. second \in Int /\ ms \in 0 .. M - 1 BY <1>2, <1>5, <1>7
  <2>2. QED BY <2>1, <1>11, <1>12, Zenon
<1>14. QED BY <1>0, <1>13, Zenon

\* Three digits.
LEMMA DigitsAre ==
    ASSUME NEW v \in 0 .. 999
    PROVE  /\ LS!Padded(v) = <<v \div 100, (v \div 10) % 10, v % 10>>
           /\ v \div 100 \in 0 .. 9 /\ (v \div 10) % 10 \in 0 .. 9 /\ v % 10 \in 0 .. 9
           /\ (v \div 100) * 100 + ((v \div 10) % 10) * 10 + (v % 10) = v
<1>1. LS!Padded(v) = <<v \div 100, (v \div 10) % 10, v % 10>> BY DEF LS!Padded
<1>2. v \div 100 \in 0 .. 9 /\ (v \div 10) % 10 \in 0 .. 9 /\ v % 10 \in 0 .. 9 OBVIOUS
<1>3. (v \div 100) * 100 + ((v \div 10) % 10) * 10 + (v % 10) = v OBVIOUS
<1>4. QED BY <1>1, <1>2, <1>3

\* A set of numbers that has 0, and the next number with every number, has them all.
LEMMA AllNumbers ==
    ASSUME NEW T, T \subseteq Nat, 0 \in T, \A n \in T : n + 1 \in T
    PROVE  T = Nat
<1>1. SUFFICES ASSUME Nat \ T # {} PROVE FALSE OBVIOUS
<1>2. PICK m \in Nat \ T : \A n \in Nat \ T : m <= n BY <1>1, Least
<1>3. m - 1 \in Nat BY <1>2
<1>4. m - 1 \in T BY <1>2, <1>3
<1>5. QED BY <1>2, <1>3, <1>4

\* f joins the sequences of s, one after the other.
Joins(f, s, n) == f = [i \in 1 .. n |-> IF i = 1 THEN s[i] ELSE f[i - 1] \o s[i]]

\* FlattenSeq() is the last of the joins.
LEMMA Unfold ==
    ASSUME NEW s, Len(s) # 0
    PROVE  LS!FlattenSeq(s) = (CHOOSE f : Joins(f, s, Len(s)))[Len(s)]
BY DEF LS!FlattenSeq, Joins

\* One more sequence can be joined ...
LEMMA JoinsStep ==
    ASSUME NEW S, NEW s \in Seq(Seq(S)), NEW n \in Nat, n + 1 <= Len(s), NEW f, Joins(f, s, n)
    PROVE  \E g : Joins(g, s, n + 1)
<1> DEFINE g == [i \in 1 .. n + 1 |->
                    IF i = n + 1 THEN IF i = 1 THEN s[i] ELSE f[i - 1] \o s[i] ELSE f[i]]
<1>1. ASSUME NEW i \in 1 .. n + 1 PROVE g[i] = IF i = 1 THEN s[i] ELSE g[i - 1] \o s[i]
  <2>1. CASE i = n + 1
    <3>1. CASE i = 1 BY <2>1, <3>1
    <3>2. CASE i # 1
      <4>1. i - 1 \in 1 .. n + 1 /\ i - 1 # n + 1 BY <2>1, <3>2
      <4>2. g[i - 1] = f[i - 1] BY <4>1
      <4>3. QED BY <2>1, <3>2, <4>2
    <3>3. QED BY <3>1, <3>2
  <2>2. CASE i # n + 1
    <3>1. i \in 1 .. n BY <2>2
    <3>2. g[i] = f[i] BY <2>2
    <3>3. f[i] = IF i = 1 THEN s[i] ELSE f[i - 1] \o s[i] BY <3>1 DEF Joins
    <3>4. CASE i = 1 BY <3>2, <3>3, <3>4
    <3>5. CASE i # 1
      <4>1. i - 1 \in 1 .. n + 1 /\ i - 1 # n + 1 BY <3>1, <3>5
      <4>2. g[i - 1] = f[i - 1] BY <4>1
      <4>3. QED BY <3>2, <3>3, <3>5, <4>2
    <3>6. QED BY <3>4, <3>5
  <2>3. QED BY <2>1, <2>2
<1>2. g = [i \in 1 .. n + 1 |-> g[i]] OBVIOUS
<1> HIDE DEF g
<1>3. g = [i \in 1 .. n + 1 |-> IF i = 1 THEN s[i] ELSE g[i - 1] \o s[i]] BY <1>1, <1>2
<1>4. QED BY <1>3 DEF Joins

\* ... so all can.
LEMMA JoinsExists ==
    ASSUME NEW S, NEW s \in Seq(Seq(S)), NEW n \in 0 .. Len(s)
    PROVE  \E f : Joins(f, s, n)
<1> DEFINE T == {k \in Nat : k <= Len(s) => \E f : Joins(f, s, k)}
<1>1. Len(s) \in Nat BY LenProperties
<1>2. 0 \in T
  <2>1. Joins([i \in 1 .. 0 |-> 0], s, 0) BY DEF Joins
  <2>2. QED BY <2>1
<1>3. ASSUME NEW k \in T PROVE k + 1 \in T
  <2>1. CASE k + 1 <= Len(s)
    <3>1. PICK f : Joins(f, s, k) BY <1>1, <2>1
    <3>2. \E g : Joins(g, s, k + 1) BY <2>1, <3>1, JoinsStep
    <3>3. QED BY <3>2
  <2>2. QED BY <2>1
<1>4. T \subseteq Nat OBVIOUS
<1> HIDE DEF T
<1>5. T = Nat BY <1>2, <1>3, <1>4, AllNumbers
<1>6. n \in T BY <1>1, <1>5
<1>7. QED BY <1>1, <1>6 DEF T

\* What each join is.
LEMMA JoinsAt ==
    ASSUME NEW s, NEW n \in Nat, NEW f, Joins(f, s, n), NEW i \in 1 .. n
    PROVE  f[i] = IF i = 1 THEN s[i] ELSE f[i - 1] \o s[i]
BY DEF Joins

\* f and g have the same first k elements.
Agree(f, g, k) == \A i \in 1 .. k : f[i] = g[i]

\* Joins of the same sequences are the same.
LEMMA JoinsAgree ==
    ASSUME NEW s, NEW t, NEW m \in Nat, NEW n \in Nat, NEW f, NEW g, Joins(f, s, m), Joins(g, t, n),
           NEW k \in Nat, k <= m, k <= n, Agree(s, t, k)
    PROVE  Agree(f, g, k)
<1> DEFINE T == {i \in Nat : i \in 1 .. k => f[i] = g[i]}
<1>1. 0 \in T OBVIOUS
<1>2. ASSUME NEW i \in T PROVE i + 1 \in T
  <2>1. CASE i + 1 \in 1 .. k
    <3>1. i + 1 \in 1 .. m /\ i + 1 \in 1 .. n BY <2>1
    <3>2. f[i + 1] = IF i + 1 = 1 THEN s[i + 1] ELSE f[(i + 1) - 1] \o s[i + 1] BY <3>1, JoinsAt
    <3>3. g[i + 1] = IF i + 1 = 1 THEN t[i + 1] ELSE g[(i + 1) - 1] \o t[i + 1] BY <3>1, JoinsAt
    <3>4. s[i + 1] = t[i + 1] /\ (i + 1) - 1 = i BY <2>1 DEF Agree
    <3>5. CASE i = 0 BY <3>2, <3>3, <3>4, <3>5
    <3>6. CASE i # 0
      <4>1. i \in 1 .. k BY <2>1, <3>6
      <4>2. f[i] = g[i] BY <4>1
      <4>3. QED BY <3>2, <3>3, <3>4, <3>6, <4>2
    <3>7. QED BY <3>5, <3>6
  <2>2. QED BY <2>1
<1>3. T \subseteq Nat OBVIOUS
<1> HIDE DEF T
<1>4. T = Nat BY <1>1, <1>2, <1>3, AllNumbers
<1>5. QED BY <1>4 DEF T, Agree

\* Joins of sequences over S are sequences over S.
LEMMA JoinsTyped ==
    ASSUME NEW S, NEW s \in Seq(Seq(S)), NEW f, Joins(f, s, Len(s))
    PROVE  \A i \in 1 .. Len(s) : f[i] \in Seq(S)
<1> DEFINE T == {i \in Nat : i \in 1 .. Len(s) => f[i] \in Seq(S)}
<1>1. Len(s) \in Nat /\ \A i \in 1 .. Len(s) : s[i] \in Seq(S) BY LenProperties, ElementOfSeq
<1>2. 0 \in T OBVIOUS
<1>3. ASSUME NEW i \in T PROVE i + 1 \in T
  <2>1. CASE i + 1 \in 1 .. Len(s)
    <3>1. f[i + 1] = IF i + 1 = 1 THEN s[i + 1] ELSE f[(i + 1) - 1] \o s[i + 1]
      BY <1>1, <2>1, JoinsAt
    <3>2. s[i + 1] \in Seq(S) /\ (i + 1) - 1 = i BY <1>1, <2>1
    <3>3. CASE i = 0 BY <3>1, <3>2, <3>3
    <3>4. CASE i # 0
      <4>1. i \in 1 .. Len(s) BY <1>1, <2>1, <3>4
      <4>2. f[i] \in Seq(S) BY <4>1
      <4>3. PICK a \in Seq(S), b \in Seq(S) : a = f[i] /\ b = s[i + 1] BY <3>2, <4>2
      <4>4. i + 1 # 1 BY <3>4
      <4>5. f[i + 1] = a \o b BY <3>1, <3>2, <4>3, <4>4, Zenon
      <4>6. a \o b \in Seq(S) BY ConcatProperties
      <4>7. f[i + 1] \in Seq(S) BY <4>5, <4>6, Zenon
      <4>8. i + 1 \in Nat OBVIOUS
      <4>9. QED BY <4>7, <4>8
    <3>5. QED BY <3>3, <3>4
  <2>2. QED BY <2>1
<1>4. T \subseteq Nat OBVIOUS
<1> HIDE DEF T
<1>5. T = Nat BY <1>2, <1>3, <1>4, AllNumbers
<1>6. ASSUME NEW i \in 1 .. Len(s) PROVE f[i] \in Seq(S)
  <2>1. i \in T BY <1>1, <1>5
  <2>2. QED BY <2>1 DEF T
<1>7. QED BY <1>6

\* One more sequence is joined to the others.
LEMMA FlattenAppend ==
    ASSUME NEW S, NEW s \in Seq(Seq(S)), NEW e \in Seq(S)
    PROVE  LS!FlattenSeq(s) \in Seq(S) /\ LS!FlattenSeq(Append(s, e)) = LS!FlattenSeq(s) \o e
<1> DEFINE n == Len(s)
           t == Append(s, e)
           f == CHOOSE h : Joins(h, s, n)
           g == CHOOSE h : Joins(h, t, n + 1)
<1>1. n \in Nat BY LenProperties
<1>2. /\ t \in Seq(Seq(S)) /\ Len(t) = n + 1 /\ t[n + 1] = e
      /\ \A i \in 1 .. n : t[i] = s[i]
  BY AppendProperties
<1> HIDE DEF t
<1>3. Joins(f, s, n)
  <2>1. n \in 0 .. Len(s) BY <1>1
  <2>2. \E h : Joins(h, s, n) BY <2>1, JoinsExists
  <2>3. QED BY <2>2
<1>4. Joins(g, t, n + 1)
  <2>1. n + 1 \in 0 .. Len(t) BY <1>1, <1>2
  <2>2. \E h : Joins(h, t, n + 1) BY <1>2, <2>1, JoinsExists
  <2>3. QED BY <2>2
<1>5. LS!FlattenSeq(t) = g[n + 1]
  <2>1. Len(t) # 0 BY <1>1, <1>2
  <2>2. LS!FlattenSeq(t) = (CHOOSE h : Joins(h, t, Len(t)))[Len(t)] BY <2>1, Unfold
  <2>3. QED BY <1>2, <2>2
<1> HIDE DEF f, g
<1>6. g[n + 1] = IF n + 1 = 1 THEN t[n + 1] ELSE g[(n + 1) - 1] \o t[n + 1]
  <2>1. n + 1 \in Nat /\ n + 1 \in 1 .. n + 1 BY <1>1
  <2>2. QED BY <1>4, <2>1, JoinsAt
<1>7. CASE n = 0
  <2>1. LS!FlattenSeq(s) = s /\ s = << >> BY <1>7, EmptySeq DEF LS!FlattenSeq
  <2>2. g[n + 1] = e BY <1>2, <1>6, <1>7
  <2>3. << >> \o e = e /\ << >> \in Seq(S) BY ConcatEmptySeq, EmptySeq
  <2>4. LS!FlattenSeq(t) = LS!FlattenSeq(s) \o e BY <1>5, <2>1, <2>2, <2>3, Zenon
  <2>5. LS!FlattenSeq(s) \in Seq(S) BY <2>1, <2>3, Zenon
  <2>6. QED BY <2>4, <2>5, Zenon DEF t
<1>8. CASE n # 0
  <2>1. LS!FlattenSeq(s) = f[n] BY <1>8, Unfold DEF f
  <2>2. n \in 1 .. n BY <1>1, <1>8
  <2>3. f[n] \in Seq(S) BY <1>3, <2>2, JoinsTyped
  <2>4. \A i \in 1 .. n : f[i] = g[i]
    <3>1. PICK m \in Nat : m = n + 1 /\ n <= m /\ n <= n BY <1>1
    <3>2. Agree(s, t, n) BY <1>2 DEF Agree
    <3>3. Joins(g, t, m) BY <1>4, <3>1, Zenon
    <3> HIDE DEF n
    <3>4. Agree(f, g, n) BY <1>1, <1>3, <3>1, <3>2, <3>3, JoinsAgree
    <3>5. QED BY <3>4 DEF Agree
  <2>5. (n + 1) - 1 = n /\ n + 1 # 1 BY <1>1, <1>8
  <2>6. g[n + 1] = f[n] \o e BY <1>2, <1>6, <2>2, <2>4, <2>5
  <2>7. LS!FlattenSeq(t) = LS!FlattenSeq(s) \o e BY <1>5, <2>1, <2>6, Zenon
  <2>8. QED BY <2>1, <2>3, <2>7, Zenon DEF t
<1>9. QED BY <1>7, <1>8

-----------------------------------------------------------------------------
\* The symbols of lines, and of the texts of all sinks; a datagram is a line.
Marks == {<<"message">>} \cup {<<"stamp", stamp>> : stamp \in UNION {LS!Stamps(t) : t \in Times}}
LinesOfAll == UNION {LS!Lines(t) : t \in Times}
Symbols == Marks \cup {LS!Newline} \cup LinesOfAll

Records == {r \in [time : Times, line : LinesOfAll] : r.line \in LS!Lines(r.time)}

\* A line has two symbols, and neither is a newline.
LEMMA LineIs ==
    ASSUME NEW time \in Times, NEW line \in LS!Lines(time)
    PROVE  /\ line \in Seq(Marks) /\ Len(line) = 2
           /\ line[1] \in Marks /\ line[2] \in Marks
           /\ \E stamp \in LS!Stamps(time) : line[1] = <<"stamp", stamp>>
<1>1. PICK stamp \in LS!Stamps(time) : line = <<<<"stamp", stamp>>, <<"message">>>>
  BY DEF LS!Lines
<1>2. PICK a, b : a = <<"stamp", stamp>> /\ b = <<"message">> OBVIOUS
<1>3. a \in Marks /\ b \in Marks BY <1>2 DEF Marks
<1>4. line = <<a, b>> BY <1>1, <1>2
<1>5. line \in Seq(Marks) /\ Len(line) = 2 /\ line[1] = a /\ line[2] = b BY <1>3, <1>4
<1>6. QED BY <1>2, <1>3, <1>5

\* ... as the symbols are told apart.
LEMMA NoMarkIsNewline == LS!Newline \notin Marks
<1>1. LS!Newline = <<"newline">> BY DEF LS!Newline
<1>2. <<"newline">> # <<"message">>
  <2>1. <<"newline">>[1] = "newline" /\ <<"message">>[1] = "message" OBVIOUS
  <2>2. "newline" # "message" OBVIOUS
  <2>3. QED BY <2>1, <2>2
<1>3. ASSUME NEW x PROVE <<"newline">> # <<"stamp", x>>
  <2>1. Len(<<"newline">>) = 1 /\ Len(<<"stamp", x>>) = 2 OBVIOUS
  <2>2. QED BY <2>1
<1>4. QED BY <1>1, <1>2, <1>3 DEF Marks

\* What a record is, and its line.
LEMMA RecordIs ==
    ASSUME NEW r \in Records
    PROVE  /\ r.time \in Times /\ r.line \in LS!Lines(r.time) /\ r.line \in LinesOfAll
           /\ r.line \in Seq(Marks) /\ Len(r.line) = 2
           /\ r.line[1] \in Marks /\ r.line[2] \in Marks
<1>1. r.time \in Times /\ r.line \in LS!Lines(r.time) /\ r.line \in LinesOfAll BY DEF Records
<1>2. QED BY <1>1, LineIs

\* A sequence over Marks is one over Symbols.
LEMMA MarksAreSymbols == ASSUME NEW w \in Seq(Marks) PROVE w \in Seq(Symbols)
<1>1. Marks \subseteq Symbols BY DEF Symbols
<1> HIDE DEF Marks
<1>2. Len(w) \in Nat /\ w \in [1 .. Len(w) -> Marks] BY LenProperties, SeqDef
<1>3. w \in [1 .. Len(w) -> Symbols] BY <1>1, <1>2
<1>4. QED BY <1>2, <1>3, SeqDef

\* One element behind two.
LEMMA ThreeOf ==
    ASSUME NEW S, NEW l \in Seq(S), NEW x \in S
    PROVE  Len(l) = 2 =>
               /\ Append(l, x) \in Seq(S) /\ Len(Append(l, x)) = 3
               /\ Append(l, x)[1] = l[1] /\ Append(l, x)[2] = l[2] /\ Append(l, x)[3] = x
<1> DEFINE e == Append(l, x)
<1>1. /\ e \in Seq(S) /\ Len(e) = Len(l) + 1 /\ e[Len(l) + 1] = x
      /\ \A i \in 1 .. Len(l) : e[i] = l[i]
  BY AppendProperties
<1> HIDE DEF e
<1>2. Len(l) = 2 => Len(e) = 3 /\ e[1] = l[1] /\ e[2] = l[2] /\ e[3] = x BY <1>1
<1>3. QED BY <1>1, <1>2 DEF e

\* What write() appends for a record.
LEMMA FullLine ==
    ASSUME NEW r \in Records
    PROVE  /\ Append(r.line, LS!Newline) \in Seq(Symbols) /\ Len(Append(r.line, LS!Newline)) = 3
           /\ Append(r.line, LS!Newline)[1] = r.line[1]
           /\ Append(r.line, LS!Newline)[2] = r.line[2]
           /\ Append(r.line, LS!Newline)[3] = LS!Newline
<1>1. r.line \in Seq(Symbols) /\ Len(r.line) = 2 BY RecordIs, MarksAreSymbols
<1>2. LS!Newline \in Symbols BY DEF Symbols
<1>3. QED BY <1>1, <1>2, ThreeOf

-----------------------------------------------------------------------------
\* The records' lines, each with its newline, one after the other.
FullLines(a) == [i \in DOMAIN a |-> Append(a[i].line, LS!Newline)]
WholeOf(a) == LS!FlattenSeq(FullLines(a))

\* There is one for each record.
LEMMA FullLinesAre ==
    ASSUME NEW a \in Seq(Records)
    PROVE  /\ FullLines(a) \in Seq(Seq(Symbols)) /\ Len(FullLines(a)) = Len(a)
           /\ \A i \in 1 .. Len(a) : FullLines(a)[i] = Append(a[i].line, LS!Newline)
<1>1. Len(a) \in Nat /\ DOMAIN a = 1 .. Len(a) /\ \A i \in 1 .. Len(a) : a[i] \in Records
  BY LenProperties, ElementOfSeq
<1>2. \A i \in 1 .. Len(a) : Append(a[i].line, LS!Newline) \in Seq(Symbols)
  BY <1>1, FullLine
<1>3. FullLines(a) = [i \in 1 .. Len(a) |-> Append(a[i].line, LS!Newline)]
  BY <1>1 DEF FullLines
<1>4. FullLines(a) \in [1 .. Len(a) -> Seq(Symbols)] BY <1>2, <1>3
<1>5. FullLines(a) \in Seq(Seq(Symbols)) BY <1>1, <1>4, SeqDef
<1>6. Len(FullLines(a)) = Len(a)
  <2>1. DOMAIN FullLines(a) = 1 .. Len(a) BY <1>3
  <2>2. QED BY <1>1, <1>5, <2>1, LenProperties
<1>7. QED BY <1>3, <1>5, <1>6

\* A record more is a line more.
LEMMA WholeAppend ==
    ASSUME NEW a \in Seq(Records), NEW r \in Records
    PROVE  /\ WholeOf(a) \in Seq(Symbols)
           /\ WholeOf(Append(a, r)) = WholeOf(a) \o Append(r.line, LS!Newline)
<1> DEFINE b == Append(a, r)
           e == Append(r.line, LS!Newline)
<1>1. Len(a) \in Nat /\ b \in Seq(Records) /\ Len(b) = Len(a) + 1 /\ b[Len(a) + 1] = r
      /\ \A i \in 1 .. Len(a) : b[i] = a[i]
  BY LenProperties, AppendProperties
<1>2. e \in Seq(Symbols) BY FullLine
<1>3. /\ FullLines(a) \in Seq(Seq(Symbols)) /\ Len(FullLines(a)) = Len(a)
      /\ \A i \in 1 .. Len(a) : FullLines(a)[i] = Append(a[i].line, LS!Newline)
  BY FullLinesAre
<1> HIDE DEF b
<1>4. /\ FullLines(b) \in Seq(Seq(Symbols)) /\ Len(FullLines(b)) = Len(a) + 1
      /\ \A i \in 1 .. Len(a) + 1 : FullLines(b)[i] = Append(b[i].line, LS!Newline)
  BY <1>1, FullLinesAre
<1> DEFINE c == Append(FullLines(a), e)
<1>5. /\ c \in Seq(Seq(Symbols)) /\ Len(c) = Len(a) + 1 /\ c[Len(a) + 1] = e
      /\ \A i \in 1 .. Len(a) : c[i] = FullLines(a)[i]
  BY <1>2, <1>3, AppendProperties
<1> HIDE DEF c
<1>6. ASSUME NEW i \in 1 .. Len(a) + 1 PROVE FullLines(b)[i] = c[i]
  <2>1. FullLines(b)[i] = Append(b[i].line, LS!Newline) BY <1>4
  <2>2. CASE i = Len(a) + 1
    <3>1. b[i] = r /\ c[i] = e BY <1>1, <1>5, <2>2
    <3>2. QED BY <2>1, <3>1
  <2>3. CASE i \in 1 .. Len(a)
    <3>1. b[i] = a[i] /\ c[i] = FullLines(a)[i] /\ FullLines(a)[i] = Append(a[i].line, LS!Newline)
      BY <1>1, <1>3, <1>5, <2>3
    <3>2. QED BY <2>1, <3>1, Zenon
  <2>4. QED BY <1>1, <2>2, <2>3
<1>7. FullLines(b) = c BY <1>4, <1>5, <1>6, SeqEqual
<1>8. /\ LS!FlattenSeq(FullLines(a)) \in Seq(Symbols)
      /\ LS!FlattenSeq(c) = LS!FlattenSeq(FullLines(a)) \o e
  <2> HIDE DEF e
  <2>1. QED BY <1>2, <1>3, FlattenAppend DEF c
<1>9. QED BY <1>7, <1>8, Zenon DEF WholeOf, b

\* They are symbols.
LEMMA WholeTyped ==
    ASSUME NEW a \in Seq(Records)
    PROVE  WholeOf(a) \in Seq(Symbols)
<1>1. FullLines(a) \in Seq(Seq(Symbols)) BY FullLinesAre
<1>2. << >> \in Seq(Symbols) BY EmptySeq
<1>3. QED BY <1>1, <1>2, FlattenAppend DEF WholeOf

\* The stamp of a line tells the time of its record.
StampOf(r) == r.line[1][2]

StampGood(r) ==
    LET stamp == StampOf(r)
        millisecond == r.time \div TicksPerMillisecond
    IN  IF stamp[2] = <<>> THEN stamp[1] = millisecond \div MillisecondsPerSecond
        ELSE /\ \A d \in LS!Range(stamp[2]) : d \in 0 .. 9
             /\ LET value == stamp[2][1] * 100 + stamp[2][2] * 10 + stamp[2][3]
                IN  value < MillisecondsPerSecond
                    /\ stamp[1] * MillisecondsPerSecond + value = millisecond

\* Every line is stamped with its record's time (render_line()).
LEMMA RecordStamped == ASSUME LS!ConstantsFit, NEW r \in Records PROVE StampGood(r)
<1> DEFINE T == TicksPerMillisecond
           M == MillisecondsPerSecond
           time == r.time
           second == SecondOf(time, T, M)
           ms == RestOf(time, T, M)
<1>1. T \in Nat \ {0} /\ M \in Nat \ {0} /\ M <= 1000 BY DEF LS!ConstantsFit
<1>2. time \in Int BY RecordIs DEF LS!ConstantsFit
<1>3. PICK stamp \in LS!Stamps(time) : r.line[1] = <<"stamp", stamp>>
  <2>1. r.time \in Times /\ r.line \in LS!Lines(r.time) BY RecordIs
  <2>2. QED BY <2>1, LineIs
<1>4. StampOf(r) = stamp BY <1>3 DEF StampOf
<1>5. stamp = <<second, LS!Padded(ms)>> \/ stamp = <<second, <<>>>>
  <2>1. LS!SecondPoint(time) = second BY DEF SecondOf, LS!SecondPoint, LS!TicksPerSecond
  <2>2. LS!TicksPerSecond = T * M BY DEF LS!TicksPerSecond
  <2>3. stamp \in {<<second, LS!Padded(ms)>>} \cup (IF second < 0 THEN {<<second, <<>>>>} ELSE {})
    BY <2>1, <2>2, Zenon DEF LS!Stamps, RestOf
  <2> HIDE DEF second, ms
  <2>4. QED BY <2>3
<1> DEFINE millisecond == time \div T
<1>6. /\ second \in Int /\ ms \in 0 .. M - 1 /\ second * M + ms = millisecond
      /\ second = millisecond \div M
  <2> HIDE DEF T, M, time
  <2>1. QED BY <1>1, <1>2, StampIs
<1> HIDE DEF second, ms, millisecond, M
<1>7. CASE stamp = <<second, <<>>>>
  <2>1. stamp[1] = second /\ stamp[2] = <<>> BY <1>7
  <2>2. QED BY <1>4, <1>6, <2>1, Zenon DEF StampGood, millisecond, M
<1>8. CASE stamp = <<second, LS!Padded(ms)>>
  <2>1. ms \in 0 .. 999 BY <1>1, <1>6
  <2>2. PICK a \in 0 .. 9, b \in 0 .. 9, c \in 0 .. 9 :
            LS!Padded(ms) = <<a, b, c>> /\ a * 100 + b * 10 + c = ms
    BY <2>1, DigitsAre
  <2>3. stamp[1] = second /\ stamp[2] = <<a, b, c>> BY <1>8, <2>2
  <2>4. <<a, b, c>> # <<>> /\ <<a, b, c>>[1] = a /\ <<a, b, c>>[2] = b /\ <<a, b, c>>[3] = c OBVIOUS
  <2>5. \A d \in LS!Range(<<a, b, c>>) : d \in 0 .. 9
    <3>1. SUFFICES ASSUME NEW d \in LS!Range(<<a, b, c>>) PROVE d \in 0 .. 9 OBVIOUS
    <3>2. PICK i \in DOMAIN <<a, b, c>> : d = <<a, b, c>>[i] BY DEF LS!Range
    <3>3. i = 1 \/ i = 2 \/ i = 3 OBVIOUS
    <3>4. QED BY <2>4, <3>2, <3>3
  <2>6. a * 100 + b * 10 + c < M /\ second * M + (a * 100 + b * 10 + c) = millisecond
    <3>1. PICK v : v = a * 100 + b * 10 + c OBVIOUS
    <3>2. v = ms BY <2>2, <3>1, Zenon
    <3>3. ms < M BY <1>1, <1>6
    <3>4. QED BY <1>6, <3>1, <3>2, <3>3, Zenon
  <2>7. QED BY <1>4, <2>3, <2>4, <2>5, <2>6, Zenon DEF StampGood, millisecond, M
<1>9. QED BY <1>5, <1>7, <1>8

\* So the stamps of all records are exact.
LEMMA StampsAre == ASSUME LS!ConstantsFit, recorded \in Seq(Records) PROVE LS!StampsExact
<1>1. DOMAIN recorded = 1 .. Len(recorded) BY LenProperties
<1>2. ASSUME NEW i \in DOMAIN recorded PROVE StampGood(recorded[i])
  <2>1. recorded[i] \in Records BY <1>1, ElementOfSeq
  <2>2. QED BY <2>1, RecordStamped
<1>3. QED BY <1>2, Zenon DEF LS!StampsExact, StampGood, StampOf

-----------------------------------------------------------------------------
\* The newlines of s are at p[1], p[2], ..., each behind the line of its record.
RuledBy(s, a, p) ==
    /\ p \in [1 .. Len(a) -> 1 .. Len(s)]
    /\ \A m, n \in 1 .. Len(a) : m < n => p[m] < p[n]
    /\ \A i \in 1 .. Len(s) : s[i] = LS!Newline => \E n \in 1 .. Len(a) : p[n] = i
    /\ \A n \in 1 .. Len(a) :
          /\ p[n] > 2 /\ s[p[n]] = LS!Newline
          /\ s[p[n] - 2] = a[n].line[1] /\ s[p[n] - 1] = a[n].line[2]

Ruled(s, a) == \E p : RuledBy(s, a, p)

\* A text that goes on without a newline is ruled as it was.
LEMMA RuledPart ==
    ASSUME NEW s \in Seq(Symbols), NEW a \in Seq(Records), NEW w \in Seq(Marks), Ruled(s, a)
    PROVE  Ruled(s \o w, a)
<1>1. PICK p : RuledBy(s, a, p) BY DEF Ruled
<1> DEFINE t == s \o w
<1>2. /\ t \in Seq(Symbols) /\ Len(t) = Len(s) + Len(w)
      /\ Len(s) \in Nat /\ Len(w) \in Nat /\ Len(a) \in Nat
      /\ \A i \in 1 .. Len(s) : t[i] = s[i]
      /\ \A i \in Len(s) + 1 .. Len(s) + Len(w) : t[i] = w[i - Len(s)]
  <2>1. w \in Seq(Symbols) BY MarksAreSymbols
  <2>2. QED BY <2>1, ConcatProperties, LenProperties
<1> HIDE DEF t
<1>3. \A i \in Len(s) + 1 .. Len(s) + Len(w) : t[i] # LS!Newline
  <2>1. SUFFICES ASSUME NEW i \in Len(s) + 1 .. Len(s) + Len(w) PROVE t[i] # LS!Newline OBVIOUS
  <2>2. i - Len(s) \in 1 .. Len(w) /\ t[i] = w[i - Len(s)] BY <1>2
  <2>3. w[i - Len(s)] \in Marks BY <2>2, ElementOfSeq
  <2>4. QED BY <2>2, <2>3, NoMarkIsNewline
<1>4. /\ p \in [1 .. Len(a) -> 1 .. Len(s)]
      /\ \A m, n \in 1 .. Len(a) : m < n => p[m] < p[n]
      /\ \A i \in 1 .. Len(s) : s[i] = LS!Newline => \E n \in 1 .. Len(a) : p[n] = i
      /\ \A n \in 1 .. Len(a) :
            /\ p[n] > 2 /\ s[p[n]] = LS!Newline
            /\ s[p[n] - 2] = a[n].line[1] /\ s[p[n] - 1] = a[n].line[2]
  BY <1>1 DEF RuledBy
<1>5. p \in [1 .. Len(a) -> 1 .. Len(t)] BY <1>2, <1>4
<1>6. \A i \in 1 .. Len(t) : t[i] = LS!Newline => \E n \in 1 .. Len(a) : p[n] = i
  <2>1. SUFFICES ASSUME NEW i \in 1 .. Len(t), t[i] = LS!Newline
                 PROVE  \E n \in 1 .. Len(a) : p[n] = i
    OBVIOUS
  <2>2. i \in 1 .. Len(s) BY <1>2, <1>3, <2>1
  <2>3. s[i] = LS!Newline BY <1>2, <2>1, <2>2
  <2>4. QED BY <1>4, <2>2, <2>3
<1>7. ASSUME NEW n \in 1 .. Len(a)
      PROVE  /\ p[n] > 2 /\ t[p[n]] = LS!Newline
             /\ t[p[n] - 2] = a[n].line[1] /\ t[p[n] - 1] = a[n].line[2]
  <2>1. PICK k \in 1 .. Len(s) : k = p[n] BY <1>4
  <2>2. k > 2 /\ s[k] = LS!Newline /\ s[k - 2] = a[n].line[1] /\ s[k - 1] = a[n].line[2]
    BY <1>4, <2>1
  <2>3. k - 2 \in 1 .. Len(s) /\ k - 1 \in 1 .. Len(s) BY <1>2, <2>2
  <2>4. t[k] = s[k] /\ t[k - 2] = s[k - 2] /\ t[k - 1] = s[k - 1] BY <1>2, <2>3
  <2>5. QED BY <2>1, <2>2, <2>4, Zenon
<1>8. RuledBy(t, a, p) BY <1>4, <1>5, <1>6, <1>7 DEF RuledBy
<1>9. QED BY <1>8 DEF Ruled, t

\* A line with its newline rules the text once more.
LEMMA RuledLine ==
    ASSUME NEW s \in Seq(Symbols), NEW a \in Seq(Records), NEW r \in Records, Ruled(s, a)
    PROVE  Ruled(s \o Append(r.line, LS!Newline), Append(a, r))
<1>1. PICK p : RuledBy(s, a, p) BY DEF Ruled
<1> DEFINE e == Append(r.line, LS!Newline)
           t == s \o e
           b == Append(a, r)
           q == [n \in 1 .. Len(a) + 1 |-> IF n = Len(a) + 1 THEN Len(s) + 3 ELSE p[n]]
<1>2. /\ e \in Seq(Symbols) /\ Len(e) = 3
      /\ e[1] = r.line[1] /\ e[2] = r.line[2] /\ e[3] = LS!Newline
  BY FullLine
<1> HIDE DEF e
<1>3. /\ Len(t) = Len(s) + 3 /\ Len(s) \in Nat /\ Len(a) \in Nat
      /\ \A i \in 1 .. Len(s) : t[i] = s[i]
      /\ \A i \in Len(s) + 1 .. Len(s) + 3 : t[i] = e[i - Len(s)]
  <2>1. /\ Len(t) = Len(s) + Len(e) /\ Len(s) \in Nat /\ Len(a) \in Nat
        /\ \A i \in 1 .. Len(s) : t[i] = s[i]
        /\ \A i \in Len(s) + 1 .. Len(s) + Len(e) : t[i] = e[i - Len(s)]
    <3>1. e \in Seq(Symbols) BY <1>2
    <3>2. Len(s) \in Nat /\ Len(a) \in Nat BY LenProperties
    <3>3. QED BY <3>1, <3>2, ConcatProperties
  <2>2. Len(e) = 3 BY <1>2
  <2> HIDE DEF t
  <2>3. QED BY <2>1, <2>2
<1>4. /\ b \in Seq(Records) /\ Len(b) = Len(a) + 1 /\ b[Len(a) + 1] = r
      /\ \A i \in 1 .. Len(a) : b[i] = a[i]
  BY AppendProperties
<1> HIDE DEF t, b
<1>5. t[Len(s) + 1] = r.line[1] /\ t[Len(s) + 2] = r.line[2] /\ t[Len(s) + 3] = LS!Newline
  <2>1. (Len(s) + 1) - Len(s) = 1 /\ (Len(s) + 2) - Len(s) = 2 /\ (Len(s) + 3) - Len(s) = 3 BY <1>3
  <2>2. /\ Len(s) + 1 \in Len(s) + 1 .. Len(s) + 3 /\ Len(s) + 2 \in Len(s) + 1 .. Len(s) + 3
        /\ Len(s) + 3 \in Len(s) + 1 .. Len(s) + 3
    BY <1>3
  <2>3. t[Len(s) + 1] = e[1] /\ t[Len(s) + 2] = e[2] /\ t[Len(s) + 3] = e[3] BY <1>3, <2>1, <2>2
  <2>4. QED BY <1>2, <2>3, Zenon
<1>6. t[Len(s) + 1] # LS!Newline /\ t[Len(s) + 2] # LS!Newline
  BY <1>5, RecordIs, NoMarkIsNewline
<1>7. /\ p \in [1 .. Len(a) -> 1 .. Len(s)]
      /\ \A m, n \in 1 .. Len(a) : m < n => p[m] < p[n]
      /\ \A i \in 1 .. Len(s) : s[i] = LS!Newline => \E n \in 1 .. Len(a) : p[n] = i
      /\ \A n \in 1 .. Len(a) :
            /\ p[n] > 2 /\ s[p[n]] = LS!Newline
            /\ s[p[n] - 2] = a[n].line[1] /\ s[p[n] - 1] = a[n].line[2]
  BY <1>1 DEF RuledBy
<1>8. q[Len(a) + 1] = Len(s) + 3 /\ \A n \in 1 .. Len(a) : q[n] = p[n] /\ q[n] \in 1 .. Len(s)
  BY <1>3, <1>7
<1>9. q \in [1 .. Len(b) -> 1 .. Len(t)]
  BY <1>3, <1>4, <1>7
<1> HIDE DEF q
<1>10. \A m, n \in 1 .. Len(b) : m < n => q[m] < q[n]
  <2>1. SUFFICES ASSUME NEW m \in 1 .. Len(b), NEW n \in 1 .. Len(b), m < n PROVE q[m] < q[n]
    OBVIOUS
  <2>2. m \in 1 .. Len(a) BY <1>3, <1>4, <2>1
  <2>3. CASE n = Len(a) + 1 BY <1>3, <1>8, <2>2, <2>3
  <2>4. CASE n \in 1 .. Len(a) BY <1>7, <1>8, <2>1, <2>2, <2>4
  <2>5. QED BY <1>3, <1>4, <2>3, <2>4
<1>11. \A i \in 1 .. Len(t) : t[i] = LS!Newline => \E n \in 1 .. Len(b) : q[n] = i
  <2>1. SUFFICES ASSUME NEW i \in 1 .. Len(t), t[i] = LS!Newline
                 PROVE  \E n \in 1 .. Len(b) : q[n] = i
    OBVIOUS
  <2>2. CASE i \in 1 .. Len(s)
    <3>1. s[i] = LS!Newline BY <1>3, <2>1, <2>2
    <3>2. PICK n \in 1 .. Len(a) : p[n] = i BY <1>7, <2>2, <3>1
    <3>3. n \in 1 .. Len(b) /\ q[n] = i BY <1>3, <1>4, <1>8, <3>2
    <3>4. QED BY <3>3
  <2>3. CASE i = Len(s) + 3
    <3>1. Len(a) + 1 \in 1 .. Len(b) BY <1>3, <1>4
    <3>2. QED BY <1>8, <2>3, <3>1
  <2>4. QED BY <1>3, <1>6, <2>1, <2>2, <2>3
<1>12. ASSUME NEW n \in 1 .. Len(b)
       PROVE  /\ q[n] > 2 /\ t[q[n]] = LS!Newline
              /\ t[q[n] - 2] = b[n].line[1] /\ t[q[n] - 1] = b[n].line[2]
  <2>1. CASE n = Len(a) + 1
    <3>1. q[n] = Len(s) + 3 /\ b[n] = r BY <1>4, <1>8, <2>1
    <3>2. (Len(s) + 3) - 2 = Len(s) + 1 /\ (Len(s) + 3) - 1 = Len(s) + 2 /\ Len(s) + 3 > 2 BY <1>3
    <3>3. q[n] - 2 = Len(s) + 1 /\ q[n] - 1 = Len(s) + 2 /\ q[n] > 2 BY <3>1, <3>2, Zenon
    <3>4. QED BY <1>5, <3>1, <3>3, Zenon
  <2>2. CASE n \in 1 .. Len(a)
    <3>1. PICK k \in 1 .. Len(s) : k = p[n] BY <1>7, <2>2
    <3>2. k > 2 /\ s[k] = LS!Newline /\ s[k - 2] = a[n].line[1] /\ s[k - 1] = a[n].line[2]
      BY <1>7, <2>2, <3>1
    <3>3. k - 2 \in 1 .. Len(s) /\ k - 1 \in 1 .. Len(s) BY <1>3, <3>2
    <3>4. t[k] = s[k] /\ t[k - 2] = s[k - 2] /\ t[k - 1] = s[k - 1] BY <1>3, <3>3
    <3>5. q[n] = k /\ b[n] = a[n] BY <1>4, <1>8, <2>2, <3>1
    <3>6. QED BY <3>2, <3>4, <3>5, Zenon
  <2>3. QED BY <1>3, <1>4, <2>1, <2>2
<1>13. RuledBy(t, b, q) BY <1>9, <1>10, <1>11, <1>12 DEF RuledBy
<1>14. QED BY <1>13 DEF Ruled, t, b, e

\* Both counts are one.
LEMMA SameCount == ASSUME NEW S PROVE LS!Cardinality(S) = Cardinality(S)
BY DEF LS!Cardinality, Cardinality

\* The newlines of s, and those up to the i-th symbol.
Ends(s) == {i \in DOMAIN s : LS!IsNewline(s[i])}
Upto(s, i) == {j \in Ends(s) : j <= i}

\* The n-th newline is the one up to which there are n.
LEMMA RankIs ==
    ASSUME NEW s \in Seq(Symbols), NEW a \in Seq(Records),
           NEW p, RuledBy(s, a, p), NEW n \in 1 .. Len(a)
    PROVE  Cardinality(Upto(s, p[n])) = n
<1>1. /\ p \in [1 .. Len(a) -> 1 .. Len(s)]
      /\ \A k, m \in 1 .. Len(a) : k < m => p[k] < p[m]
      /\ \A i \in 1 .. Len(s) : s[i] = LS!Newline => \E m \in 1 .. Len(a) : p[m] = i
      /\ \A m \in 1 .. Len(a) : s[p[m]] = LS!Newline
  BY DEF RuledBy
<1>2. Len(a) \in Nat /\ Len(s) \in Nat /\ DOMAIN s = 1 .. Len(s) BY LenProperties
<1> DEFINE T == Upto(s, p[n])
           f == [m \in 1 .. n |-> p[m]]
<1>3. \A m \in 1 .. n : m \in 1 .. Len(a) /\ f[m] = p[m] /\ p[m] \in 1 .. Len(s) /\ p[m] <= p[n]
  <2>1. SUFFICES ASSUME NEW m \in 1 .. n
                 PROVE  m \in 1 .. Len(a) /\ f[m] = p[m] /\ p[m] \in 1 .. Len(s) /\ p[m] <= p[n]
    OBVIOUS
  <2>2. m \in 1 .. Len(a) /\ (m < n \/ m = n) BY <1>2
  <2>3. p[m] \in 1 .. Len(s) /\ p[n] \in 1 .. Len(s) BY <1>1, <2>2
  <2>4. p[m] <= p[n] BY <1>1, <2>2, <2>3
  <2>5. QED BY <2>2, <2>3, <2>4
<1>4. f \in [1 .. n -> T]
  <2>1. ASSUME NEW m \in 1 .. n PROVE p[m] \in T
    <3>1. p[m] \in DOMAIN s /\ s[p[m]] = LS!Newline /\ p[m] <= p[n] BY <1>1, <1>2, <1>3
    <3>2. QED BY <3>1 DEF Upto, Ends, LS!IsNewline
  <2> HIDE DEF T
  <2>2. QED BY <2>1
<1>5. \A k, m \in 1 .. n : f[k] = f[m] => k = m
  <2>1. SUFFICES ASSUME NEW k \in 1 .. n, NEW m \in 1 .. n, p[k] = p[m] PROVE k = m BY <1>3
  <2>2. k \in 1 .. Len(a) /\ m \in 1 .. Len(a) /\ p[k] \in 1 .. Len(s) /\ p[m] \in 1 .. Len(s)
    BY <1>3
  <2>3. k < m \/ m < k \/ k = m OBVIOUS
  <2>4. QED BY <1>1, <2>1, <2>2, <2>3
<1>6. ASSUME NEW j \in T PROVE \E m \in 1 .. n : f[m] = j
  <2>1. j \in 1 .. Len(s) /\ s[j] = LS!Newline /\ j <= p[n] BY <1>2 DEF Upto, Ends, LS!IsNewline
  <2>2. PICK m \in 1 .. Len(a) : p[m] = j BY <1>1, <2>1
  <2>3. m <= n
    <3>1. CASE n < m
      <4>1. p[n] < p[m] /\ p[n] \in Int /\ p[m] \in Int BY <1>1, <3>1
      <4>2. QED BY <2>1, <2>2, <4>1
    <3>2. QED BY <3>1
  <2>4. m \in 1 .. n BY <2>3
  <2>5. QED BY <1>3, <2>2, <2>4
<1> HIDE DEF T, f
<1>7. f \in Bijection(1 .. n, T)
  <2>1. f \in Injection(1 .. n, T) BY <1>4, <1>5 DEF Injection, IsInjective
  <2>2. f \in Surjection(1 .. n, T) BY <1>4, <1>6 DEF Surjection
  <2>3. QED BY <2>1, <2>2 DEF Bijection
<1>8. ExistsBijection(1 .. n, T) BY <1>7 DEF ExistsBijection
<1>9. n \in Nat BY <1>2
<1>10. Cardinality(T) = n BY <1>8, <1>9, FS_CountingElements
<1>11. QED BY <1>10 DEF T

\* There are as many newlines as records.
LEMMA EndsCount ==
    ASSUME NEW s \in Seq(Symbols), NEW a \in Seq(Records), Ruled(s, a)
    PROVE  Cardinality(Ends(s)) = Len(a)
<1>1. PICK p : RuledBy(s, a, p) BY DEF Ruled
<1>2. /\ p \in [1 .. Len(a) -> 1 .. Len(s)]
      /\ \A k, m \in 1 .. Len(a) : k < m => p[k] < p[m]
      /\ \A i \in 1 .. Len(s) : s[i] = LS!Newline => \E m \in 1 .. Len(a) : p[m] = i
      /\ \A m \in 1 .. Len(a) : s[p[m]] = LS!Newline
  BY <1>1 DEF RuledBy
<1>3. Len(a) \in Nat /\ Len(s) \in Nat /\ DOMAIN s = 1 .. Len(s) BY LenProperties
<1>4. CASE Len(a) = 0
  <2>1. Ends(s) = {}
    <3>1. ASSUME NEW i \in Ends(s) PROVE FALSE
      <4>1. i \in 1 .. Len(s) /\ s[i] = LS!Newline BY <1>3 DEF Ends, LS!IsNewline
      <4>2. PICK m \in 1 .. Len(a) : p[m] = i BY <1>2, <4>1
      <4>3. QED BY <1>4, <4>2
    <3>2. QED BY <3>1
  <2>2. QED BY <1>4, <2>1, FS_EmptySet
<1>5. CASE Len(a) # 0
  <2>1. Len(a) \in 1 .. Len(a) BY <1>3, <1>5
  <2>2. Upto(s, p[Len(a)]) = Ends(s)
    <3>1. ASSUME NEW i \in Ends(s) PROVE i <= p[Len(a)]
      <4>1. i \in 1 .. Len(s) /\ s[i] = LS!Newline BY <1>3 DEF Ends, LS!IsNewline
      <4>2. PICK m \in 1 .. Len(a) : p[m] = i BY <1>2, <4>1
      <4>3. p[m] \in Int /\ p[Len(a)] \in Int BY <1>2, <2>1
      <4>4. m < Len(a) \/ m = Len(a) BY <1>3
      <4>5. QED BY <1>2, <2>1, <4>2, <4>3, <4>4
    <3>2. QED BY <3>1 DEF Upto
  <2>3. QED BY <1>1, <2>1, <2>2, RankIs
<1>6. QED BY <1>4, <1>5

\* The line before the n-th newline.
LEMMA LineBefore ==
    ASSUME NEW s \in Seq(Symbols), NEW l \in Seq(Symbols), Len(l) = 2,
           NEW i \in 1 .. Len(s), i > 2, s[i - 2] = l[1], s[i - 1] = l[2]
    PROVE  SubSeq(s, i - Len(l), i - 1) = l
<1>0. Len(s) \in Nat BY LenProperties
<1>1. PICK k \in 1 .. Len(s) : k = i - 2 /\ k + 1 = i - 1 /\ k + 1 \in 1 .. Len(s) BY <1>0
<1> DEFINE w == SubSeq(s, k, k + 1)
<1>2. w \in Seq(Symbols) /\ Len(w) = 2 /\ \A j \in 1 .. 2 : w[j] = s[k + j - 1]
  <2>1. /\ SubSeq(s, k, k + 1) \in Seq(Symbols)
        /\ Len(SubSeq(s, k, k + 1)) = IF k <= k + 1 THEN (k + 1) - k + 1 ELSE 0
        /\ \A j \in 1 .. (k + 1) - k + 1 : SubSeq(s, k, k + 1)[j] = s[k + j - 1]
    BY <1>0, <1>1, SubSeqProperties
  <2>2. (k + 1) - k + 1 = 2 /\ k <= k + 1 OBVIOUS
  <2>3. QED BY <2>1, <2>2
<1> HIDE DEF w
<1>3. w[1] = s[k] /\ w[2] = s[k + 1]
  <2>1. k + 1 - 1 = k /\ k + 2 - 1 = k + 1 OBVIOUS
  <2>2. 1 \in 1 .. 2 /\ 2 \in 1 .. 2 OBVIOUS
  <2>3. w[1] = s[k + 1 - 1] /\ w[2] = s[k + 2 - 1] BY <1>2, <2>2
  <2>4. QED BY <2>1, <2>3, Zenon
<1>4. w[1] = l[1] /\ w[2] = l[2] BY <1>1, <1>3
<1>5. w = l BY <1>2, <1>4, SeqEqual
<1>6. i - Len(l) = k /\ i - 1 = k + 1 BY <1>1
<1>7. QED BY <1>5, <1>6, Zenon DEF w

\* A ruled text is what ConsoleLines says it is.
LEMMA ConsoleRuled ==
    ASSUME output \in Seq(Symbols), recorded \in Seq(Records), Ruled(output, recorded)
    PROVE  LS!ConsoleLines
<1> DEFINE s == output
           a == recorded
           Nth(n) == CHOOSE i \in Ends(s) : LS!Cardinality({j \in Ends(s) : j <= i}) = n
<1>1. PICK p : RuledBy(s, a, p) BY DEF Ruled
<1>2. Len(a) \in Nat /\ DOMAIN a = 1 .. Len(a) /\ Len(s) \in Nat /\ DOMAIN s = 1 .. Len(s)
  BY LenProperties
<1>3. /\ p \in [1 .. Len(a) -> 1 .. Len(s)]
      /\ \A i \in 1 .. Len(s) : s[i] = LS!Newline => \E m \in 1 .. Len(a) : p[m] = i
      /\ \A n \in 1 .. Len(a) :
            /\ p[n] > 2 /\ s[p[n]] = LS!Newline
            /\ s[p[n] - 2] = a[n].line[1] /\ s[p[n] - 1] = a[n].line[2]
  BY <1>1 DEF RuledBy
<1>4. LS!Cardinality(Ends(s)) = Len(a) BY EndsCount, SameCount
<1>5. ASSUME NEW n \in 1 .. Len(a) PROVE Nth(n) = p[n]
  <2>1. p[n] \in Ends(s) BY <1>2, <1>3 DEF Ends, LS!IsNewline
  <2>2. \A i : LS!Cardinality({j \in Ends(s) : j <= i}) = Cardinality(Upto(s, i))
    BY SameCount DEF Upto
  <2>3. Cardinality(Upto(s, p[n])) = n BY <1>1, RankIs
  <2>4. ASSUME NEW i \in Ends(s), LS!Cardinality({j \in Ends(s) : j <= i}) = n PROVE i = p[n]
    <3>1. i \in 1 .. Len(s) /\ s[i] = LS!Newline BY <1>2 DEF Ends, LS!IsNewline
    <3>2. PICK m \in 1 .. Len(a) : p[m] = i BY <1>3, <3>1
    <3>3. Cardinality(Upto(s, p[m])) = m BY <1>1, RankIs
    <3>4. m = n BY <2>2, <2>4, <3>2, <3>3, Zenon
    <3>5. QED BY <3>2, <3>4
  <2>5. LS!Cardinality({j \in Ends(s) : j <= p[n]}) = n BY <2>2, <2>3, Zenon
  <2>6. QED BY <2>1, <2>4, <2>5
<1>6. ASSUME NEW n \in 1 .. Len(a) PROVE SubSeq(s, p[n] - Len(a[n].line), p[n] - 1) = a[n].line
  <2>1. a[n] \in Records BY ElementOfSeq
  <2>2. a[n].line \in Seq(Symbols) /\ Len(a[n].line) = 2 BY <2>1, RecordIs, MarksAreSymbols
  <2>3. PICK i \in 1 .. Len(s) : i = p[n] BY <1>3
  <2>4. i > 2 /\ s[i - 2] = a[n].line[1] /\ s[i - 1] = a[n].line[2] BY <1>3, <2>3
  <2>5. PICK l : l = a[n].line OBVIOUS
  <2>6. SubSeq(s, i - Len(l), i - 1) = l BY <2>2, <2>4, <2>5, LineBefore
  <2>7. QED BY <2>3, <2>5, <2>6, Zenon
<1>7. ASSUME NEW n \in DOMAIN a PROVE SubSeq(s, Nth(n) - Len(a[n].line), Nth(n) - 1) = a[n].line
  <2>1. n \in 1 .. Len(a) BY <1>2
  <2>2. Nth(n) = p[n] BY <1>5, <2>1
  <2>3. SubSeq(s, p[n] - Len(a[n].line), p[n] - 1) = a[n].line BY <1>6, <2>1
  <2> HIDE DEF Nth
  <2>4. QED BY <2>2, <2>3, Zenon
<1>8. QED BY <1>4, <1>7, Zenon DEF LS!ConsoleLines, Ends

\* s begins t.
Starts(s, t) == LS!IsPrefix(s, t)

\* Everything begins itself.
LEMMA StartsItself == ASSUME NEW S, NEW s \in Seq(S) PROVE Starts(s, s)
<1>1. Len(s) \in Nat BY LenProperties
<1>2. QED BY <1>1 DEF Starts, LS!IsPrefix

\* What begins a text begins a longer one.
LEMMA StartsMore ==
    ASSUME NEW S, NEW s \in Seq(S), NEW t \in Seq(S), NEW w \in Seq(S), Starts(s, t)
    PROVE  Starts(s, t \o w)
<1> DEFINE n == Len(s)
<1>1. n \in Nat /\ Len(t) \in Nat /\ Len(w) \in Nat /\ Len(t \o w) = Len(t) + Len(w)
  BY LenProperties, ConcatProperties
<1>2. n <= Len(t) /\ SubSeq(s, 1, n) = SubSeq(t, 1, n) BY DEF Starts, LS!IsPrefix
<1>3. n <= Len(t \o w) BY <1>1, <1>2
<1>4. SubSeq(t \o w, 1, n) = SubSeq(t, 1, n)
  <2>1. CASE n = 0
    <3>1. n \in Int /\ 1 \in Int /\ n < 1 BY <2>1
    <3> HIDE DEF n
    <3>2. SubSeq(t \o w, 1, n) = << >> BY <3>1, SubSeqEmpty
    <3>3. SubSeq(t, 1, n) = << >> BY <3>1, SubSeqEmpty
    <3>4. QED BY <3>2, <3>3, Zenon
  <2>2. CASE n # 0
    <3>1. n \in 1 .. Len(t) /\ 1 \in 1 .. Len(t) BY <1>1, <1>2, <2>2
    <3> HIDE DEF n
    <3>2. QED BY <3>1, SubSeqOfConcat1
  <2>3. QED BY <2>1, <2>2
<1>5. QED BY <1>2, <1>3, <1>4, Zenon DEF Starts, LS!IsPrefix

\* The beginning of a line.
LEMMA PartIs ==
    ASSUME NEW r \in Records, NEW n \in 0 .. Len(r.line)
    PROVE  SubSeq(r.line, 1, n) \in Seq(Marks)
<1>1. r.line \in Seq(Marks) /\ Len(r.line) = 2 BY RecordIs
<1>2. PICK l \in Seq(Marks) : l = r.line /\ Len(l) = 2 BY <1>1
<1>3. n \in Int /\ 1 \in Int /\ n \in 0 .. 2 BY <1>1
<1>4. \A i \in 1 .. n : l[i] \in Marks BY <1>2, <1>3, ElementOfSeq
<1>5. SubSeq(l, 1, n) \in Seq(Marks) BY <1>3, <1>4, SubSeqProperties
<1>6. QED BY <1>2, <1>5, Zenon

\* A record is what write() makes of a time (logger.cpp).
LEMMA RecordMade ==
    ASSUME NEW time \in Times, NEW line \in LS!Lines(time)
    PROVE  [time |-> time, line |-> line] \in Records
<1>1. line \in LinesOfAll BY DEF LinesOfAll
<1>2. QED BY <1>1 DEF Records

-----------------------------------------------------------------------------
\* The datagrams of the records.
Datagrams(a) == [i \in DOMAIN a |-> a[i].line]

\* One more record is one more datagram.
LEMMA DatagramsAppend ==
    ASSUME NEW a \in Seq(Records), NEW r \in Records
    PROVE  Datagrams(Append(a, r)) = Datagrams(a) \o <<r.line>>
<1> DEFINE b == Append(a, r)
           n == Len(a)
           d == Datagrams(a)
           t == d \o <<r.line>>
<1>1. n \in Nat /\ DOMAIN a = 1 .. n BY LenProperties
<1>2. b \in Seq(Records) /\ Len(b) = n + 1 /\ b[n + 1] = r /\ \A i \in 1 .. n : b[i] = a[i]
  BY AppendProperties
<1> HIDE DEF b
<1>3. DOMAIN b = 1 .. n + 1 BY <1>2, LenProperties
<1>4. d \in Seq(LinesOfAll) /\ Len(d) = n /\ \A i \in 1 .. n : d[i] = a[i].line
  <2>1. d = [i \in 1 .. n |-> a[i].line] BY <1>1 DEF Datagrams
  <2>2. \A i \in 1 .. n : a[i].line \in LinesOfAll BY RecordIs, ElementOfSeq
  <2>3. d \in [1 .. n -> LinesOfAll] BY <2>1, <2>2
  <2>4. d \in Seq(LinesOfAll) BY <1>1, <2>3, SeqDef
  <2>5. DOMAIN d = 1 .. n BY <2>1
  <2> HIDE DEF d
  <2>6. Len(d) = n BY <1>1, <2>4, <2>5, LenProperties
  <2>7. QED BY <2>1, <2>4, <2>6
<1> HIDE DEF d, n
<1>5. r.line \in LinesOfAll BY RecordIs
<1>6. PICK l \in LinesOfAll : l = r.line BY <1>5
<1>7. <<l>> \in Seq(LinesOfAll) /\ Len(<<l>>) = 1 /\ <<l>>[1] = l OBVIOUS
<1>8. /\ t \in Seq(LinesOfAll) /\ Len(t) = n + 1 /\ t[n + 1] = l
      /\ \A i \in 1 .. n : t[i] = d[i]
  <2>1. PICK e \in Seq(LinesOfAll) : e = <<l>> /\ Len(e) = 1 /\ e[1] = l BY <1>7
  <2>2. /\ d \o e \in Seq(LinesOfAll) /\ Len(d \o e) = Len(d) + Len(e)
        /\ \A i \in 1 .. Len(d) : (d \o e)[i] = d[i]
        /\ \A i \in Len(d) + 1 .. Len(d) + Len(e) : (d \o e)[i] = e[i - Len(d)]
    BY <1>4, <2>1, ConcatProperties
  <2>3. t = d \o e BY <1>6, <2>1, Zenon
  <2>4. n + 1 \in n + 1 .. n + 1 /\ (n + 1) - n = 1 BY <1>1
  <2>5. PICK u : u = d \o e OBVIOUS
  <2>6. Len(u) = n + 1 /\ u[n + 1] = e[1] /\ \A i \in 1 .. n : u[i] = d[i]
    BY <1>4, <2>1, <2>2, <2>4, <2>5
  <2>7. QED BY <2>1, <2>2, <2>3, <2>5, <2>6, Zenon
<1> HIDE DEF t
<1>9. Datagrams(b) = [i \in 1 .. n + 1 |-> b[i].line] BY <1>3 DEF Datagrams
<1>10. DOMAIN t = 1 .. n + 1 BY <1>1, <1>8, LenProperties
<1>11. ASSUME NEW i \in 1 .. n + 1 PROVE t[i] = b[i].line
  <2>1. CASE i = n + 1 BY <1>2, <1>6, <1>8, <2>1
  <2>2. CASE i \in 1 .. n
    <3>1. t[i] = d[i] /\ d[i] = a[i].line /\ b[i] = a[i] BY <1>2, <1>4, <1>8, <2>2 DEF n
    <3>2. QED BY <3>1, Zenon
  <2>3. QED BY <1>1, <2>1, <2>2
<1>12. t = [i \in 1 .. n + 1 |-> t[i]] BY <1>8, <1>10
<1>13. t = [i \in 1 .. n + 1 |-> b[i].line] BY <1>11, <1>12
<1>14. QED BY <1>9, <1>13, Zenon DEF b, t, d

\* A sink that took nothing.
LEMMA NothingYet ==
    /\ WholeOf(<< >>) = << >> /\ Datagrams(<< >>) = << >> /\ Ruled(<< >>, << >>)
<1>1. DOMAIN << >> = {} /\ Len(<< >>) = 0 OBVIOUS
<1>2. FullLines(<< >>) = << >> BY <1>1 DEF FullLines
<1>3. WholeOf(<< >>) = << >> BY <1>1, <1>2, Zenon DEF WholeOf, LS!FlattenSeq
<1>4. Datagrams(<< >>) = << >> BY <1>1 DEF Datagrams
<1>5. RuledBy(<< >>, << >>, [n \in 1 .. 0 |-> 0]) BY DEF RuledBy
<1>6. QED BY <1>3, <1>4, <1>5 DEF Ruled

-----------------------------------------------------------------------------
\* FileSink: what FileLines says.
FileKept ==
    sink = "file" =>
        /\ Starts(WholeOf(recorded), output)
        /\ ~bad => output = WholeOf(recorded)
        /\ returned = "flush" => ~bad /\ filed = Len(WholeOf(recorded))

SinkIInv ==
    /\ sink \in {"none", "console", "file", "udp"}
    /\ output \in Seq(Symbols) /\ recorded \in Seq(Records)
    /\ socket_ <=> sink = "udp"
    /\ FileKept
    /\ sink = "console" => Ruled(output, recorded)
    /\ sink = "udp" => output = Datagrams(recorded)

\* The constructors.
LEMMA SinkOpen ==
    ASSUME NEW type \in {"console", "file", "udp"}, LS!Open(type)
    PROVE  SinkIInv'
<1>1. /\ sink' = type /\ output' = << >> /\ recorded' = << >> /\ returned' = "open"
      /\ socket_' = (type = "udp")
  BY DEF LS!Open
<1>2. output' \in Seq(Symbols) /\ recorded' \in Seq(Records) BY <1>1, EmptySeq
<1>3. socket_' <=> sink' = "udp" BY <1>1, Zenon
<1>4. FileKept'
  <2>1. WholeOf(recorded') = << >> BY <1>1, NothingYet, Zenon
  <2>2. Starts(<< >>, << >>) BY EmptySeq, StartsItself
  <2>3. Starts(WholeOf(recorded'), output') /\ output' = WholeOf(recorded')
    BY <1>1, <2>1, <2>2, Zenon
  <2>4. returned' # "flush" BY <1>1
  <2>5. QED BY <2>3, <2>4, Zenon DEF FileKept
<1>5. Ruled(output', recorded') /\ output' = Datagrams(recorded') BY <1>1, NothingYet, Zenon
<1>6. sink' \in {"none", "console", "file", "udp"} BY <1>1
<1>7. QED BY <1>2, <1>3, <1>4, <1>5, <1>6, Zenon DEF SinkIInv

\* Taking a record's line as the accepted records take the record.
LEMMA TakesTyped ==
    ASSUME SinkIInv, NEW r \in Records, NEW more \in Seq(Symbols), LS!Took(r, more)
    PROVE  /\ output' = output \o more /\ recorded' = Append(recorded, r)
           /\ output' \in Seq(Symbols) /\ recorded' \in Seq(Records) /\ returned' = "write"
<1>1. output' = output \o more /\ recorded' = Append(recorded, r) /\ returned' = "write"
  BY DEF LS!Took
<1>2. output \in Seq(Symbols) /\ recorded \in Seq(Records) BY DEF SinkIInv
<1>3. output \o more \in Seq(Symbols) BY <1>2, ConcatProperties
<1>4. Append(recorded, r) \in Seq(Records) BY <1>2, AppendProperties
<1>5. QED BY <1>1, <1>3, <1>4, Zenon

\* ConsoleSink::write().
LEMMA SinkConsole ==
    ASSUME SinkIInv, NEW r \in Records, LS!ConsoleWrite(r), sink' = sink, socket_' = socket_
    PROVE  SinkIInv'
<1>1. sink = "console" /\ sink' = "console" BY DEF LS!ConsoleWrite
<1>2. output \in Seq(Symbols) /\ recorded \in Seq(Records) /\ Ruled(output, recorded)
  BY <1>1 DEF SinkIInv
<1>3. socket_' <=> sink' = "udp" BY Zenon DEF SinkIInv
<1>4. /\ output' \in Seq(Symbols) /\ recorded' \in Seq(Records)
      /\ Ruled(output', recorded')
  <2>1. CASE LS!Took(r, Append(r.line, LS!Newline))
    <3>1. Append(r.line, LS!Newline) \in Seq(Symbols) BY FullLine
    <3>2. /\ output' = output \o Append(r.line, LS!Newline) /\ recorded' = Append(recorded, r)
          /\ output' \in Seq(Symbols) /\ recorded' \in Seq(Records)
      BY <2>1, <3>1, TakesTyped, Zenon
    <3>3. Ruled(output \o Append(r.line, LS!Newline), Append(recorded, r)) BY <1>2, RuledLine, Zenon
    <3>4. QED BY <3>2, <3>3, Zenon
  <2>2. ASSUME NEW n \in 0 .. Len(r.line), output' = output \o SubSeq(r.line, 1, n), LS!Threw
        PROVE  output' \in Seq(Symbols) /\ recorded' \in Seq(Records) /\ Ruled(output', recorded')
    <3>1. SubSeq(r.line, 1, n) \in Seq(Marks) BY PartIs, Zenon
    <3>2. PICK w \in Seq(Marks) : w = SubSeq(r.line, 1, n) BY <3>1, Zenon
    <3>3. output' = output \o w /\ recorded' = recorded BY <2>2, <3>2, Zenon DEF LS!Threw
    <3>4. w \in Seq(Symbols) BY MarksAreSymbols, Zenon
    <3>5. output \o w \in Seq(Symbols) BY <1>2, <3>4, ConcatProperties, Zenon
    <3>6. Ruled(output \o w, recorded) BY <1>2, RuledPart, Zenon
    <3>7. QED BY <1>2, <3>3, <3>5, <3>6, Zenon
  <2>3. QED BY <2>1, <2>2, Zenon DEF LS!ConsoleWrite
<1>5. sink' \in {"none", "console", "file", "udp"} /\ sink' # "file" /\ sink' # "udp" BY <1>1
<1>6. FileKept' BY <1>5, Zenon DEF FileKept
<1>7. QED BY <1>3, <1>4, <1>5, <1>6, Zenon DEF SinkIInv

\* FileSink::write().
LEMMA SinkFile ==
    ASSUME SinkIInv, NEW r \in Records, LS!FileWrite(r), sink' = sink, socket_' = socket_
    PROVE  SinkIInv'
<1>1. sink = "file" /\ sink' = "file" BY DEF LS!FileWrite
<1>2. output \in Seq(Symbols) /\ recorded \in Seq(Records) /\ FileKept BY DEF SinkIInv
<1>3. Starts(WholeOf(recorded), output) /\ (~bad => output = WholeOf(recorded))
  BY <1>1, <1>2, Zenon DEF FileKept
<1>4. WholeOf(recorded) \in Seq(Symbols) BY <1>2, WholeTyped
<1>5. socket_' <=> sink' = "udp" BY Zenon DEF SinkIInv
<1>6. output' \in Seq(Symbols) /\ recorded' \in Seq(Records) /\ FileKept'
  <2>1. CASE ~bad /\ LS!Took(r, Append(r.line, LS!Newline)) /\ bad' = bad
    <3>1. Append(r.line, LS!Newline) \in Seq(Symbols) BY FullLine
    <3>2. /\ output' = output \o Append(r.line, LS!Newline) /\ recorded' = Append(recorded, r)
          /\ output' \in Seq(Symbols) /\ recorded' \in Seq(Records) /\ returned' = "write"
      BY <2>1, <3>1, TakesTyped, Zenon
    <3>3. WholeOf(Append(recorded, r)) = WholeOf(recorded) \o Append(r.line, LS!Newline)
      BY <1>2, WholeAppend, Zenon
    <3>4. output' = WholeOf(recorded') BY <1>3, <2>1, <3>2, <3>3, Zenon
    <3>5. Starts(output', output') BY <3>2, StartsItself
    <3>6. Starts(WholeOf(recorded'), output') BY <3>4, <3>5, Zenon
    <3>7. returned' # "flush" BY <3>2
    <3>8. QED BY <3>2, <3>4, <3>6, <3>7, Zenon DEF FileKept
  <2>2. ASSUME bad' = TRUE, LS!Threw,
               NEW n \in 0 .. Len(r.line), output' = output \o SubSeq(r.line, 1, n)
        PROVE  output' \in Seq(Symbols) /\ recorded' \in Seq(Records) /\ FileKept'
    <3>1. SubSeq(r.line, 1, n) \in Seq(Marks) BY PartIs, Zenon
    <3>2. PICK w \in Seq(Marks) : w = SubSeq(r.line, 1, n) BY <3>1, Zenon
    <3>3. output' = output \o w /\ recorded' = recorded /\ returned' = "threw"
      BY <2>2, <3>2, Zenon DEF LS!Threw
    <3>4. w \in Seq(Symbols) BY MarksAreSymbols, Zenon
    <3>5. output \o w \in Seq(Symbols) BY <1>2, <3>4, ConcatProperties, Zenon
    <3>6. Starts(WholeOf(recorded), output \o w) BY <1>2, <1>3, <1>4, <3>4, StartsMore
    <3>7. Starts(WholeOf(recorded'), output') BY <3>3, <3>6, Zenon
    <3>8. returned' # "flush" /\ bad' BY <2>2, <3>3
    <3>9. QED BY <1>2, <3>3, <3>5, <3>7, <3>8, Zenon DEF FileKept
  <2>3. CASE bad /\ LS!Threw /\ bad' = bad /\ output' = output
    <3>1. recorded' = recorded /\ returned' = "threw" BY <2>3 DEF LS!Threw
    <3>2. returned' # "flush" BY <3>1
    <3>3. QED BY <1>2, <1>3, <2>3, <3>1, <3>2, Zenon DEF FileKept
  <2>4. QED BY <2>1, <2>2, <2>3, Zenon DEF LS!FileWrite
<1>7. sink' \in {"none", "console", "file", "udp"} /\ sink' # "console" /\ sink' # "udp" BY <1>1
<1>8. QED BY <1>5, <1>6, <1>7, Zenon DEF SinkIInv

\* UdpSink::write().
LEMMA SinkUdp ==
    ASSUME SinkIInv, NEW r \in Records, LS!UdpWrite(r), sink' = sink, socket_' = socket_
    PROVE  SinkIInv'
<1>1. sink = "udp" /\ sink' = "udp" BY DEF LS!UdpWrite
<1>2. output \in Seq(Symbols) /\ recorded \in Seq(Records) /\ output = Datagrams(recorded)
  BY <1>1 DEF SinkIInv
<1>3. socket_' <=> sink' = "udp" BY Zenon DEF SinkIInv
<1>4. output' \in Seq(Symbols) /\ recorded' \in Seq(Records) /\ output' = Datagrams(recorded')
  <2>1. CASE LS!Took(r, <<r.line>>)
    <3>1. r.line \in Symbols BY RecordIs DEF Symbols
    <3>2. PICK l \in Symbols : l = r.line BY <3>1
    <3>3. <<l>> \in Seq(Symbols) OBVIOUS
    <3>4. /\ output' = output \o <<r.line>> /\ recorded' = Append(recorded, r)
          /\ output' \in Seq(Symbols) /\ recorded' \in Seq(Records)
      BY <2>1, <3>2, <3>3, TakesTyped, Zenon
    <3>5. Datagrams(Append(recorded, r)) = Datagrams(recorded) \o <<r.line>>
      BY <1>2, DatagramsAppend
    <3>6. QED BY <1>2, <3>4, <3>5, Zenon
  <2>2. CASE LS!Threw /\ output' = output BY <1>2, <2>2, Zenon DEF LS!Threw
  <2>3. QED BY <2>1, <2>2, Zenon DEF LS!UdpWrite
<1>5. sink' \in {"none", "console", "file", "udp"} /\ sink' # "file" /\ sink' # "console" BY <1>1
<1>6. FileKept' BY <1>5, Zenon DEF FileKept
<1>7. QED BY <1>3, <1>4, <1>5, <1>6, Zenon DEF SinkIInv

\* flush() of each sink.
LEMMA SinkFlush == ASSUME SinkIInv, LS!Flush PROVE SinkIInv'
<1>1. /\ sink' = sink /\ output' = output /\ recorded' = recorded /\ socket_' = socket_
  BY DEF LS!Flush
<1>2. FileKept'
  <2>1. SUFFICES ASSUME sink = "file" PROVE FileKept' BY <1>1, Zenon DEF FileKept
  <2>2. Starts(WholeOf(recorded'), output') /\ (~bad => output' = WholeOf(recorded'))
    BY <1>1, <2>1, Zenon DEF SinkIInv, FileKept
  <2>3. CASE ~bad /\ filed' = Len(output) /\ bad' = bad
    <3>1. filed' = Len(WholeOf(recorded')) BY <1>1, <2>2, <2>3, Zenon
    <3>2. QED BY <2>2, <2>3, <3>1, Zenon DEF FileKept
  <2>4. CASE returned' = "threw" /\ bad' = TRUE
    <3>1. returned' # "flush" BY <2>4
    <3>2. QED BY <2>2, <2>4, <3>1, Zenon DEF FileKept
  <2>5. QED BY <2>1, <2>3, <2>4 DEF LS!Flush
<1>3. QED BY <1>1, <1>2, Zenon DEF SinkIInv

\* The invariant holds at first and after every step.
LEMMA SinkStep ==
    /\ LS!Init => SinkIInv
    /\ SinkIInv /\ [LS!Next]_LS!vars => SinkIInv'
<1>1. LS!Init => SinkIInv
  <2>1. SUFFICES ASSUME LS!Init PROVE SinkIInv OBVIOUS
  <2>2. sink = "none" /\ output = << >> /\ recorded = << >> /\ socket_ = FALSE BY <2>1 DEF LS!Init
  <2>3. output \in Seq(Symbols) /\ recorded \in Seq(Records) BY <2>2, EmptySeq
  <2>4. /\ sink \in {"none", "console", "file", "udp"}
        /\ sink # "file" /\ sink # "console" /\ sink # "udp"
    BY <2>2
  <2>5. QED BY <2>2, <2>3, <2>4, Zenon DEF SinkIInv, FileKept
<1>2. ASSUME SinkIInv, [LS!Next]_LS!vars PROVE SinkIInv'
  <2>1. CASE UNCHANGED LS!vars
    <3>1. /\ sink' = sink /\ output' = output /\ recorded' = recorded /\ socket_' = socket_
          /\ bad' = bad /\ filed' = filed /\ returned' = returned
      BY <2>1 DEF LS!vars
    <3>2. QED BY <1>2, <3>1, Zenon DEF SinkIInv, FileKept
  <2>2. ASSUME NEW type \in {"console", "file", "udp"}, LS!Open(type) PROVE SinkIInv'
    BY <2>2, SinkOpen
  <2>3. CASE LS!OpenThrows
    <3>1. /\ sink = "none" /\ sink' = sink /\ output' = output
          /\ recorded' = recorded /\ socket_' = socket_
      BY <2>3 DEF LS!OpenThrows
    <3>2. sink' # "file" BY <3>1
    <3>3. QED BY <1>2, <3>1, <3>2, Zenon DEF SinkIInv, FileKept
  <2>4. ASSUME NEW time \in Times, LS!Write(time) PROVE SinkIInv'
    <3>1. PICK line \in LS!Lines(time) :
              \/ LS!ConsoleWrite([time |-> time, line |-> line])
              \/ LS!FileWrite([time |-> time, line |-> line])
              \/ LS!UdpWrite([time |-> time, line |-> line])
      BY <2>4, Zenon DEF LS!Write
    <3>2. PICK r \in Records : r = [time |-> time, line |-> line] BY RecordMade
    <3>3. LS!ConsoleWrite(r) \/ LS!FileWrite(r) \/ LS!UdpWrite(r) BY <3>1, <3>2, Zenon
    <3>4. sink' = sink /\ socket_' = socket_ BY <2>4 DEF LS!Write
    <3>5. QED BY <1>2, <3>3, <3>4, SinkConsole, SinkFile, SinkUdp
  <2>5. CASE LS!Flush BY <1>2, <2>5, SinkFlush
  <2>6. CASE LS!Destroy
    <3>1. /\ sink' = "none" /\ output' = output /\ recorded' = recorded /\ socket_' = FALSE
      BY <2>6 DEF LS!Destroy
    <3>2. /\ sink' \in {"none", "console", "file", "udp"} /\ sink' # "file" /\ sink' # "console"
          /\ sink' # "udp"
      BY <3>1
    <3>3. QED BY <1>2, <3>1, <3>2, Zenon DEF SinkIInv, FileKept
  <2>7. QED BY <1>2, <2>1, <2>2, <2>3, <2>4, <2>5, <2>6 DEF LS!Next
<1>3. QED BY <1>1, <1>2

\* The invariant is what the promise of the sinks needs.
LEMMA SinkPromise == ASSUME LS!ConstantsFit, SinkIInv PROVE SinkLines
<1>1. output \in Seq(Symbols) /\ recorded \in Seq(Records) BY DEF SinkIInv
<1>2. LS!FileLines
  <2>1. LS!WholeLines = WholeOf(recorded) BY Zenon DEF LS!WholeLines, WholeOf, FullLines
  <2>2. QED BY <2>1, Zenon DEF SinkIInv, FileKept, LS!FileLines, Starts
<1>3. LS!ConsoleLines
  <2>1. CASE sink = "console" BY <1>1, <2>1, ConsoleRuled DEF SinkIInv
  <2>2. CASE sink # "console" BY <2>2, Zenon DEF LS!ConsoleLines
  <2>3. QED BY <2>1, <2>2
<1>4. LS!UdpLines BY Zenon DEF SinkIInv, Datagrams, LS!UdpLines
<1>5. LS!StampsExact BY <1>1, StampsAre
<1>6. QED BY <1>2, <1>3, <1>4, <1>5 DEF SinkLines, LS!SinkLines

\* What the logger's sinks make of the records they are given.
THEOREM LinesAreWhole == LS!Spec => []SinkLines
<1>1. LS!ConstantsFit BY PartsAssumption
<1>2. SinkIInv => SinkLines BY <1>1, SinkPromise
<1>3. QED BY <1>2, SinkStep, PTL DEF LS!Spec

-----------------------------------------------------------------------------
(* BinarySerializer.                                                       *)

\* Joining is the same in both modules.
LEMMA SameFlatten == ASSUME NEW s PROVE BS!FlattenSeq(s) = LS!FlattenSeq(s)
BY DEF BS!FlattenSeq, LS!FlattenSeq

\* Bytes turned around.
LEMMA ReverseIs ==
    ASSUME NEW s \in Seq(Nat)
    PROVE  /\ BS!Reverse(s) \in Seq(Nat) /\ Len(BS!Reverse(s)) = Len(s)
           /\ BS!Reverse(BS!Reverse(s)) = s
<1> DEFINE n == Len(s)
           r == BS!Reverse(s)
           u == BS!Reverse(r)
<1>1. n \in Nat BY LenProperties
<1>2. /\ r \in Seq(Nat) /\ Len(r) = n
      /\ \A i \in 1 .. n : r[i] = s[(n - i) + 1]
  <2>1. \A i \in 1 .. n : s[(n - i) + 1] \in Nat BY <1>1, ElementOfSeq
  <2>2. QED BY <1>1, <2>1 DEF BS!Reverse
<1> HIDE DEF r
<1>3. /\ u \in Seq(Nat) /\ Len(u) = n
      /\ \A i \in 1 .. n : u[i] = r[(n - i) + 1]
  <2>1. \A i \in 1 .. Len(r) : r[(Len(r) - i) + 1] \in Nat BY <1>1, <1>2, ElementOfSeq
  <2>2. QED BY <1>1, <1>2, <2>1 DEF BS!Reverse
<1> HIDE DEF u
<1>4. ASSUME NEW i \in 1 .. n PROVE u[i] = s[i]
  <2>1. (n - i) + 1 \in 1 .. n /\ (n - ((n - i) + 1)) + 1 = i BY <1>1
  <2>2. u[i] = r[(n - i) + 1] BY <1>3
  <2>3. r[(n - i) + 1] = s[(n - ((n - i) + 1)) + 1] BY <1>2, <2>1
  <2>4. QED BY <2>1, <2>2, <2>3, Zenon
<1>5. u = s
  <2> HIDE DEF n
  <2>1. Len(s) = n BY DEF n
  <2>2. QED BY <1>1, <1>3, <1>4, <2>1, SeqEqual
<1>6. QED BY <1>2, <1>5 DEF u, r

\* The bytes between a host's value and the wire, for either direction.
Turned(kind, bytes, o) == IF kind = "scalar" /\ o = "little" THEN BS!Reverse(bytes) ELSE bytes

\* Turned twice is not turned.
LEMMA TurnedIs ==
    ASSUME NEW kind, NEW o, NEW s \in Seq(Nat)
    PROVE  /\ Turned(kind, s, o) \in Seq(Nat) /\ Len(Turned(kind, s, o)) = Len(s)
           /\ Turned(kind, Turned(kind, s, o), o) = s
<1>1. CASE kind = "scalar" /\ o = "little"
  <2>1. Turned(kind, s, o) = BS!Reverse(s) BY <1>1, Zenon DEF Turned
  <2>2. Turned(kind, BS!Reverse(s), o) = BS!Reverse(BS!Reverse(s)) BY <1>1, Zenon DEF Turned
  <2>3. QED BY <2>1, <2>2, ReverseIs, Zenon
<1>2. CASE ~ (kind = "scalar" /\ o = "little")
  <2>1. Turned(kind, s, o) = s BY <1>2, Zenon DEF Turned
  <2>2. QED BY <2>1, Zenon
<1>3. QED BY <1>1, <1>2

\* write() and read() turn the bytes where the wire is little-endian, whatever the host.
LEMMA HostsAgree ==
    ASSUME order \in BS!Endians, NEW native \in BS!Endians, NEW s \in Seq(Nat)
    PROVE  /\ BS!ToWire(BS!HostBytes(s, native), native) = Turned("scalar", s, order)
           /\ BS!HostBytes(BS!ToWire(s, native), native) = Turned("scalar", s, order)
<1>1. BS!Reverse(BS!Reverse(s)) = s BY ReverseIs
<1>2. (order = "little" \/ order = "big") /\ (native = "little" \/ native = "big") BY DEF BS!Endians
<1>3. "little" # "big" OBVIOUS
<1>4. QED BY <1>1, <1>2, <1>3, Zenon DEF BS!ToWire, BS!HostBytes, Turned

-----------------------------------------------------------------------------
\* What a field puts on the wire, and what fields do.
Coded(field, o) == IF ~field.ok THEN << >> ELSE Turned(field.kind, field.value, o)
Codes(f, o) == [i \in DOMAIN f |-> Coded(f[i], o)]
WireOf(f, o) == BS!FlattenSeq(Codes(f, o))

\* What was passed to write() and write_bytes(), with the outcome.
Fields == [kind : {"scalar", "block"}, value : Seq(Nat), ok : BOOLEAN]

\* A field's bytes.
LEMMA CodedIs == ASSUME NEW field \in Fields, NEW o PROVE Coded(field, o) \in Seq(Nat)
<1>1. field.value \in Seq(Nat) BY DEF Fields
<1>2. Turned(field.kind, field.value, o) \in Seq(Nat) BY <1>1, TurnedIs
<1>3. << >> \in Seq(Nat) BY EmptySeq
<1>4. QED BY <1>2, <1>3, Zenon DEF Coded

\* The codes of fields.
LEMMA CodesAre ==
    ASSUME NEW f \in Seq(Fields), NEW o
    PROVE  /\ Codes(f, o) \in Seq(Seq(Nat)) /\ Len(Codes(f, o)) = Len(f)
           /\ \A i \in 1 .. Len(f) : Codes(f, o)[i] = Coded(f[i], o)
<1>1. Len(f) \in Nat /\ DOMAIN f = 1 .. Len(f) /\ \A i \in 1 .. Len(f) : f[i] \in Fields
  BY LenProperties, ElementOfSeq
<1>2. \A i \in 1 .. Len(f) : Coded(f[i], o) \in Seq(Nat) BY <1>1, CodedIs
<1>3. Codes(f, o) = [i \in 1 .. Len(f) |-> Coded(f[i], o)] BY <1>1 DEF Codes
<1>4. Codes(f, o) \in [1 .. Len(f) -> Seq(Nat)] BY <1>2, <1>3
<1>5. Codes(f, o) \in Seq(Seq(Nat)) BY <1>1, <1>4, SeqDef
<1>6. Len(Codes(f, o)) = Len(f)
  <2>1. DOMAIN Codes(f, o) = 1 .. Len(f) BY <1>3
  <2>2. QED BY <1>1, <1>5, <2>1, LenProperties
<1>7. QED BY <1>3, <1>5, <1>6

\* One more field.
LEMMA CodesAppend ==
    ASSUME NEW f \in Seq(Fields), NEW x \in Fields, NEW o
    PROVE  Codes(Append(f, x), o) = Append(Codes(f, o), Coded(x, o))
<1> DEFINE b == Append(f, x)
           e == Coded(x, o)
           c == Append(Codes(f, o), e)
<1>1. Len(f) \in Nat /\ b \in Seq(Fields) /\ Len(b) = Len(f) + 1 /\ b[Len(f) + 1] = x
      /\ \A i \in 1 .. Len(f) : b[i] = f[i]
  BY LenProperties, AppendProperties
<1>2. e \in Seq(Nat) BY CodedIs
<1>3. /\ Codes(f, o) \in Seq(Seq(Nat)) /\ Len(Codes(f, o)) = Len(f)
      /\ \A i \in 1 .. Len(f) : Codes(f, o)[i] = Coded(f[i], o)
  BY CodesAre
<1> HIDE DEF b
<1>4. /\ Codes(b, o) \in Seq(Seq(Nat)) /\ Len(Codes(b, o)) = Len(f) + 1
      /\ \A i \in 1 .. Len(f) + 1 : Codes(b, o)[i] = Coded(b[i], o)
  BY <1>1, CodesAre
<1>5. /\ c \in Seq(Seq(Nat)) /\ Len(c) = Len(f) + 1 /\ c[Len(f) + 1] = e
      /\ \A i \in 1 .. Len(f) : c[i] = Codes(f, o)[i]
  <2> HIDE DEF e
  <2>1. QED BY <1>2, <1>3, AppendProperties
<1> HIDE DEF c
<1>6. ASSUME NEW i \in 1 .. Len(f) + 1 PROVE Codes(b, o)[i] = c[i]
  <2>1. Codes(b, o)[i] = Coded(b[i], o) BY <1>4
  <2>2. CASE i = Len(f) + 1
    <3>1. b[i] = x /\ c[i] = e BY <1>1, <1>5, <2>2
    <3>2. QED BY <2>1, <3>1, Zenon
  <2>3. CASE i \in 1 .. Len(f)
    <3>1. b[i] = f[i] /\ c[i] = Codes(f, o)[i] /\ Codes(f, o)[i] = Coded(f[i], o)
      BY <1>1, <1>3, <1>5, <2>3
    <3>2. QED BY <2>1, <3>1, Zenon
  <2>4. QED BY <1>1, <2>2, <2>3
<1>7. Codes(b, o) = c BY <1>4, <1>5, <1>6, SeqEqual
<1>8. QED BY <1>7, Zenon DEF b, c

\* A field more is its bytes more; a refused one leaves the bytes as they are.
LEMMA WireAppend ==
    ASSUME NEW f \in Seq(Fields), NEW x \in Fields, NEW o
    PROVE  /\ WireOf(f, o) \in Seq(Nat)
           /\ WireOf(Append(f, x), o) = WireOf(f, o) \o Coded(x, o)
<1>1. Codes(f, o) \in Seq(Seq(Nat)) BY CodesAre
<1>2. PICK s \in Seq(Seq(Nat)) : s = Codes(f, o) BY <1>1
<1>3. PICK e \in Seq(Nat) : e = Coded(x, o) BY CodedIs
<1>4. LS!FlattenSeq(s) \in Seq(Nat) /\ LS!FlattenSeq(Append(s, e)) = LS!FlattenSeq(s) \o e
  BY FlattenAppend
<1>5. Codes(Append(f, x), o) = Append(s, e) BY <1>2, <1>3, CodesAppend, Zenon
<1>6. QED BY <1>2, <1>3, <1>4, <1>5, SameFlatten, Zenon DEF WireOf


-----------------------------------------------------------------------------
\* Where field n begins among f.
Start(f, o, n) == Len(BS!FlattenSeq([i \in 1 .. n - 1 |-> Coded(f[i], o)]))

\* The bytes of field n stand in d from b on.
StandsIn(d, e, b) == b \in Nat /\ b + Len(e) <= Len(d) /\ \A j \in 1 .. Len(e) : d[b + j] = e[j]

\* A place does not depend on the fields that follow ...
LEMMA StartKeeps ==
    ASSUME NEW f, NEW g, NEW o, NEW n \in Nat, \A i \in 1 .. n - 1 : f[i] = g[i]
    PROVE  Start(f, o, n) = Start(g, o, n)
<1>1. [i \in 1 .. n - 1 |-> Coded(f[i], o)] = [i \in 1 .. n - 1 |-> Coded(g[i], o)] OBVIOUS
<1>2. QED BY <1>1, Zenon DEF Start

\* ... and the next field begins where all before it end.
LEMMA StartNext ==
    ASSUME NEW f \in Seq(Fields), NEW o
    PROVE  Start(f, o, Len(f) + 1) = Len(WireOf(f, o))
<1>1. Len(f) \in Nat /\ DOMAIN f = 1 .. Len(f) BY LenProperties
<1>2. (Len(f) + 1) - 1 = Len(f) BY <1>1
<1>3. [i \in 1 .. (Len(f) + 1) - 1 |-> Coded(f[i], o)] = Codes(f, o) BY <1>1, <1>2, Zenon DEF Codes
<1>4. QED BY <1>3, Zenon DEF Start, WireOf

\* What stands in a text stands in a longer one ...
LEMMA StandsMore ==
    ASSUME NEW d \in Seq(Nat), NEW w \in Seq(Nat), NEW e \in Seq(Nat), NEW b, StandsIn(d, e, b)
    PROVE  StandsIn(d \o w, e, b)
<1>1. b \in Nat /\ b + Len(e) <= Len(d) /\ \A j \in 1 .. Len(e) : d[b + j] = e[j] BY DEF StandsIn
<1>2. Len(d) \in Nat /\ Len(w) \in Nat /\ Len(e) \in Nat BY LenProperties
<1> DEFINE t == d \o w
<1>3. Len(t) = Len(d) + Len(w) /\ \A i \in 1 .. Len(d) : t[i] = d[i] BY ConcatProperties
<1> HIDE DEF t
<1>4. b + Len(e) <= Len(t) BY <1>1, <1>2, <1>3
<1>5. ASSUME NEW j \in 1 .. Len(e) PROVE t[b + j] = e[j]
  <2>1. b + j \in 1 .. Len(d) BY <1>1, <1>2
  <2>2. QED BY <1>1, <1>3, <2>1
<1>6. QED BY <1>1, <1>4, <1>5 DEF StandsIn, t

\* ... and what is added stands behind it.
LEMMA StandsLast ==
    ASSUME NEW d \in Seq(Nat), NEW e \in Seq(Nat)
    PROVE  StandsIn(d \o e, e, Len(d))
<1>1. Len(d) \in Nat /\ Len(e) \in Nat BY LenProperties
<1> DEFINE t == d \o e
<1>2. Len(t) = Len(d) + Len(e) /\ \A i \in Len(d) + 1 .. Len(d) + Len(e) : t[i] = e[i - Len(d)]
  BY ConcatProperties
<1> HIDE DEF t
<1>3. ASSUME NEW j \in 1 .. Len(e) PROVE t[Len(d) + j] = e[j]
  <2>1. Len(d) + j \in Len(d) + 1 .. Len(d) + Len(e) /\ (Len(d) + j) - Len(d) = j BY <1>1
  <2>2. QED BY <1>2, <2>1
<1>4. QED BY <1>1, <1>2, <1>3 DEF StandsIn, t

-----------------------------------------------------------------------------
\* Every field's bytes stand at its place.
Placed(f, o, d) == \A n \in 1 .. Len(f) : StandsIn(d, Coded(f[n], o), Start(f, o, n))

\* One of the fields was refused.
Refused(f) == \E i \in 1 .. Len(f) : ~ f[i].ok

\* What read() and read_bytes() were asked for and returned.
Reads == [kind : {"scalar", "block"}, width : Nat, at : Nat, value : Seq(Nat)]

\* What a read returns of the reader's bytes.
Ahead(w, at, n) == SubSeq(w, at + 1, at + n)
ReadFrom(r, w, o) ==
    r.value = IF r.at + r.width <= Len(w) THEN Turned(r.kind, Ahead(w, r.at, r.width), o) ELSE << >>

\* The reads follow each other, the last one to position p.
Chained(q, p) ==
    \A i \in 1 .. Len(q) :
        q[i].at + Len(q[i].value) = IF i = Len(q) THEN p ELSE q[i + 1].at

(* The inductive invariant: types; the bytes are the fields', each at its  *)
(* place; the reader's bytes begin the writer's, each read returned what   *)
(* stands at its place, and the reads follow each other.                   *)
BinaryTyped ==
    /\ order \in BS!Endians
    /\ data \in Seq(Nat) /\ Len(data) <= BufferSize
    /\ fields \in Seq(Fields)
    /\ wire \in Seq(Nat) /\ read_pos \in -1 .. Len(wire)
    /\ reads \in Seq(Reads)

WriterKept ==
    /\ data = WireOf(fields, order) /\ Placed(fields, order, data)
    /\ overflowed <=> Refused(fields)

ReaderKept ==
    /\ read_pos = -1 => reads = << >>
    /\ Len(wire) <= Len(data) /\ \A i \in 1 .. Len(wire) : wire[i] = data[i]
    /\ \A i \in 1 .. Len(reads) : ReadFrom(reads[i], wire, order)
    /\ Chained(reads, read_pos)

BinaryIInv == BinaryTyped /\ WriterKept /\ ReaderKept /\ overflowed \in BOOLEAN

\* A read at a field's place and width returns the field.
LEMMA FieldRead ==
    ASSUME NEW d \in Seq(Nat), NEW w \in Seq(Nat), Len(w) <= Len(d),
           \A i \in 1 .. Len(w) : w[i] = d[i],
           NEW x \in Fields, x.ok, NEW o, NEW r \in Reads, ReadFrom(r, w, o),
           StandsIn(d, Coded(x, o), r.at), r.kind = x.kind, r.width = Len(x.value)
    PROVE  r.value = IF r.at + r.width <= Len(w) THEN x.value ELSE << >>
<1>1. CASE r.at + r.width <= Len(w)
  <2>1. PICK at \in Nat, n \in Nat : at = r.at /\ n = r.width BY DEF Reads
  <2>2. PICK e \in Seq(Nat) : e = Coded(x, o) BY CodedIs
  <2>3. x.value \in Seq(Nat) BY DEF Fields
  <2>4. e = Turned(x.kind, x.value, o) BY <2>2, Zenon DEF Coded
  <2>5. Len(e) = n /\ Turned(x.kind, e, o) = x.value BY <2>1, <2>3, <2>4, TurnedIs
  <2>6. at + n <= Len(w) BY <1>1, <2>1, Zenon
  <2>7. \A j \in 1 .. n : d[at + j] = e[j]
    <3>1. StandsIn(d, e, at) BY <2>1, <2>2, Zenon
    <3>2. QED BY <2>5, <3>1 DEF StandsIn
  <2>8. PICK c : c = Ahead(w, at, n) OBVIOUS
  <2>9. c \in Seq(Nat) /\ Len(c) = n /\ \A j \in 1 .. n : c[j] = w[at + j]
    BY <2>6, <2>8, Slice DEF Ahead
  <2>10. ASSUME NEW j \in 1 .. n PROVE c[j] = e[j]
    <3>1. at + j \in 1 .. Len(w)
      <4>1. PICK m \in Nat : m = Len(w) BY LenProperties
      <4>2. at + n <= m BY <2>6, <4>1, Zenon
      <4>3. at + j \in 1 .. m BY <4>2
      <4>4. QED BY <4>1, <4>3, Zenon
    <3>2. c[j] = w[at + j] /\ w[at + j] = d[at + j] /\ d[at + j] = e[j] BY <2>7, <2>9, <3>1
    <3>3. QED BY <3>2, Zenon
  <2>11. c = e BY <2>5, <2>9, <2>10, SeqEqual
  <2>12. r.value = Turned(r.kind, c, o) BY <1>1, <2>1, <2>8, Zenon DEF ReadFrom
  <2>13. r.value = x.value BY <2>5, <2>11, <2>12, Zenon
  <2>14. QED BY <1>1, <2>13, Zenon
<1>2. CASE ~ (r.at + r.width <= Len(w)) BY <1>2, Zenon DEF ReadFrom
<1>3. QED BY <1>1, <1>2

\* The invariant is what RoundTrip needs.
LEMMA BinaryPromise == BinaryIInv => RoundTrip
<1> SUFFICES ASSUME BinaryIInv PROVE RoundTrip OBVIOUS
<1>1. BinaryTyped /\ WriterKept /\ ReaderKept /\ overflowed \in BOOLEAN BY DEF BinaryIInv
<1>2. /\ Len(fields) \in Nat /\ DOMAIN fields = 1 .. Len(fields) /\ DOMAIN reads = 1 .. Len(reads)
      /\ \A i \in 1 .. Len(fields) : fields[i] \in Fields
      /\ \A i \in 1 .. Len(reads) : reads[i] \in Reads
  BY <1>1, LenProperties, ElementOfSeq DEF BinaryTyped
<1>3. BS!TypeOK BY <1>1 DEF BinaryTyped, BS!TypeOK
<1>4. \A x : BS!Encoded(x) = Coded(x, order) BY Zenon DEF BS!Encoded, Coded, Turned
<1>5. data = BS!FlattenSeq([i \in DOMAIN fields |-> BS!Encoded(fields[i])])
  <2>1. [i \in DOMAIN fields |-> BS!Encoded(fields[i])] = Codes(fields, order)
    BY <1>4, Zenon DEF Codes
  <2>2. QED BY <1>1, <2>1, Zenon DEF WriterKept, WireOf
<1>6. overflowed = (\E f \in BS!Range(fields) : ~ f.ok)
  <2>1. (\E f \in BS!Range(fields) : ~ f.ok) <=> Refused(fields)
    BY <1>2 DEF BS!Range, Refused
  <2>2. QED BY <1>1, <2>1, Zenon DEF WriterKept
<1>7. ASSUME NEW r \in BS!Range(reads), NEW n \in DOMAIN fields, fields[n].ok,
             r.at = BS!StartOf(n), r.kind = fields[n].kind, r.width = Len(fields[n].value)
      PROVE  r.value = IF r.at + r.width <= Len(wire) THEN fields[n].value ELSE << >>
  <2>1. PICK i \in 1 .. Len(reads) : r = reads[i] BY <1>2 DEF BS!Range
  <2>2. r \in Reads /\ ReadFrom(r, wire, order) BY <1>1, <1>2, <2>1 DEF ReaderKept
  <2>3. n \in 1 .. Len(fields) /\ fields[n] \in Fields BY <1>2
  <2>4. BS!StartOf(n) = Start(fields, order, n) BY <1>4, Zenon DEF BS!StartOf, Start
  <2>5. StandsIn(data, Coded(fields[n], order), r.at)
    BY <1>1, <1>7, <2>3, <2>4, Zenon DEF WriterKept, Placed
  <2>6. PICK x \in Fields : x = fields[n] BY <2>3
  <2>7. data \in Seq(Nat) /\ wire \in Seq(Nat) BY <1>1 DEF BinaryTyped
  <2>8. Len(wire) <= Len(data) /\ \A j \in 1 .. Len(wire) : wire[j] = data[j] BY <1>1 DEF ReaderKept
  <2>9. x.ok /\ StandsIn(data, Coded(x, order), r.at) /\ r.kind = x.kind /\ r.width = Len(x.value)
    BY <1>7, <2>5, <2>6, Zenon
  <2>10. r.value = IF r.at + r.width <= Len(wire) THEN x.value ELSE << >>
    BY <2>2, <2>7, <2>8, <2>9, FieldRead, Zenon
  <2>11. QED BY <2>6, <2>10, Zenon
<1>8. \A i \in DOMAIN reads :
          reads[i].at + Len(reads[i].value) = IF i = Len(reads) THEN read_pos ELSE reads[i + 1].at
  BY <1>1, <1>2, Zenon DEF ReaderKept, Chained
<1>9. QED BY <1>3, <1>5, <1>6, <1>7, <1>8, Zenon DEF RoundTrip, BS!RoundTrip


\* The bytes write() and write_bytes() pass on.
LEMMA NextBytesAre ==
    ASSUME BinaryIInv, NEW n \in Nat
    PROVE  BS!NextBytes(n) \in Seq(Nat) /\ Len(BS!NextBytes(n)) = n
<1>1. Len(fields) \in Nat BY LenProperties DEF BinaryIInv, BinaryTyped
<1> DEFINE k == 10 * (Len(fields) + 1)
<1>2. k \in Nat BY <1>1
<1> HIDE DEF k
<1>3. BS!NextBytes(n) = [i \in 1 .. n |-> k + i] BY DEF BS!NextBytes, k
<1>4. [i \in 1 .. n |-> k + i] \in Seq(Nat) /\ Len([i \in 1 .. n |-> k + i]) = n BY <1>2
<1>5. QED BY <1>3, <1>4

\* write() and write_bytes(): the bytes are taken whole, or the field is refused.
LEMMA PutKeeps ==
    ASSUME BS!ConstantsFit, BinaryIInv, NEW kind \in {"scalar", "block"}, NEW value \in Seq(Nat),
           NEW bytes, bytes = Turned(kind, value, order), BS!Put(kind, value, bytes), order' = order
    PROVE  BinaryIInv'
<1>1. BinaryTyped /\ WriterKept /\ ReaderKept /\ overflowed \in BOOLEAN BY DEF BinaryIInv
<1>2. /\ order \in BS!Endians /\ data \in Seq(Nat) /\ Len(data) \in Nat /\ Len(data) <= BufferSize
      /\ fields \in Seq(Fields) /\ Len(fields) \in Nat
  BY <1>1, LenProperties DEF BinaryTyped
<1>3. bytes \in Seq(Nat) /\ Len(bytes) \in Nat
  <2>1. bytes \in Seq(Nat) BY TurnedIs
  <2>2. QED BY <2>1, LenProperties
<1>4. read_pos = -1 /\ wire' = wire /\ read_pos' = read_pos /\ reads' = reads BY DEF BS!Put
<1>5. data = WireOf(fields, order) /\ Placed(fields, order, data)
      /\ (overflowed <=> Refused(fields))
  BY <1>1 DEF WriterKept
<1>6. PICK ok \in BOOLEAN :
         /\ fields' = Append(fields, [kind |-> kind, value |-> value, ok |-> ok])
         /\ ok => /\ Len(bytes) <= BufferSize - Len(data)
                  /\ data' = data \o bytes /\ overflowed' = overflowed
         /\ ~ ok => data' = data /\ overflowed' = TRUE
  <2>1. CASE /\ overflowed' = TRUE /\ data' = data
             /\ fields' = Append(fields, [kind |-> kind, value |-> value, ok |-> FALSE])
    BY <2>1, Zenon
  <2>2. CASE /\ Len(bytes) <= BufferSize - Len(data) /\ data' = data \o bytes
             /\ overflowed' = overflowed
             /\ fields' = Append(fields, [kind |-> kind, value |-> value, ok |-> TRUE])
    BY <2>2, Zenon
  <2>3. QED BY <2>1, <2>2, Zenon DEF BS!Put
<1>7. PICK x \in Fields : x = [kind |-> kind, value |-> value, ok |-> ok]
  <2>1. [kind |-> kind, value |-> value, ok |-> ok] \in Fields BY DEF Fields
  <2>2. QED BY <2>1
<1>8. fields' = Append(fields, x) BY <1>6, <1>7, Zenon
<1>9. x.ok = ok /\ x.kind = kind /\ x.value = value BY <1>7
<1>10. PICK e \in Seq(Nat) : e = Coded(x, order) BY CodedIs
<1>11. data' = data \o e
  <2>1. CASE ok
    <3>1. e = bytes BY <1>9, <1>10, <2>1, Zenon DEF Coded
    <3>2. QED BY <1>6, <2>1, <3>1, Zenon
  <2>2. CASE ~ ok
    <3>1. e = << >> BY <1>9, <1>10, <2>2, Zenon DEF Coded
    <3>2. data \o << >> = data BY <1>2, ConcatEmptySeq
    <3>3. QED BY <1>6, <2>2, <3>1, <3>2, Zenon
  <2>3. QED BY <2>1, <2>2
<1>12. data' \in Seq(Nat) /\ Len(data') <= BufferSize
  <2>1. data \o e \in Seq(Nat) /\ Len(data \o e) = Len(data) + Len(e) BY <1>2, ConcatProperties
  <2>2. CASE ok
    <3>1. e = bytes BY <1>9, <1>10, <2>2, Zenon DEF Coded
    <3>2. Len(data \o e) = Len(data) + Len(bytes) /\ Len(bytes) <= BufferSize - Len(data)
      BY <1>6, <2>1, <2>2, <3>1, Zenon
    <3>3. BufferSize \in Nat BY DEF BS!ConstantsFit
    <3>4. PICK l : l = Len(data \o e) OBVIOUS
    <3>5. l <= BufferSize BY <1>2, <1>3, <3>2, <3>3, <3>4
    <3>6. QED BY <1>11, <2>1, <3>4, <3>5, Zenon
  <2>3. CASE ~ ok BY <1>2, <1>6, <2>3, Zenon
  <2>4. QED BY <2>2, <2>3
<1>13. /\ Append(fields, x) \in Seq(Fields) /\ Len(Append(fields, x)) = Len(fields) + 1
       /\ \A i \in 1 .. Len(fields) : Append(fields, x)[i] = fields[i]
       /\ Append(fields, x)[Len(fields) + 1] = x
  BY <1>2, AppendProperties
<1>14. PICK g \in Seq(Fields) : g = Append(fields, x) BY <1>13
<1>15. /\ fields' = g /\ Len(g) = Len(fields) + 1
       /\ \A i \in 1 .. Len(fields) : g[i] = fields[i]
       /\ g[Len(fields) + 1] = x
  BY <1>8, <1>13, <1>14, Zenon
<1>16. data' = WireOf(fields', order')
  <2>1. WireOf(g, order) = WireOf(fields, order) \o e BY <1>2, <1>10, <1>14, WireAppend, Zenon
  <2>2. QED BY <1>5, <1>11, <1>15, <2>1, Zenon
<1>17. Placed(fields', order', data')
  <2>1. ASSUME NEW n \in 1 .. Len(g) PROVE StandsIn(data', Coded(g[n], order), Start(g, order, n))
    <3>1. CASE n \in 1 .. Len(fields)
      <4>1. StandsIn(data, Coded(fields[n], order), Start(fields, order, n))
        BY <1>5, <3>1, Zenon DEF Placed
      <4>2. Coded(fields[n], order) \in Seq(Nat)
        <5>1. fields[n] \in Fields BY <1>2, <3>1, ElementOfSeq
        <5>2. QED BY <5>1, CodedIs
      <4>3. StandsIn(data \o e, Coded(fields[n], order), Start(fields, order, n))
        BY <1>2, <4>1, <4>2, StandsMore, Zenon
      <4>4. g[n] = fields[n] BY <1>15, <3>1
      <4>5. Start(g, order, n) = Start(fields, order, n)
        <5>1. n \in Nat /\ \A i \in 1 .. n - 1 : g[i] = fields[i] BY <1>2, <1>15, <3>1
        <5>2. QED BY <5>1, StartKeeps
      <4>6. QED BY <1>11, <4>3, <4>4, <4>5, Zenon
    <3>2. CASE n = Len(fields) + 1
      <4>1. StandsIn(data \o e, e, Len(data)) BY <1>2, StandsLast
      <4>2. Start(g, order, n) = Start(fields, order, n)
        <5>1. n \in Nat /\ \A i \in 1 .. n - 1 : g[i] = fields[i] BY <1>2, <1>15, <3>2
        <5>2. QED BY <5>1, StartKeeps
      <4>3. Start(fields, order, n) = Len(data) BY <1>2, <1>5, <3>2, StartNext, Zenon
      <4>4. g[n] = x BY <1>15, <3>2, Zenon
      <4>5. QED BY <1>10, <1>11, <4>1, <4>2, <4>3, <4>4, Zenon
    <3>3. QED BY <1>2, <1>15, <3>1, <3>2
  <2>2. QED BY <1>15, <2>1, Zenon DEF Placed
<1>18. overflowed' <=> Refused(fields')
  <2>1. Refused(g) <=> Refused(fields) \/ ~ x.ok
    <3>1. ASSUME Refused(g) PROVE Refused(fields) \/ ~ x.ok
      <4>1. PICK i \in 1 .. Len(g) : ~ g[i].ok BY <3>1 DEF Refused
      <4>2. CASE i \in 1 .. Len(fields) BY <1>15, <4>1, <4>2 DEF Refused
      <4>3. CASE i = Len(fields) + 1 BY <1>15, <4>1, <4>3
      <4>4. QED BY <1>2, <1>15, <4>2, <4>3
    <3>2. ASSUME Refused(fields) PROVE Refused(g)
      <4>1. PICK i \in 1 .. Len(fields) : ~ fields[i].ok BY <3>2 DEF Refused
      <4>2. i \in 1 .. Len(g) /\ g[i] = fields[i] BY <1>2, <1>15
      <4>3. QED BY <4>1, <4>2, Zenon DEF Refused
    <3>3. ASSUME ~ x.ok PROVE Refused(g)
      <4>1. Len(fields) + 1 \in 1 .. Len(g) BY <1>2, <1>15
      <4>2. QED BY <1>15, <3>3, <4>1, Zenon DEF Refused
    <3>4. QED BY <3>1, <3>2, <3>3
  <2>2. Refused(fields') <=> Refused(fields) \/ ~ ok BY <1>9, <1>15, <2>1, Zenon
  <2>3. CASE ok
    <3>1. overflowed' = overflowed BY <1>6, <2>3, Zenon
    <3>2. QED BY <1>5, <2>2, <2>3, <3>1, Zenon
  <2>4. CASE ~ ok
    <3>1. overflowed' BY <1>6, <2>4, Zenon
    <3>2. QED BY <2>2, <2>4, <3>1, Zenon
  <2>5. QED BY <2>3, <2>4
<1>19. overflowed' \in BOOLEAN BY <1>1, <1>6, Zenon
<1>20. reads = << >> BY <1>1, <1>4 DEF ReaderKept
<1>21. ReaderKept'
  <2>1. Len(wire) <= Len(data) /\ (\A i \in 1 .. Len(wire) : wire[i] = data[i]) /\ wire \in Seq(Nat)
    BY <1>1 DEF ReaderKept, BinaryTyped
  <2>2. Len(data \o e) = Len(data) + Len(e) /\ (\A i \in 1 .. Len(data) : (data \o e)[i] = data[i])
        /\ Len(e) \in Nat /\ Len(wire) \in Nat
    BY <1>2, <2>1, ConcatProperties, LenProperties
  <2>3. PICK t : t = data \o e OBVIOUS
  <2>4. Len(wire) <= Len(t) /\ \A i \in 1 .. Len(wire) : wire[i] = t[i] BY <1>2, <2>1, <2>2, <2>3
  <2>5. wire' = wire /\ data' = t /\ read_pos' = read_pos /\ reads' = reads
    BY <1>4, <1>11, <2>3, Zenon
  <2>6. QED BY <1>1, <2>4, <2>5, Zenon DEF ReaderKept
<1>22. BinaryTyped' BY <1>1, <1>4, <1>12, <1>15, Zenon DEF BinaryTyped
<1>23. QED BY <1>16, <1>17, <1>18, <1>19, <1>21, <1>22, Zenon DEF BinaryIInv, WriterKept

\* read() and read_bytes(): the cursor moves over what is returned.
LEMMA GetKeeps ==
    ASSUME BinaryIInv, NEW kind \in {"scalar", "block"}, NEW n \in Nat, NEW value,
           n <= BS!Remaining => value = Turned(kind, Ahead(wire, read_pos, n), order),
           BS!Get(kind, n, value)
    PROVE  BinaryIInv'
<1>1. BinaryTyped /\ WriterKept /\ ReaderKept /\ overflowed \in BOOLEAN BY DEF BinaryIInv
<1>2. /\ wire \in Seq(Nat) /\ Len(wire) \in Nat /\ read_pos \in -1 .. Len(wire)
      /\ reads \in Seq(Reads) /\ Len(reads) \in Nat
  BY <1>1, LenProperties DEF BinaryTyped
<1>3. read_pos \in Nat /\ read_pos <= Len(wire) BY <1>2 DEF BS!Get
<1>4. /\ order' = order /\ data' = data /\ overflowed' = overflowed /\ fields' = fields
      /\ wire' = wire
  BY DEF BS!Get, BS!writer
<1>5. WriterKept' BY <1>1, <1>4, Zenon DEF WriterKept
<1>6. PICK v \in Seq(Nat) :
        /\ reads' = Append(reads, [kind |-> kind, width |-> n, at |-> read_pos, value |-> v])
        /\ v = IF read_pos + n <= Len(wire) THEN Turned(kind, Ahead(wire, read_pos, n), order)
               ELSE << >>
        /\ read_pos' = read_pos + Len(v) /\ read_pos' \in -1 .. Len(wire) /\ read_pos' # -1
  <2>1. CASE /\ n > BS!Remaining /\ read_pos' = read_pos
             /\ reads' = Append(reads, [kind |-> kind, width |-> n, at |-> read_pos,
                                        value |-> << >>])
    <3>1. ~ (read_pos + n <= Len(wire)) BY <1>2, <1>3, <2>1 DEF BS!Remaining
    <3>2. << >> \in Seq(Nat) /\ Len(<< >>) = 0 BY EmptySeq
    <3>3. read_pos + 0 = read_pos /\ read_pos \in -1 .. Len(wire) /\ read_pos # -1 BY <1>2, <1>3
    <3>4. read_pos' = read_pos + Len(<< >>) BY <2>1, <3>2, <3>3
    <3>5. QED BY <2>1, <3>1, <3>2, <3>3, <3>4, Zenon
  <2>2. CASE /\ n <= BS!Remaining /\ read_pos' = read_pos + n
             /\ reads' = Append(reads, [kind |-> kind, width |-> n, at |-> read_pos,
                                        value |-> value])
    <3>1. read_pos + n <= Len(wire) BY <1>2, <1>3, <2>2 DEF BS!Remaining
    <3>2. Ahead(wire, read_pos, n) \in Seq(Nat) /\ Len(Ahead(wire, read_pos, n)) = n
      BY <1>2, <1>3, <3>1, Slice DEF Ahead
    <3>3. value = Turned(kind, Ahead(wire, read_pos, n), order) BY <2>2
    <3>4. value \in Seq(Nat) /\ Len(value) = n BY <3>2, <3>3, TurnedIs, Zenon
    <3>5. read_pos + n \in -1 .. Len(wire) /\ read_pos + n # -1 BY <1>2, <1>3, <3>1
    <3>6. QED BY <2>2, <3>1, <3>3, <3>4, <3>5, Zenon
  <2>3. QED BY <2>1, <2>2, Zenon DEF BS!Get
<1>7. PICK r \in Reads : r = [kind |-> kind, width |-> n, at |-> read_pos, value |-> v]
  <2>1. [kind |-> kind, width |-> n, at |-> read_pos, value |-> v] \in Reads BY <1>3 DEF Reads
  <2>2. QED BY <2>1
<1>8. r.kind = kind /\ r.width = n /\ r.at = read_pos /\ r.value = v BY <1>7
<1>9. /\ reads' = Append(reads, r) BY <1>6, <1>7, Zenon
<1>10. /\ Append(reads, r) \in Seq(Reads) /\ Len(Append(reads, r)) = Len(reads) + 1
       /\ \A i \in 1 .. Len(reads) : Append(reads, r)[i] = reads[i]
       /\ Append(reads, r)[Len(reads) + 1] = r
  BY <1>2, AppendProperties
<1>11. PICK q \in Seq(Reads) : q = Append(reads, r) BY <1>10
<1>12. /\ reads' = q /\ Len(q) = Len(reads) + 1
       /\ \A i \in 1 .. Len(reads) : q[i] = reads[i]
       /\ q[Len(reads) + 1] = r
  BY <1>9, <1>10, <1>11, Zenon
<1>13. ASSUME NEW i \in 1 .. Len(q) PROVE ReadFrom(q[i], wire, order)
  <2>1. CASE i \in 1 .. Len(reads)
    <3>1. ReadFrom(reads[i], wire, order) BY <1>1, <2>1 DEF ReaderKept
    <3>2. q[i] = reads[i] BY <1>12, <2>1
    <3>3. QED BY <3>1, <3>2, Zenon
  <2>2. CASE i = Len(reads) + 1
    <3>1. q[i] = r BY <1>12, <2>2, Zenon
    <3>2. ReadFrom(r, wire, order) BY <1>6, <1>8, Zenon DEF ReadFrom
    <3>3. QED BY <3>1, <3>2, Zenon
  <2>3. QED BY <1>2, <1>12, <2>1, <2>2
<1>14. Chained(q, read_pos')
  <2>1. ASSUME NEW i \in 1 .. Len(q)
        PROVE  q[i].at + Len(q[i].value) = IF i = Len(q) THEN read_pos' ELSE q[i + 1].at
    <3>1. CASE i = Len(reads) + 1
      <4>1. q[i] = r /\ i = Len(q) BY <1>12, <3>1
      <4>2. QED BY <1>6, <1>8, <4>1, Zenon
    <3>2. CASE i \in 1 .. Len(reads)
      <4>1. reads[i].at + Len(reads[i].value) = IF i = Len(reads) THEN read_pos ELSE reads[i + 1].at
        BY <1>1, <3>2, Zenon DEF ReaderKept, Chained
      <4>2. q[i] = reads[i] /\ i # Len(q) BY <1>2, <1>12, <3>2
      <4>3. q[i + 1].at = IF i = Len(reads) THEN read_pos ELSE reads[i + 1].at
        <5>1. CASE i = Len(reads)
          <6>1. q[i + 1] = r BY <1>12, <5>1, Zenon
          <6>2. QED BY <1>8, <5>1, <6>1, Zenon
        <5>2. CASE i # Len(reads)
          <6>1. i + 1 \in 1 .. Len(reads) BY <1>2, <3>2, <5>2
          <6>2. q[i + 1] = reads[i + 1] BY <1>12, <6>1
          <6>3. QED BY <5>2, <6>2, Zenon
        <5>3. QED BY <5>1, <5>2
      <4>4. QED BY <4>1, <4>2, <4>3, Zenon
    <3>3. QED BY <1>2, <1>12, <3>1, <3>2
  <2>2. QED BY <2>1, Zenon DEF Chained
<1>15. ReaderKept'
  <2>1. Len(wire) <= Len(data) /\ (\A i \in 1 .. Len(wire) : wire[i] = data[i])
    BY <1>1 DEF ReaderKept
  <2>2. QED BY <1>4, <1>6, <1>12, <1>13, <1>14, <2>1, Zenon DEF ReaderKept
<1>16. BinaryTyped' BY <1>1, <1>4, <1>6, <1>12, Zenon DEF BinaryTyped
<1>17. QED BY <1>1, <1>4, <1>5, <1>15, <1>16, Zenon DEF BinaryIInv

\* A reader over a copy of the first bytes.
LEMMA OpenReaderKeeps ==
    ASSUME BinaryIInv, NEW n \in Nat, BS!OpenReader(n)
    PROVE  BinaryIInv'
<1>1. BinaryTyped /\ WriterKept /\ ReaderKept /\ overflowed \in BOOLEAN BY DEF BinaryIInv
<1>2. /\ order' = order /\ data' = data /\ overflowed' = overflowed /\ fields' = fields
      /\ reads' = reads
      /\ wire' = SubSeq(data, 1, n) /\ read_pos' = 0 /\ n <= Len(data) /\ read_pos = -1
  BY DEF BS!OpenReader, BS!writer
<1>3. data \in Seq(Nat) BY <1>1 DEF BinaryTyped
<1>4. PICK w \in Seq(Nat) : w = wire' /\ Len(w) = n /\ \A i \in 1 .. n : w[i] = data[i]
  <2>1. /\ SubSeq(data, 1, n) \in Seq(Nat) /\ Len(SubSeq(data, 1, n)) = n
        /\ \A i \in 1 .. n : SubSeq(data, 1, n)[i] = data[i]
    BY <1>2, <1>3, Beginning
  <2>2. QED BY <1>2, <2>1, Zenon
<1>5. reads = << >> BY <1>1, <1>2 DEF ReaderKept
<1>6. WriterKept' BY <1>1, <1>2, Zenon DEF WriterKept
<1>7. 0 \in -1 .. n OBVIOUS
<1>8. BinaryTyped' BY <1>1, <1>2, <1>4, <1>7, Zenon DEF BinaryTyped
<1>9. ReaderKept'
  <2>1. \A i : i \notin 1 .. Len(reads) BY <1>5
  <2>2. (\A i \in 1 .. Len(reads) : ReadFrom(reads[i], wire', order)) /\ Chained(reads, 0)
    BY <2>1, Zenon DEF Chained
  <2>3. Len(w) <= Len(data) /\ \A i \in 1 .. Len(w) : w[i] = data[i] BY <1>2, <1>4, Zenon
  <2>4. QED BY <1>2, <1>4, <1>5, <2>2, <2>3, Zenon DEF ReaderKept
<1>10. QED BY <1>1, <1>2, <1>6, <1>8, <1>9, Zenon DEF BinaryIInv

\* The order is chosen before anything is written.
LEMMA ChooseOrderKeeps ==
    ASSUME BinaryIInv, NEW o \in BS!Endians, BS!ChooseOrder(o)
    PROVE  BinaryIInv'
<1>1. BinaryTyped /\ WriterKept /\ ReaderKept /\ overflowed \in BOOLEAN BY DEF BinaryIInv
<1>2. /\ order' = o /\ data' = data /\ overflowed' = overflowed /\ fields' = fields /\ wire' = wire
      /\ read_pos' = read_pos /\ reads' = reads /\ fields = << >> /\ read_pos = -1
  BY DEF BS!ChooseOrder
<1>3. reads = << >> BY <1>1, <1>2 DEF ReaderKept
<1>4. BinaryTyped' BY <1>1, <1>2, Zenon DEF BinaryTyped
<1>5. WriterKept'
  <2>1. Codes(<< >>, o) = << >> /\ Codes(<< >>, order) = << >> BY DEF Codes
  <2>2. WireOf(fields, o) = WireOf(fields, order) BY <1>2, <2>1, Zenon DEF WireOf
  <2>3. \A n : n \notin 1 .. Len(fields) BY <1>2
  <2>4. Placed(fields, o, data) BY <2>3, Zenon DEF Placed
  <2>5. QED BY <1>1, <1>2, <2>2, <2>4, Zenon DEF WriterKept
<1>6. ReaderKept'
  <2>1. \A i : i \notin 1 .. Len(reads) BY <1>3
  <2>2. \A i \in 1 .. Len(reads) : ReadFrom(reads[i], wire, o) BY <2>1, Zenon
  <2>3. QED BY <1>1, <1>2, <2>2, Zenon DEF ReaderKept
<1>7. QED BY <1>1, <1>2, <1>4, <1>5, <1>6, Zenon DEF BinaryIInv

\* The invariant holds at first ...
LEMMA BinaryInit == BS!Init => BinaryIInv
<1> SUFFICES ASSUME BS!Init PROVE BinaryIInv OBVIOUS
<1>1. /\ order = "little" /\ data = << >> /\ overflowed = FALSE /\ fields = << >> /\ wire = << >>
      /\ read_pos = -1 /\ reads = << >>
  BY DEF BS!Init
<1>2. BinaryTyped
  <2>1. BufferSize \in Nat BY PartsAssumption DEF BS!ConstantsFit
  <2>2. Len(<< >>) = 0 /\ -1 \in -1 .. 0 /\ 0 <= BufferSize BY <2>1
  <2>3. << >> \in Seq(Nat) /\ << >> \in Seq(Fields) /\ << >> \in Seq(Reads) BY EmptySeq
  <2>4. order \in BS!Endians BY <1>1 DEF BS!Endians
  <2>5. QED BY <1>1, <2>2, <2>3, <2>4, Zenon DEF BinaryTyped
<1>3. \A i : i \notin 1 .. Len(<< >>) OBVIOUS
<1>4. WriterKept
  <2>1. Codes(<< >>, order) = << >> BY DEF Codes
  <2>2. WireOf(<< >>, order) = << >>
    <3>1. Len(<< >>) = 0 OBVIOUS
    <3>2. QED BY <2>1, <3>1, Zenon DEF WireOf, BS!FlattenSeq
  <2>3. Placed(<< >>, order, data) /\ ~ Refused(<< >>) BY <1>3, Zenon DEF Placed, Refused
  <2>4. QED BY <1>1, <2>2, <2>3, Zenon DEF WriterKept
<1>5. ReaderKept
  <2>1. Len(<< >>) <= Len(<< >>) OBVIOUS
  <2>2. QED BY <1>1, <1>3, <2>1, Zenon DEF ReaderKept, Chained
<1>6. QED BY <1>1, <1>2, <1>4, <1>5, Zenon DEF BinaryIInv

\* ... and after every step.
LEMMA BinaryStep == BinaryIInv /\ [BS!Next]_BS!vars => BinaryIInv'
<1> SUFFICES ASSUME BinaryIInv, [BS!Next]_BS!vars PROVE BinaryIInv' OBVIOUS
<1>1. BS!ConstantsFit BY PartsAssumption
<1>2. Widths \subseteq Nat /\ BufferSize \in Nat BY <1>1 DEF BS!ConstantsFit
<1>3. order \in BS!Endians /\ wire \in Seq(Nat) /\ read_pos \in -1 .. Len(wire)
  BY DEF BinaryIInv, BinaryTyped
<1>4. "scalar" \in {"scalar", "block"} /\ "block" \in {"scalar", "block"} OBVIOUS
<1>5. \A s : Turned("block", s, order) = s
  <2>1. "block" # "scalar" OBVIOUS
  <2>2. QED BY <2>1, Zenon DEF Turned
<1>6. CASE UNCHANGED BS!vars
  <2>1. /\ order' = order /\ data' = data /\ overflowed' = overflowed /\ fields' = fields
        /\ wire' = wire
        /\ read_pos' = read_pos /\ reads' = reads
    BY <1>6 DEF BS!vars
  <2>2. QED BY <2>1, Zenon DEF BinaryIInv, BinaryTyped, WriterKept, ReaderKept
<1>7. ASSUME NEW o \in BS!Endians, BS!ChooseOrder(o) PROVE BinaryIInv'
  BY <1>7, ChooseOrderKeeps, Zenon
<1>8. ASSUME NEW n \in Widths, NEW native \in BS!Endians, BS!Write(n, native) PROVE BinaryIInv'
  <2>1. n \in Nat BY <1>2
  <2>2. PICK value \in Seq(Nat) : value = BS!NextBytes(n) BY <2>1, NextBytesAre
  <2>3. PICK bytes : bytes = BS!ToWire(BS!HostBytes(value, native), native) OBVIOUS
  <2>4. bytes = Turned("scalar", value, order) BY <1>3, <2>3, HostsAgree, Zenon
  <2>5. BS!Put("scalar", value, bytes) /\ order' = order BY <1>8, <2>2, <2>3, Zenon DEF BS!Write
  <2>6. QED BY <1>1, <1>4, <2>4, <2>5, PutKeeps, Zenon
<1>9. ASSUME NEW n \in Widths, BS!WriteBytes(n) PROVE BinaryIInv'
  <2>1. n \in Nat BY <1>2
  <2>2. PICK value \in Seq(Nat) : value = BS!NextBytes(n) BY <2>1, NextBytesAre
  <2>3. value = Turned("block", value, order) BY <1>5, Zenon
  <2>4. BS!Put("block", value, value) /\ order' = order BY <1>9, <2>2, Zenon DEF BS!WriteBytes
  <2>5. QED BY <1>1, <1>4, <2>3, <2>4, PutKeeps, Zenon
<1>10. ASSUME NEW n \in Widths, NEW native \in BS!Endians, BS!Read(n, native) PROVE BinaryIInv'
  <2>1. n \in Nat BY <1>2
  <2>2. BS!Ahead(n) = Ahead(wire, read_pos, n) BY Zenon DEF BS!Ahead, Ahead
  <2>3. PICK value : value = BS!HostBytes(BS!ToWire(BS!Ahead(n), native), native) OBVIOUS
  <2>4. BS!Get("scalar", n, value) BY <1>10, <2>3, Zenon DEF BS!Read
  <2>5. n <= BS!Remaining => value = Turned("scalar", Ahead(wire, read_pos, n), order)
    <3>1. SUFFICES ASSUME n <= BS!Remaining
                   PROVE  value = Turned("scalar", Ahead(wire, read_pos, n), order)
      OBVIOUS
    <3>2. read_pos \in Nat /\ read_pos + n <= Len(wire)
      <4>1. read_pos >= 0 BY <2>4 DEF BS!Get
      <4>2. Len(wire) \in Nat BY <1>3, LenProperties
      <4>3. QED BY <1>3, <2>1, <3>1, <4>1, <4>2 DEF BS!Remaining
    <3>3. Ahead(wire, read_pos, n) \in Seq(Nat) BY <1>3, <2>1, <3>2, Slice DEF Ahead
    <3>4. QED BY <1>3, <2>2, <2>3, <3>3, HostsAgree, Zenon
  <2>6. QED BY <1>4, <2>1, <2>4, <2>5, GetKeeps, Zenon
<1>11. ASSUME NEW n \in Widths, BS!ReadBytes(n) PROVE BinaryIInv'
  <2>1. n \in Nat BY <1>2
  <2>2. BS!Ahead(n) = Ahead(wire, read_pos, n) BY Zenon DEF BS!Ahead, Ahead
  <2>3. PICK value : value = BS!Ahead(n) OBVIOUS
  <2>4. BS!Get("block", n, value) BY <1>11, <2>3, Zenon DEF BS!ReadBytes
  <2>5. value = Turned("block", Ahead(wire, read_pos, n), order) BY <1>5, <2>2, <2>3, Zenon
  <2>6. QED BY <1>4, <2>1, <2>4, <2>5, GetKeeps, Zenon
<1>12. ASSUME NEW n \in 0 .. BufferSize, BS!OpenReader(n) PROVE BinaryIInv'
  <2>1. n \in Nat BY <1>2
  <2>2. QED BY <1>12, <2>1, OpenReaderKeeps
<1>13. QED BY <1>6, <1>7, <1>8, <1>9, <1>10, <1>11, <1>12, Zenon DEF BS!Next

\* Whatever was written, in either order, on any host, is read back.
THEOREM WrittenIsRead == BS!Spec => []RoundTrip
BY BinaryInit, BinaryStep, BinaryPromise, PTL DEF BS!Spec

-----------------------------------------------------------------------------
(* FlatMap and FlatSet: vectors of pairs, ordered by their first member.   *)

\* Pairs ordered by an integer.
Ranked(E) == \A e \in E : e[1] \in Int

RanksOf(S) == {e[1] : e \in S}

\* What a vector holds.
ElementsOf(s) == {s[i] : i \in 1 .. Len(s)}

Ordered(s) == \A i, j \in 1 .. Len(s) : i < j => s[i][1] < s[j][1]

\* Position i of s is std::lower_bound's answer to k.
IsLower(s, k, i) ==
    /\ i \in 1 .. Len(s) + 1
    /\ \A j \in 1 .. Len(s) : j < i => s[j][1] < k
    /\ i <= Len(s) => ~ (s[i][1] < k)

\* vector::insert of e before position i.
Insertion(s, i, e) ==
    [j \in 1 .. Len(s) + 1 |-> IF j < i THEN s[j] ELSE IF j = i THEN e ELSE s[j - 1]]

\* vector::erase at position i, and the elements of other ranks than k.
Erasure(s, i) == [j \in 1 .. Len(s) - 1 |-> IF j < i THEN s[j] ELSE s[j + 1]]
Without(S, k) == {e \in S : e[1] # k}

\* The elements of l that come before all others of their rank.
FirstAt(l, i) == \A j \in 1 .. Len(l) : j < i => l[j][1] # l[i][1]
Firsts(l) == {l[i] : i \in {i \in 1 .. Len(l) : FirstAt(l, i)}}

\* The least number of a set.
LEMMA MinimumIs ==
    ASSUME NEW T, T \subseteq Nat, T # {}
    PROVE  LET m == CHOOSE x \in T : \A y \in T : x <= y
           IN  m \in T /\ \A y \in T : m <= y
BY Least

\* A member of a vector.
LEMMA HeldIs ==
    ASSUME NEW E, Ranked(E), NEW s \in Seq(E)
    PROVE  /\ Len(s) \in Nat /\ DOMAIN s = 1 .. Len(s)
           /\ \A i \in 1 .. Len(s) : s[i] \in E /\ s[i][1] \in Int /\ s[i] \in ElementsOf(s)
<1>1. Len(s) \in Nat /\ DOMAIN s = 1 .. Len(s) BY LenProperties
<1>2. ASSUME NEW i \in 1 .. Len(s) PROVE s[i] \in E /\ s[i][1] \in Int /\ s[i] \in ElementsOf(s)
  <2>1. s[i] \in E BY ElementOfSeq
  <2>2. QED BY <2>1 DEF Ranked, ElementsOf
<1>3. QED BY <1>1, <1>2

\* What is below and above the lower bound.
LEMMA LowerSplits ==
    ASSUME NEW E, Ranked(E), NEW s \in Seq(E), Ordered(s), NEW k \in Int, NEW i, IsLower(s, k, i)
    PROVE  /\ \A j \in 1 .. Len(s) : j < i <=> s[j][1] < k
           /\ \A j \in 1 .. Len(s) : j > i => k < s[j][1]
           /\ (i <= Len(s) /\ ~ (k < s[i][1])) <=> k \in RanksOf(ElementsOf(s))
           /\ i <= Len(s) /\ ~ (k < s[i][1]) => s[i][1] = k
<1>1. /\ Len(s) \in Nat
      /\ \A j \in 1 .. Len(s) : s[j][1] \in Int /\ s[j] \in ElementsOf(s)
  BY HeldIs
<1>2. /\ i \in 1 .. Len(s) + 1 /\ (\A j \in 1 .. Len(s) : j < i => s[j][1] < k)
      /\ (i <= Len(s) => ~ (s[i][1] < k))
  BY DEF IsLower
<1>3. \A j, m \in 1 .. Len(s) : j < m => s[j][1] < s[m][1] BY DEF Ordered
<1>4. ASSUME NEW j \in 1 .. Len(s) PROVE j < i <=> s[j][1] < k
  <2>1. CASE j < i BY <1>2, <2>1
  <2>2. CASE j = i BY <1>1, <1>2, <2>2
  <2>3. CASE i < j
    <3>1. i \in 1 .. Len(s) BY <1>1, <1>2, <2>3
    <3>2. s[i][1] < s[j][1] /\ ~ (s[i][1] < k) BY <1>2, <1>3, <2>3, <3>1
    <3>3. QED BY <1>1, <1>2, <2>3, <3>1, <3>2
  <2>4. QED BY <1>1, <1>2, <2>1, <2>2, <2>3
<1>5. ASSUME NEW j \in 1 .. Len(s), j > i PROVE k < s[j][1]
  <2>1. i \in 1 .. Len(s) BY <1>1, <1>2, <1>5
  <2>2. s[i][1] < s[j][1] /\ ~ (s[i][1] < k) BY <1>2, <1>3, <1>5, <2>1
  <2>3. QED BY <1>1, <2>1, <2>2
<1>6. ASSUME i <= Len(s), ~ (k < s[i][1]) PROVE s[i][1] = k /\ k \in RanksOf(ElementsOf(s))
  <2>1. i \in 1 .. Len(s) BY <1>1, <1>2, <1>6
  <2>2. s[i][1] = k BY <1>1, <1>2, <1>6, <2>1
  <2>3. QED BY <1>1, <2>1, <2>2 DEF RanksOf
<1>7. ASSUME k \in RanksOf(ElementsOf(s)) PROVE i <= Len(s) /\ ~ (k < s[i][1])
  <2>1. PICK j \in 1 .. Len(s) : s[j][1] = k BY <1>7 DEF RanksOf, ElementsOf
  <2>2. ~ (j < i) BY <1>1, <1>4, <2>1
  <2>3. ~ (j > i) BY <1>1, <1>5, <2>1
  <2>4. j = i BY <1>1, <1>2, <2>2, <2>3
  <2>5. QED BY <1>1, <2>1, <2>4
<1>8. QED BY <1>4, <1>5, <1>6, <1>7

\* vector::insert at the lower bound of an element that is not there.
LEMMA InsertedKeeps ==
    ASSUME NEW E, Ranked(E), NEW s \in Seq(E), Ordered(s), NEW e \in E, NEW i, IsLower(s, e[1], i),
           e[1] \notin RanksOf(ElementsOf(s))
    PROVE  /\ Insertion(s, i, e) \in Seq(E) /\ Ordered(Insertion(s, i, e))
           /\ ElementsOf(Insertion(s, i, e)) = ElementsOf(s) \cup {e}
<1> DEFINE t == Insertion(s, i, e)
<1> HIDE DEF t
<1>1. /\ Len(s) \in Nat
      /\ \A j \in 1 .. Len(s) : s[j] \in E /\ s[j][1] \in Int /\ s[j] \in ElementsOf(s)
  BY HeldIs
<1>2. i \in 1 .. Len(s) + 1 BY DEF IsLower
<1>3. e[1] \in Int BY DEF Ranked
<1>4. /\ \A j \in 1 .. Len(s) : j < i => s[j][1] < e[1]
      /\ \A j \in 1 .. Len(s) : ~ (j < i) => e[1] < s[j][1]
  <2>1. \A j \in 1 .. Len(s) : j < i <=> s[j][1] < e[1] BY <1>3, LowerSplits
  <2>2. \A j \in 1 .. Len(s) : s[j][1] # e[1] BY <1>1 DEF RanksOf
  <2>3. QED BY <1>1, <1>3, <2>1, <2>2
<1>5. /\ \A j \in 1 .. Len(s) : j < i => t[j] = s[j]
      /\ \A j \in 1 .. Len(s) : ~ (j < i) => t[j + 1] = s[j]
      /\ t[i] = e
  BY <1>1, <1>2 DEF t, Insertion
<1>6. \A j \in 1 .. Len(s) + 1 : t[j] \in E BY <1>1, <1>2 DEF t, Insertion
<1>7. t \in Seq(E) /\ Len(t) = Len(s) + 1
  <2>1. t \in [1 .. Len(s) + 1 -> E] BY <1>6 DEF t, Insertion
  <2>2. QED BY <1>1, <2>1
<1>8. Ordered(t)
  <2>1. ASSUME NEW a \in 1 .. Len(s) + 1, NEW b \in 1 .. Len(s) + 1, a < b PROVE t[a][1] < t[b][1]
    <3>1. CASE b < i
      <4>1. a \in 1 .. Len(s) /\ b \in 1 .. Len(s) /\ a < i BY <1>1, <1>2, <2>1, <3>1
      <4>2. t[a] = s[a] /\ t[b] = s[b] BY <1>5, <3>1, <4>1
      <4>3. QED BY <2>1, <4>1, <4>2 DEF Ordered
    <3>2. CASE b = i
      <4>1. a \in 1 .. Len(s) /\ a < i BY <1>1, <1>2, <2>1, <3>2
      <4>2. t[a] = s[a] /\ t[b] = e BY <1>5, <3>2, <4>1
      <4>3. QED BY <1>4, <4>1, <4>2
    <3>3. CASE i < b
      <4>1. PICK d \in 1 .. Len(s) : b = d + 1 /\ ~ (d < i)
        <5>1. b - 1 \in 1 .. Len(s) /\ b = (b - 1) + 1 /\ ~ (b - 1 < i) BY <1>1, <1>2, <3>3
        <5>2. QED BY <5>1
      <4>2. t[b] = s[d] BY <1>5, <4>1
      <4>3. CASE a < i
        <5>1. a \in 1 .. Len(s) /\ a < d BY <1>1, <1>2, <4>1, <4>3
        <5>2. t[a] = s[a] BY <1>5, <4>3, <5>1
        <5>3. QED BY <4>2, <5>1, <5>2 DEF Ordered
      <4>4. CASE a = i BY <1>4, <1>5, <4>1, <4>2, <4>4
      <4>5. CASE i < a
        <5>1. PICK c \in 1 .. Len(s) : a = c + 1 /\ ~ (c < i)
          <6>1. a - 1 \in 1 .. Len(s) /\ a = (a - 1) + 1 /\ ~ (a - 1 < i) BY <1>1, <1>2, <4>5
          <6>2. QED BY <6>1
        <5>2. t[a] = s[c] BY <1>5, <5>1
        <5>3. c < d BY <2>1, <4>1, <5>1
        <5>4. QED BY <4>2, <5>2, <5>3 DEF Ordered
      <4>6. QED BY <1>2, <4>3, <4>4, <4>5
    <3>4. QED BY <1>2, <3>1, <3>2, <3>3
  <2>2. QED BY <1>7, <2>1 DEF Ordered
<1>9. ElementsOf(t) = ElementsOf(s) \cup {e}
  <2>1. ASSUME NEW j \in 1 .. Len(s) + 1 PROVE t[j] \in ElementsOf(s) \cup {e}
    <3>1. CASE j < i
      <4>1. j \in 1 .. Len(s) BY <1>1, <1>2, <3>1
      <4>2. QED BY <1>1, <1>5, <3>1, <4>1
    <3>2. CASE j = i BY <1>5, <3>2
    <3>3. CASE i < j
      <4>1. j - 1 \in 1 .. Len(s) /\ j = (j - 1) + 1 /\ ~ (j - 1 < i) BY <1>1, <1>2, <3>3
      <4>2. t[j] = s[j - 1] BY <1>5, <4>1
      <4>3. QED BY <1>1, <4>1, <4>2
    <3>4. QED BY <1>2, <3>1, <3>2, <3>3
  <2>2. ASSUME NEW j \in 1 .. Len(s) PROVE s[j] \in ElementsOf(t)
    <3>1. CASE j < i
      <4>1. t[j] = s[j] /\ j \in 1 .. Len(t) BY <1>1, <1>5, <1>7, <3>1
      <4>2. QED BY <4>1 DEF ElementsOf
    <3>2. CASE ~ (j < i)
      <4>1. t[j + 1] = s[j] /\ j + 1 \in 1 .. Len(t) BY <1>1, <1>5, <1>7, <3>2
      <4>2. QED BY <4>1 DEF ElementsOf
    <3>3. QED BY <3>1, <3>2
  <2>3. e \in ElementsOf(t) BY <1>2, <1>5, <1>7 DEF ElementsOf
  <2>4. QED BY <1>7, <2>1, <2>2, <2>3 DEF ElementsOf
<1>10. QED BY <1>7, <1>8, <1>9, Zenon DEF t

\* vector::erase of the element at i.
LEMMA ErasedKeeps ==
    ASSUME NEW E, Ranked(E), NEW s \in Seq(E), Ordered(s), NEW i \in 1 .. Len(s)
    PROVE  /\ Erasure(s, i) \in Seq(E) /\ Ordered(Erasure(s, i))
           /\ ElementsOf(Erasure(s, i)) = Without(ElementsOf(s), s[i][1])
<1> DEFINE t == Erasure(s, i)
<1> HIDE DEF t
<1>1. /\ Len(s) \in Nat
      /\ \A j \in 1 .. Len(s) : s[j] \in E /\ s[j][1] \in Int /\ s[j] \in ElementsOf(s)
  BY HeldIs
<1>2. \A j \in 1 .. Len(s) - 1 :
        t[j] \in E /\ (j < i => t[j] = s[j]) /\ (~ (j < i) => t[j] = s[j + 1])
  BY <1>1 DEF t, Erasure
<1>3. t \in Seq(E) /\ Len(t) = Len(s) - 1
  <2>1. t \in [1 .. Len(s) - 1 -> E] /\ Len(s) - 1 \in Nat BY <1>1, <1>2 DEF t, Erasure
  <2>2. QED BY <2>1
<1>4. \A j \in 1 .. Len(s) - 1 : \E m \in 1 .. Len(s) :
          t[j] = s[m] /\ m # i /\ (j < i => m = j) /\ (~ (j < i) => m = j + 1)
  <2>1. ASSUME NEW j \in 1 .. Len(s) - 1
        PROVE  \E m \in 1 .. Len(s) :
                   t[j] = s[m] /\ m # i /\ (j < i => m = j) /\ (~ (j < i) => m = j + 1)
    <3>1. CASE j < i
      <4>1. j \in 1 .. Len(s) /\ j # i /\ t[j] = s[j] BY <1>1, <1>2, <3>1
      <4>2. QED BY <3>1, <4>1, Zenon
    <3>2. CASE ~ (j < i)
      <4>1. j + 1 \in 1 .. Len(s) /\ j + 1 # i /\ t[j] = s[j + 1] BY <1>1, <1>2, <3>2
      <4>2. QED BY <3>2, <4>1, Zenon
    <3>3. QED BY <3>1, <3>2
  <2>2. QED BY <2>1
<1>5. Ordered(t)
  <2>1. ASSUME NEW a \in 1 .. Len(t), NEW b \in 1 .. Len(t), a < b PROVE t[a][1] < t[b][1]
    <3>1. PICK m \in 1 .. Len(s) : t[a] = s[m] /\ (a < i => m = a) /\ (~ (a < i) => m = a + 1)
      BY <1>3, <1>4
    <3>2. PICK n \in 1 .. Len(s) : t[b] = s[n] /\ (b < i => n = b) /\ (~ (b < i) => n = b + 1)
      BY <1>3, <1>4
    <3>3. m < n BY <1>1, <1>3, <2>1, <3>1, <3>2
    <3>4. s[m][1] < s[n][1] BY <3>3 DEF Ordered
    <3>5. QED BY <3>1, <3>2, <3>4
  <2>2. QED BY <2>1 DEF Ordered
<1>6. \A m \in 1 .. Len(s) : s[m][1] = s[i][1] <=> m = i
  <2>1. ASSUME NEW m \in 1 .. Len(s), m # i PROVE s[m][1] # s[i][1]
    <3>1. s[m][1] < s[i][1] \/ s[i][1] < s[m][1] BY <1>1, <2>1 DEF Ordered
    <3>2. QED BY <1>1, <3>1
  <2>2. QED BY <2>1
<1>7. ASSUME NEW m \in 1 .. Len(s), m # i PROVE s[m] \in ElementsOf(t)
  <2>1. CASE m < i
    <3>1. m \in 1 .. Len(t) /\ t[m] = s[m] BY <1>1, <1>2, <1>3, <2>1
    <3>2. QED BY <3>1 DEF ElementsOf
  <2>2. CASE i < m
    <3>1. PICK n \in 1 .. Len(t) : n = m - 1 BY <1>1, <1>3, <2>2
    <3>2. n + 1 = m /\ ~ (n < i) /\ n \in 1 .. Len(s) - 1 BY <1>1, <1>3, <2>2, <3>1
    <3>3. t[n] = s[n + 1] BY <1>2, <3>2, Zenon
    <3>4. t[n] = s[m] BY <3>2, <3>3, Zenon
    <3>5. QED BY <3>4 DEF ElementsOf
  <2>3. QED BY <1>1, <1>7, <2>1, <2>2
<1>8. \A j \in 1 .. Len(t) : \E m \in 1 .. Len(s) : t[j] = s[m] /\ m # i BY <1>3, <1>4
<1>9. ElementsOf(t) = {e \in ElementsOf(s) : e[1] # s[i][1]}
  <2>1. ASSUME NEW j \in 1 .. Len(t) PROVE t[j] \in ElementsOf(s) /\ t[j][1] # s[i][1]
    BY <1>1, <1>6, <1>8
  <2>2. ASSUME NEW m \in 1 .. Len(s), s[m][1] # s[i][1] PROVE s[m] \in ElementsOf(t)
    BY <1>6, <1>7, <2>2
  <2>3. ASSUME NEW e \in ElementsOf(t) PROVE e \in ElementsOf(s) /\ e[1] # s[i][1]
    <3>1. PICK j \in 1 .. Len(t) : e = t[j] BY DEF ElementsOf
    <3>2. QED BY <2>1, <3>1, Zenon
  <2>4. ASSUME NEW e \in ElementsOf(s), e[1] # s[i][1] PROVE e \in ElementsOf(t)
    <3>1. PICK m \in 1 .. Len(s) : e = s[m] BY DEF ElementsOf
    <3>2. QED BY <2>2, <2>4, <3>1, Zenon
  <2>5. QED BY <2>3, <2>4, Zenon
<1>10. QED BY <1>3, <1>5, <1>9, Zenon DEF t, Without

-----------------------------------------------------------------------------
(* Sorting, and keeping the first of each rank.                            *)

\* Ascending, with equal ranks beside each other.
Ascending(s) == \A i, j \in 1 .. Len(s) : i < j => ~ (s[j][1] < s[i][1])

\* A function on the first naturals is a sequence.
LEMMA VectorOf ==
    ASSUME NEW E, NEW n \in Nat, NEW t \in [1 .. n -> E]
    PROVE  t \in Seq(E) /\ Len(t) = n
OBVIOUS

\* Of two integers, one is less than the other or neither is.
LEMMA Asymmetric ==
    ASSUME NEW a \in Int, NEW b \in Int, a < b
    PROVE  ~ (b < a) /\ a # b
OBVIOUS

\* The least position that is not below k.
Lower(s, k) ==
    LET T == {i \in 1 .. Len(s) + 1 : i > Len(s) \/ ~ (s[i][1] < k)}
    IN  CHOOSE x \in T : \A y \in T : x <= y

\* std::lower_bound finds the lower bound.
LEMMA LowerIs ==
    ASSUME NEW E, Ranked(E), NEW s \in Seq(E), NEW k \in Int
    PROVE  IsLower(s, k, Lower(s, k))
<1> DEFINE T == {i \in 1 .. Len(s) + 1 : i > Len(s) \/ ~ (s[i][1] < k)}
           m == CHOOSE x \in T : \A y \in T : x <= y
<1>0. Lower(s, k) = m BY Zenon DEF Lower
<1>1. Len(s) \in Nat BY LenProperties
<1>2. T \subseteq Nat /\ Len(s) + 1 \in T BY <1>1
<1>3. m \in T /\ \A y \in T : m <= y BY <1>2, MinimumIs
<1> HIDE DEF m
<1>4. m \in 1 .. Len(s) + 1 /\ (m <= Len(s) => ~ (s[m][1] < k)) BY <1>1, <1>3
<1>5. ASSUME NEW j \in 1 .. Len(s), j < m PROVE s[j][1] < k
  <2>1. j \notin T BY <1>1, <1>3, <1>4, <1>5
  <2>2. QED BY <1>1, <2>1
<1>6. QED BY <1>4, <1>5, <1>0, Zenon DEF IsLower

\* In an ascending vector an element that differs from the one before is the first of its rank.
LEMMA KeptIsFirst ==
    ASSUME NEW E, Ranked(E), NEW s \in Seq(E), Ascending(s), NEW i \in 1 .. Len(s)
    PROVE  (i = 1 \/ s[i - 1][1] # s[i][1]) <=> FirstAt(s, i)
<1>1. Len(s) \in Nat /\ \A j \in 1 .. Len(s) : s[j][1] \in Int BY HeldIs
<1>2. CASE i = 1 BY <1>1, <1>2 DEF FirstAt
<1>3. CASE i # 1
  <2>1. PICK b \in 1 .. Len(s) : b = i - 1 BY <1>1, <1>3
  <2>2. b < i BY <2>1
  <2>3. ASSUME s[b][1] # s[i][1], NEW j \in 1 .. Len(s), j < i PROVE s[j][1] # s[i][1]
    <3>1. ~ (s[i][1] < s[b][1]) BY <2>2 DEF Ascending
    <3>2. CASE j = b BY <2>3, <3>2
    <3>3. CASE j < b
      <4>1. ~ (s[b][1] < s[j][1]) BY <3>3 DEF Ascending
      <4>2. QED BY <1>1, <2>3, <3>1, <4>1
    <3>4. QED BY <1>1, <2>1, <2>3, <3>2, <3>3
  <2>4. FirstAt(s, i) => s[b][1] # s[i][1] BY <2>2 DEF FirstAt
  <2>5. (s[b][1] # s[i][1]) => FirstAt(s, i) BY <2>3 DEF FirstAt
  <2>6. QED BY <1>3, <2>1, <2>4, <2>5
<1>4. QED BY <1>2, <1>3

\* The positions std::unique keeps.
KeptOf(s) == {i \in 1 .. Len(s) : i = 1 \/ s[i - 1][1] # s[i][1]}

\* The elements of s at the positions q, which has all of T, or grows.
Arranged(s, q) == [n \in DOMAIN q |-> s[q[n]]]
Onto(q, T) == \A i \in T : \E n \in DOMAIN q : q[n] = i
Increasing(q) == \A m, n \in DOMAIN q : m < n => q[m] < q[n]

\* std::unique on an ascending vector: one element of each rank, the first.
LEMMA UniqueKeeps ==
    ASSUME NEW E, Ranked(E), NEW s \in Seq(E), Ascending(s), NEW count \in Nat,
           NEW q \in [1 .. count -> KeptOf(s)], Onto(q, KeptOf(s)), Increasing(q)
    PROVE  /\ Arranged(s, q) \in Seq(E) /\ Ordered(Arranged(s, q))
           /\ ElementsOf(Arranged(s, q)) = Firsts(s)
<1> DEFINE t == Arranged(s, q)
           kept == KeptOf(s)
<1> HIDE DEF t, kept
<1>0. /\ q \in [1 .. count -> kept] /\ DOMAIN q = 1 .. count
      /\ \A i \in kept : \E n \in 1 .. count : q[n] = i
      /\ \A m, n \in 1 .. count : m < n => q[m] < q[n]
      /\ t = [n \in 1 .. count |-> s[q[n]]]
  BY DEF Onto, Increasing, Arranged, t, kept
<1>1. Len(s) \in Nat /\ \A j \in 1 .. Len(s) : s[j] \in E /\ s[j][1] \in Int BY HeldIs
<1>2. \A i : i \in kept <=> i \in 1 .. Len(s) /\ FirstAt(s, i)
  <2>1. \A i \in 1 .. Len(s) : (i = 1 \/ s[i - 1][1] # s[i][1]) <=> FirstAt(s, i) BY KeptIsFirst
  <2>2. QED BY <2>1 DEF KeptOf, kept
<1>3. \A n \in 1 .. count : q[n] \in 1 .. Len(s) /\ FirstAt(s, q[n]) /\ t[n] = s[q[n]] BY <1>0, <1>2
<1>4. t \in Seq(E) /\ Len(t) = count
  <2>1. t \in [1 .. count -> E] BY <1>0, <1>1, <1>3
  <2>2. QED BY <2>1, VectorOf, Zenon
<1>5. Ordered(t)
  <2>1. ASSUME NEW m \in 1 .. count, NEW n \in 1 .. count, m < n PROVE t[m][1] < t[n][1]
    <3>1. PICK a \in 1 .. Len(s), b \in 1 .. Len(s) : a = q[m] /\ b = q[n] BY <1>3
    <3>2. a < b BY <1>0, <2>1, <3>1
    <3>3. s[a][1] # s[b][1]
      <4>1. FirstAt(s, b) BY <1>3, <3>1
      <4>2. QED BY <3>2, <4>1 DEF FirstAt
    <3>4. ~ (s[b][1] < s[a][1]) BY <3>2 DEF Ascending
    <3>5. s[a][1] < s[b][1] BY <1>1, <3>3, <3>4
    <3>6. t[m] = s[a] /\ t[n] = s[b] BY <1>3, <3>1
    <3>7. QED BY <3>5, <3>6, Zenon
  <2>2. QED BY <1>4, <2>1, Zenon DEF Ordered
<1>6. ASSUME NEW e \in ElementsOf(t) PROVE e \in Firsts(s)
  <2>1. PICK n \in 1 .. count : e = t[n] BY <1>4 DEF ElementsOf
  <2>2. QED BY <1>3, <2>1 DEF Firsts
<1>7. ASSUME NEW e \in Firsts(s) PROVE e \in ElementsOf(t)
  <2>1. PICK i \in 1 .. Len(s) : FirstAt(s, i) /\ e = s[i] BY DEF Firsts
  <2>2. PICK n \in 1 .. count : q[n] = i BY <1>0, <1>2, <2>1
  <2>3. e = t[n] BY <1>3, <2>1, <2>2, Zenon
  <2>4. QED BY <1>4, <2>3 DEF ElementsOf
<1>8. QED BY <1>4, <1>5, <1>6, <1>7, Zenon DEF t

\* An arrangement of l holds what l does.
LEMMA ArrangedIs ==
    ASSUME NEW E, Ranked(E), NEW l \in Seq(E), NEW p \in [1 .. Len(l) -> 1 .. Len(l)],
           Onto(p, 1 .. Len(l))
    PROVE  /\ Arranged(l, p) \in Seq(E) /\ Len(Arranged(l, p)) = Len(l)
           /\ ElementsOf(Arranged(l, p)) = ElementsOf(l)
           /\ \A i \in 1 .. Len(l) : Arranged(l, p)[i] = l[p[i]]
<1> DEFINE s == Arranged(l, p)
<1> HIDE DEF s
<1>0. /\ s = [i \in 1 .. Len(l) |-> l[p[i]]]
      /\ \A m \in 1 .. Len(l) : \E i \in 1 .. Len(l) : p[i] = m
  BY DEF s, Arranged, Onto
<1>1. Len(l) \in Nat /\ \A i \in 1 .. Len(l) : l[i] \in E BY HeldIs
<1>2. \A i \in 1 .. Len(l) : s[i] = l[p[i]] /\ p[i] \in 1 .. Len(l) /\ s[i] \in E BY <1>0, <1>1
<1>3. s \in Seq(E) /\ Len(s) = Len(l)
  <2>1. s \in [1 .. Len(l) -> E] BY <1>0, <1>2
  <2>2. QED BY <1>1, <2>1
<1>4. ASSUME NEW e \in ElementsOf(s) PROVE e \in ElementsOf(l)
  <2>1. PICK i \in 1 .. Len(l) : e = s[i] BY <1>3 DEF ElementsOf
  <2>2. QED BY <1>2, <2>1 DEF ElementsOf
<1>5. ASSUME NEW e \in ElementsOf(l) PROVE e \in ElementsOf(s)
  <2>1. PICK m \in 1 .. Len(l) : e = l[m] BY DEF ElementsOf
  <2>2. PICK i \in 1 .. Len(l) : p[i] = m BY <1>0
  <2>3. e = s[i] BY <1>2, <2>1, <2>2, Zenon
  <2>4. QED BY <1>3, <2>3 DEF ElementsOf
<1>6. QED BY <1>2, <1>3, <1>4, <1>5, Zenon DEF s

\* std::stable_sort keeps the first of each rank first.
LEMMA StableFirsts ==
    ASSUME NEW E, Ranked(E), NEW l \in Seq(E), NEW p \in [1 .. Len(l) -> 1 .. Len(l)],
           Onto(p, 1 .. Len(l)),
           \A i, j \in 1 .. Len(l) : i < j =>
               \/ l[p[i]][1] < l[p[j]][1]
               \/ l[p[i]][1] = l[p[j]][1] /\ p[i] < p[j],
           NEW s, s = Arranged(l, p)
    PROVE  Ascending(s) /\ Firsts(s) = Firsts(l)
<1>0. \A m \in 1 .. Len(l) : \E i \in 1 .. Len(l) : p[i] = m BY DEF Onto
<1>1. /\ Len(s) = Len(l) /\ Len(l) \in Nat /\ \A i \in 1 .. Len(l) : s[i] = l[p[i]]
      /\ \A i \in 1 .. Len(l) : p[i] \in 1 .. Len(l) /\ l[i][1] \in Int
  BY HeldIs, ArrangedIs
<1>2. Ascending(s)
  <2>1. ASSUME NEW i \in 1 .. Len(s), NEW j \in 1 .. Len(s), i < j PROVE ~ (s[j][1] < s[i][1])
    <3>1. s[i] = l[p[i]] /\ s[j] = l[p[j]] /\ l[p[i]][1] \in Int /\ l[p[j]][1] \in Int BY <1>1
    <3>2. l[p[i]][1] < l[p[j]][1] \/ l[p[i]][1] = l[p[j]][1] BY <1>1, <2>1
    <3>3. PICK a \in Int, b \in Int : a = l[p[i]][1] /\ b = l[p[j]][1] BY <3>1
    <3>4. ~ (b < a)
      <4>1. a < b \/ a = b BY <3>2, <3>3, Zenon
      <4>2. \A x \in Int : ~ (x < x) OBVIOUS
      <4>3. QED BY <4>1, <4>2, Asymmetric, Zenon
    <3>5. QED BY <3>1, <3>3, <3>4, Zenon
  <2>2. QED BY <2>1 DEF Ascending
<1>3. ASSUME NEW e \in Firsts(s) PROVE e \in Firsts(l)
  <2>1. PICK i \in 1 .. Len(l) : FirstAt(s, i) /\ e = s[i] BY <1>1 DEF Firsts
  <2>2. PICK n \in 1 .. Len(l) : n = p[i] BY <1>1
  <2>3. e = l[n] BY <1>1, <2>1, <2>2, Zenon
  <2>4. ASSUME NEW m \in 1 .. Len(l), m < n, l[m][1] = l[n][1] PROVE FALSE
    <3>1. PICK j \in 1 .. Len(l) : p[j] = m BY <1>0
    <3>2. s[j] = l[m] /\ s[i] = l[n] BY <1>1, <2>2, <3>1
    <3>3. ~ (j < i)
      <4>1. s[j][1] = s[i][1] BY <2>4, <3>2, Zenon
      <4>2. QED BY <1>1, <2>1, <4>1 DEF FirstAt
    <3>4. CASE j = i BY <2>2, <2>4, <3>1, <3>4
    <3>5. CASE i < j
      <4>1. \/ l[n][1] < l[m][1]
            \/ l[n][1] = l[m][1] /\ n < m
        BY <2>2, <3>1, <3>5
      <4>2. l[n][1] \in Int /\ n \in Int /\ m \in Int BY <1>1
      <4>3. QED BY <2>4, <4>1, <4>2, Asymmetric, Zenon
    <3>6. QED BY <3>3, <3>4, <3>5
  <2>5. FirstAt(l, n) BY <2>4 DEF FirstAt
  <2>6. QED BY <2>3, <2>5 DEF Firsts
<1>4. ASSUME NEW e \in Firsts(l) PROVE e \in Firsts(s)
  <2>1. PICK n \in 1 .. Len(l) : FirstAt(l, n) /\ e = l[n] BY DEF Firsts
  <2>2. PICK i \in 1 .. Len(l) : p[i] = n BY <1>0
  <2>3. e = s[i] BY <1>1, <2>1, <2>2, Zenon
  <2>4. ASSUME NEW j \in 1 .. Len(l), j < i, s[j][1] = s[i][1] PROVE FALSE
    <3>1. PICK m \in 1 .. Len(l) : m = p[j] BY <1>1
    <3>2. s[j] = l[m] /\ s[i] = l[n] BY <1>1, <2>2, <3>1
    <3>3. l[m][1] = l[n][1] BY <2>4, <3>2, Zenon
    <3>4. \/ l[m][1] < l[n][1]
          \/ l[m][1] = l[n][1] /\ m < n
      BY <2>2, <2>4, <3>1
    <3>5. m < n
      <4>1. l[n][1] \in Int BY <1>1
      <4>2. QED BY <3>3, <3>4, <4>1, Asymmetric, Zenon
    <3>6. QED BY <2>1, <3>3, <3>5 DEF FirstAt
  <2>5. FirstAt(s, i) BY <1>1, <2>4 DEF FirstAt
  <2>6. QED BY <1>1, <2>3, <2>5 DEF Firsts
<1>5. QED BY <1>2, <1>3, <1>4, Zenon

\* The first elements have all the ranks there are.
LEMMA FirstsRanks ==
    ASSUME NEW E, Ranked(E), NEW l \in Seq(E)
    PROVE  Firsts(l) \subseteq ElementsOf(l) /\ RanksOf(Firsts(l)) = RanksOf(ElementsOf(l))
<1>1. Len(l) \in Nat BY HeldIs
<1>2. Firsts(l) \subseteq ElementsOf(l) BY DEF Firsts, ElementsOf
<1>3. ASSUME NEW k \in RanksOf(ElementsOf(l)) PROVE k \in RanksOf(Firsts(l))
  <2> DEFINE T == {i \in 1 .. Len(l) : l[i][1] = k}
  <2>1. T \subseteq Nat /\ T # {} BY <1>1 DEF RanksOf, ElementsOf
  <2>2. PICK m \in T : \A n \in T : m <= n BY <2>1, Least
  <2>3. FirstAt(l, m) BY <1>1, <2>2 DEF FirstAt
  <2>4. l[m] \in Firsts(l) BY <2>3 DEF Firsts
  <2>5. QED BY <2>2, <2>4 DEF RanksOf
<1>4. QED BY <1>2, <1>3 DEF RanksOf

\* One element more is a first of its rank, or changes nothing.
LEMMA FirstsAppend ==
    ASSUME NEW E, Ranked(E), NEW l \in Seq(E), NEW e \in E
    PROVE  Firsts(Append(l, e)) = IF e[1] \in RanksOf(ElementsOf(l)) THEN Firsts(l)
                                  ELSE Firsts(l) \cup {e}
<1>1. Len(l) \in Nat BY HeldIs
<1>2. /\ Append(l, e) \in Seq(E) /\ Len(Append(l, e)) = Len(l) + 1
      /\ \A i \in 1 .. Len(l) : Append(l, e)[i] = l[i]
      /\ Append(l, e)[Len(l) + 1] = e
  BY AppendProperties
<1>3. PICK g : g = Append(l, e) OBVIOUS
<1>4. /\ Len(g) = Len(l) + 1 /\ g[Len(l) + 1] = e
      /\ \A i \in 1 .. Len(l) : g[i] = l[i]
  BY <1>2, <1>3, Zenon
<1>5. ASSUME NEW i \in 1 .. Len(l) PROVE FirstAt(g, i) <=> FirstAt(l, i)
  <2>1. \A j : j < i => (j \in 1 .. Len(g) <=> j \in 1 .. Len(l)) BY <1>1, <1>4
  <2>2. g[i] = l[i] /\ \A j \in 1 .. Len(l) : g[j] = l[j] BY <1>4
  <2>3. QED BY <2>1, <2>2, Zenon DEF FirstAt
<1>6. FirstAt(g, Len(l) + 1) <=> e[1] \notin RanksOf(ElementsOf(l))
  <2>1. \A j \in 1 .. Len(l) : j \in 1 .. Len(g) /\ j < Len(l) + 1 BY <1>1, <1>4
  <2>2. \A j \in 1 .. Len(g) : j < Len(l) + 1 => j \in 1 .. Len(l) BY <1>1, <1>4
  <2>3. e[1] \in RanksOf(ElementsOf(l)) <=> \E j \in 1 .. Len(l) : l[j][1] = e[1]
    BY Zenon DEF RanksOf, ElementsOf
  <2>4. QED BY <1>4, <2>1, <2>2, <2>3, Zenon DEF FirstAt
<1>7. \A i : i \in 1 .. Len(g) <=> i \in 1 .. Len(l) \/ i = Len(l) + 1 BY <1>1, <1>4
<1>8. ASSUME NEW x PROVE x \in Firsts(g) <=> x \in Firsts(l) \/ (x = e /\ FirstAt(g, Len(l) + 1))
  <2>1. x \in Firsts(g) <=> \E i \in 1 .. Len(g) : FirstAt(g, i) /\ x = g[i] BY Zenon DEF Firsts
  <2>2. x \in Firsts(l) <=> \E i \in 1 .. Len(l) : FirstAt(l, i) /\ x = l[i] BY Zenon DEF Firsts
  <2>3. QED BY <1>4, <1>5, <1>7, <2>1, <2>2, Zenon
<1>9. QED BY <1>3, <1>6, <1>8

-----------------------------------------------------------------------------
(* The map a set of entries stands for.                                    *)

OneEach(S) == \A e, f \in S : e[1] = f[1] => e = f

MapOf(S) == [k \in RanksOf(S) |-> (CHOOSE e \in S : e[1] = k)[2]]

\* A map with k set to v, and one without k.
Setting(map, k, v) == [j \in DOMAIN map \cup {k} |-> IF j = k THEN v ELSE map[j]]
Dropping(map, k) == [j \in DOMAIN map \ {k} |-> map[j]]

\* A function on D.
FunctionOn(g, D) == g = [k \in D |-> g[k]]

\* An entry is what its key maps to.
LEMMA MapIs ==
    ASSUME NEW S, OneEach(S), NEW e \in S
    PROVE  e[1] \in RanksOf(S) /\ MapOf(S)[e[1]] = e[2]
<1>1. e[1] \in RanksOf(S) BY Zenon DEF RanksOf
<1>2. (CHOOSE f \in S : f[1] = e[1]) = e
  <2>1. PICK g : g = CHOOSE f \in S : f[1] = e[1] OBVIOUS
  <2>2. g \in S /\ g[1] = e[1] BY <2>1, Zenon
  <2>3. QED BY <2>1, <2>2, Zenon DEF OneEach
<1>3. MapOf(S)[e[1]] = (CHOOSE f \in S : f[1] = e[1])[2] BY <1>1, Zenon DEF MapOf
<1>4. QED BY <1>1, <1>2, <1>3, Zenon

\* The map is the function on the keys that has the entries.
LEMMA MapEqual ==
    ASSUME NEW S, OneEach(S), NEW g, FunctionOn(g, RanksOf(S)),
           \A e \in S : g[e[1]] = e[2]
    PROVE  MapOf(S) = g
<1>1. ASSUME NEW k \in RanksOf(S) PROVE MapOf(S)[k] = g[k]
  <2>1. PICK e \in S : e[1] = k BY DEF RanksOf
  <2>2. QED BY <2>1, MapIs, Zenon
<1>2. MapOf(S) = [k \in RanksOf(S) |-> MapOf(S)[k]] BY DEF MapOf
<1>3. QED BY <1>1, <1>2, Zenon DEF FunctionOn

\* An entry of key k in place of any other.
LEMMA MapSets ==
    ASSUME NEW S, OneEach(S), NEW k, NEW v, NEW T,
           T = {e \in S : e[1] # k} \cup {<<k, v>>}
    PROVE  MapOf(T) = Setting(MapOf(S), k, v)
<1>1. OneEach(T)
  <2>1. ASSUME NEW e \in T, NEW f \in T, e[1] = f[1] PROVE e = f
    <3>1. CASE e[1] = k BY <2>1, <3>1
    <3>2. CASE e[1] # k
      <4>1. e \in S /\ f \in S BY <2>1, <3>2
      <4>2. QED BY <2>1, <4>1 DEF OneEach
    <3>3. QED BY <3>1, <3>2
  <2>2. QED BY <2>1 DEF OneEach
<1>2. DOMAIN MapOf(S) = RanksOf(S) BY Zenon DEF MapOf
<1>3. PICK g : g = Setting(MapOf(S), k, v) OBVIOUS
<1>4. /\ DOMAIN g = RanksOf(S) \cup {k} /\ g[k] = v
      /\ \A j \in RanksOf(S) : j # k => g[j] = MapOf(S)[j]
      /\ g = [j \in RanksOf(S) \cup {k} |-> g[j]]
  BY <1>2, <1>3 DEF Setting
<1>5. RanksOf(T) = RanksOf(S) \cup {k}
  <2>1. ASSUME NEW j \in RanksOf(T) PROVE j \in RanksOf(S) \cup {k} BY DEF RanksOf
  <2>2. ASSUME NEW j \in RanksOf(S), j # k PROVE j \in RanksOf(T) BY <2>2 DEF RanksOf
  <2>3. <<k, v>> \in T /\ <<k, v>>[1] = k OBVIOUS
  <2>4. k \in RanksOf(T) BY <2>3, Zenon DEF RanksOf
  <2>5. QED BY <2>1, <2>2, <2>4, Zenon
<1>6. ASSUME NEW e \in T PROVE g[e[1]] = e[2]
  <2>1. CASE e = <<k, v>> BY <1>4, <2>1
  <2>2. CASE e \in S /\ e[1] # k
    <3>1. e[1] \in RanksOf(S) /\ MapOf(S)[e[1]] = e[2] BY <2>2, MapIs, Zenon
    <3>2. QED BY <1>4, <2>2, <3>1
  <2>3. QED BY <2>1, <2>2
<1>7. FunctionOn(g, RanksOf(T)) BY <1>4, <1>5, Zenon DEF FunctionOn
<1>8. \A e \in T : g[e[1]] = e[2] BY <1>6
<1>9. MapOf(T) = g BY <1>1, <1>7, <1>8, MapEqual, Zenon
<1>10. QED BY <1>3, <1>9, Zenon

\* No entry of key k.
LEMMA MapDrops ==
    ASSUME NEW S, OneEach(S), NEW k, NEW T, T = {e \in S : e[1] # k}
    PROVE  MapOf(T) = Dropping(MapOf(S), k)
<1>1. OneEach(T) BY DEF OneEach
<1>2. DOMAIN MapOf(S) = RanksOf(S) BY Zenon DEF MapOf
<1>3. PICK g : g = Dropping(MapOf(S), k) OBVIOUS
<1>4. /\ DOMAIN g = RanksOf(S) \ {k} /\ \A j \in RanksOf(S) \ {k} : g[j] = MapOf(S)[j]
      /\ g = [j \in RanksOf(S) \ {k} |-> g[j]]
  BY <1>2, <1>3 DEF Dropping
<1>5. RanksOf(T) = RanksOf(S) \ {k} BY DEF RanksOf
<1>6. ASSUME NEW e \in T PROVE g[e[1]] = e[2]
  <2>1. e[1] \in RanksOf(S) /\ MapOf(S)[e[1]] = e[2] BY MapIs
  <2>2. QED BY <1>4, <2>1
<1>7. FunctionOn(g, RanksOf(T)) BY <1>4, <1>5, Zenon DEF FunctionOn
<1>8. \A e \in T : g[e[1]] = e[2] BY <1>6
<1>9. MapOf(T) = g BY <1>1, <1>7, <1>8, MapEqual, Zenon
<1>10. QED BY <1>3, <1>9, Zenon

\* No entries are the empty map.
LEMMA MapEmpty == MapOf({}) = <<>>
BY DEF MapOf, RanksOf

\* An ordered vector has one element of each rank.
LEMMA OrderedOnce ==
    ASSUME NEW E, Ranked(E), NEW s \in Seq(E), Ordered(s)
    PROVE  OneEach(ElementsOf(s))
<1>1. ASSUME NEW i \in 1 .. Len(s), NEW j \in 1 .. Len(s), s[i][1] = s[j][1] PROVE i = j
  <2>1. Len(s) \in Nat /\ s[i][1] \in Int /\ s[j][1] \in Int BY HeldIs
  <2>2. QED BY <1>1, <2>1 DEF Ordered
<1>2. QED BY <1>1 DEF OneEach, ElementsOf

SameRank(e, f) == e[1] = f[1]
Adding(S, e) == S \cup {e}

\* Writing e at i.
Replacing(s, i, e) == [s EXCEPT ![i] = e]

\* Writing another element of the same rank at i.
LEMMA Replaced ==
    ASSUME NEW E, Ranked(E), NEW s \in Seq(E), Ordered(s), NEW i \in 1 .. Len(s),
           NEW e \in E, SameRank(e, s[i])
    PROVE  /\ Replacing(s, i, e) \in Seq(E) /\ Ordered(Replacing(s, i, e))
           /\ ElementsOf(Replacing(s, i, e)) = Adding(Without(ElementsOf(s), s[i][1]), e)
<1> DEFINE t == Replacing(s, i, e)
<1> HIDE DEF t
<1>0. e[1] = s[i][1] BY Zenon DEF SameRank
<1>1. /\ Len(s) \in Nat /\ DOMAIN s = 1 .. Len(s)
      /\ \A j \in 1 .. Len(s) : s[j] \in E /\ s[j][1] \in Int /\ s[j] \in ElementsOf(s)
  BY HeldIs
<1>2. /\ DOMAIN t = 1 .. Len(s) /\ t[i] = e
      /\ \A j \in 1 .. Len(s) : j # i => t[j] = s[j]
      /\ t = [j \in 1 .. Len(s) |-> t[j]]
  BY <1>1, Zenon DEF t, Replacing
<1>3. t \in Seq(E) /\ Len(t) = Len(s)
  <2>1. \A j \in 1 .. Len(s) : t[j] \in E BY <1>1, <1>2, Zenon
  <2>2. t \in [1 .. Len(s) -> E] BY <1>2, <2>1, Zenon
  <2>3. QED BY <1>1, <2>2, VectorOf, Zenon
<1>4. \A j \in 1 .. Len(s) : t[j][1] = s[j][1] BY <1>0, <1>2, Zenon
<1>5. Ordered(t)
  <2>1. \A m, n \in 1 .. Len(s) : m < n => t[m][1] < t[n][1] BY <1>4, Zenon DEF Ordered
  <2>2. QED BY <1>3, <2>1, Zenon DEF Ordered
<1>6. \A j \in 1 .. Len(s) : s[j][1] = e[1] => j = i
  <2>1. ASSUME NEW j \in 1 .. Len(s), s[j][1] = s[i][1] PROVE j = i
    BY <1>1, <2>1 DEF Ordered
  <2>2. QED BY <1>0, <2>1
<1>7. ASSUME NEW x \in ElementsOf(t) PROVE x \in Without(ElementsOf(s), s[i][1]) \cup {e}
  <2>1. PICK j \in 1 .. Len(s) : x = t[j] BY <1>3 DEF ElementsOf
  <2>2. CASE j = i BY <1>2, <2>1, <2>2
  <2>3. CASE j # i
    <3>1. x = s[j] /\ s[j] \in ElementsOf(s) BY <1>1, <1>2, <2>1, <2>3, Zenon
    <3>2. QED BY <1>0, <1>6, <2>3, <3>1, Zenon DEF Without
  <2>4. QED BY <2>2, <2>3
<1>8. ASSUME NEW x \in Without(ElementsOf(s), s[i][1]) \cup {e} PROVE x \in ElementsOf(t)
  <2>1. CASE x = e BY <1>2, <1>3, <2>1, Zenon DEF ElementsOf
  <2>2. CASE x \in ElementsOf(s) /\ x[1] # s[i][1]
    <3>1. PICK j \in 1 .. Len(s) : x = s[j] BY <2>2 DEF ElementsOf
    <3>2. j # i BY <2>2, <3>1, Zenon
    <3>3. x = t[j] BY <1>2, <3>1, <3>2, Zenon
    <3>4. QED BY <1>3, <3>3, Zenon DEF ElementsOf
  <2>3. QED BY <2>1, <2>2, Zenon DEF Without
<1>9. QED BY <1>3, <1>5, <1>7, <1>8, Zenon DEF t, Adding

-----------------------------------------------------------------------------
(* FlatMap.                                                                *)

\* What the vector holds: operator[] inserts the value 0 first.
MapPairs == Keys \X (MappedValues \cup {0})

\* Keys are numbers.
LEMMA MapRanked ==
    /\ Ranked(MapPairs) /\ Seq(FM!Entries) \subseteq Seq(MapPairs)
    /\ \A k \in Keys, v \in MappedValues : <<k, v>> \in MapPairs /\ <<k, 0>> \in MapPairs
    /\ \A e \in MapPairs : e[1] \in Keys /\ e = <<e[1], e[2]>>
    /\ \A k \in Keys : k \in Int
<1>1. \A e \in MapPairs : e[1] \in Keys /\ e = <<e[1], e[2]>> BY DEF MapPairs
<1>2. \A k \in Keys : k \in Int BY PartsAssumption DEF FM!ConstantsFit
<1>3. Ranked(MapPairs) BY <1>1, <1>2, Zenon DEF Ranked
<1>4. FM!Entries \subseteq MapPairs BY DEF FM!Entries, MapPairs
<1>5. \A k \in Keys, v \in MappedValues : <<k, v>> \in MapPairs /\ <<k, 0>> \in MapPairs
  BY DEF MapPairs
<1>6. Seq(FM!Entries) \subseteq Seq(MapPairs) BY <1>4
<1>7. QED BY <1>1, <1>2, <1>3, <1>5, <1>6, Zenon

\* The entries are ordered by key.
LEMMA MapPairsRanked == Ranked(MapPairs)
BY MapRanked, Zenon

\* std::lower_bound.
LEMMA MapLower ==
    ASSUME NEW s \in Seq(MapPairs), NEW k \in Int
    PROVE  IsLower(s, k, FM!LowerBound(s, k))
<1>1. IsLower(s, k, Lower(s, k)) BY MapPairsRanked, LowerIs, Zenon
<1>2. FM!LowerBound(s, k) = Lower(s, k) BY Zenon DEF FM!LowerBound, FM!Min, FM!Key, Lower
<1>3. QED BY <1>1, <1>2, Zenon

\* locate() and find().
LEMMA MapFound ==
    ASSUME NEW s \in Seq(MapPairs), Ordered(s), NEW k \in Int
    PROVE  /\ FM!Found(s, k) <=> k \in RanksOf(ElementsOf(s))
           /\ k \in RanksOf(ElementsOf(s)) =>
                 /\ FM!Locate(s, k) = FM!LowerBound(s, k)
                 /\ FM!LowerBound(s, k) \in 1 .. Len(s)
                 /\ s[FM!LowerBound(s, k)][1] = k
<1>1. PICK i : i = FM!LowerBound(s, k) OBVIOUS
<1>2. IsLower(s, k, i) BY <1>1, MapLower, Zenon
<1>3. /\ (i <= Len(s) /\ ~ (k < s[i][1])) <=> k \in RanksOf(ElementsOf(s))
      /\ i <= Len(s) /\ ~ (k < s[i][1]) => s[i][1] = k
  BY <1>2, MapPairsRanked, LowerSplits, Zenon
<1>4. Len(s) \in Nat /\ i \in 1 .. Len(s) + 1 BY <1>2, LenProperties DEF IsLower
<1>5. FM!Locate(s, k) = IF i <= Len(s) /\ ~ (k < s[i][1]) THEN i ELSE Len(s) + 1
  BY <1>1, Zenon DEF FM!Locate, FM!Key
<1>6. CASE k \in RanksOf(ElementsOf(s))
  <2>1. FM!Locate(s, k) = i BY <1>3, <1>5, <1>6, Zenon
  <2>2. i \in 1 .. Len(s) /\ s[i][1] = k BY <1>3, <1>4, <1>6
  <2>3. i <= Len(s) BY <1>3, <1>6, Zenon
  <2>4. QED BY <1>1, <1>6, <2>1, <2>2, <2>3, Zenon DEF FM!Found
<1>7. CASE k \notin RanksOf(ElementsOf(s))
  <2>1. FM!Locate(s, k) = Len(s) + 1 BY <1>3, <1>5, <1>7, Zenon
  <2>2. ~ (Len(s) + 1 <= Len(s)) BY <1>4
  <2>3. QED BY <1>7, <2>1, <2>2, Zenon DEF FM!Found
<1>8. QED BY <1>6, <1>7, Zenon

\* insert_impl().
LEMMA MapInserts ==
    ASSUME NEW s \in Seq(MapPairs), Ordered(s), NEW e \in MapPairs, NEW t, t = FM!InsertImpl(s, e)
    PROVE  /\ t \in Seq(MapPairs) /\ Ordered(t)
           /\ ElementsOf(t) = IF e[1] \in RanksOf(ElementsOf(s)) THEN ElementsOf(s)
                              ELSE ElementsOf(s) \cup {e}
<1>1. e[1] \in Int BY MapRanked
<1>2. PICK i : i = FM!LowerBound(s, e[1]) OBVIOUS
<1>3. IsLower(s, e[1], i) BY <1>1, <1>2, MapLower, Zenon
<1>4. FM!Found(s, e[1]) <=> e[1] \in RanksOf(ElementsOf(s)) BY <1>1, MapFound, Zenon
<1>5. t = IF FM!Found(s, e[1]) THEN s ELSE FM!Inserted(s, i, e)
  BY <1>2, Zenon DEF FM!InsertImpl, FM!Key
<1>6. CASE e[1] \in RanksOf(ElementsOf(s)) BY <1>4, <1>5, <1>6, Zenon
<1>7. CASE e[1] \notin RanksOf(ElementsOf(s))
  <2>1. t = FM!Inserted(s, i, e) BY <1>4, <1>5, <1>7, Zenon
  <2>2. t = Insertion(s, i, e) BY <2>1, Zenon DEF FM!Inserted, Insertion
  <2>3. /\ Insertion(s, i, e) \in Seq(MapPairs) /\ Ordered(Insertion(s, i, e))
        /\ ElementsOf(Insertion(s, i, e)) = ElementsOf(s) \cup {e}
    BY <1>3, <1>7, MapPairsRanked, InsertedKeeps
  <2>4. QED BY <1>7, <2>2, <2>3, Zenon
<1>8. QED BY <1>6, <1>7, Zenon

\* vector::erase.
LEMMA MapErases ==
    ASSUME NEW s \in Seq(MapPairs), Ordered(s), NEW i \in 1 .. Len(s), NEW t, t = FM!Erased(s, i)
    PROVE  /\ t \in Seq(MapPairs) /\ Ordered(t)
           /\ ElementsOf(t) = Without(ElementsOf(s), s[i][1])
<1>1. t = Erasure(s, i) BY Zenon DEF FM!Erased, Erasure
<1>2. QED BY <1>1, MapPairsRanked, ErasedKeeps, Zenon

\* What the model's Range is.
LEMMA MapRange ==
    ASSUME NEW s \in Seq(MapPairs)
    PROVE  FM!Range(s) = ElementsOf(s) /\ DOMAIN s = 1 .. Len(s)
<1>1. DOMAIN s = 1 .. Len(s) BY LenProperties
<1>2. QED BY <1>1, Zenon DEF FM!Range, ElementsOf

\* Finitely many positions are kept.
LEMMA KeptCount ==
    ASSUME NEW E, NEW s \in Seq(E), NEW kept, kept \subseteq 1 .. Len(s)
    PROVE  FM!Cardinality(kept) \in Nat /\ ST!Cardinality(kept) \in Nat
<1>1. Len(s) \in Int /\ 1 \in Int BY LenProperties
<1>2. IsFiniteSet(1 .. Len(s)) BY <1>1, FS_Interval, Zenon
<1>3. IsFiniteSet(kept) BY <1>2, FS_Subset, Zenon
<1>4. Cardinality(kept) \in Nat BY <1>3, FS_CardinalityType, Zenon
<1>5. FM!Cardinality(kept) = Cardinality(kept) BY DEF FM!Cardinality, Cardinality
<1>6. ST!Cardinality(kept) = Cardinality(kept) BY DEF ST!Cardinality, Cardinality
<1>7. QED BY <1>4, <1>5, <1>6, Zenon

\* stable_sort() and unique() keep the first entry of each key.
LEMMA SortingBuilds ==
    ASSUME NEW l \in Seq(MapPairs), NEW s \in FM!StableSorted(l), NEW t \in FM!Unique(s)
    PROVE  t \in Seq(MapPairs) /\ Ordered(t) /\ ElementsOf(t) = Firsts(l)
<1>1. DOMAIN l = 1 .. Len(l) BY MapRange, Zenon
<1>2. PICK p \in FM!Bijection(1 .. Len(l), 1 .. Len(l)) :
          /\ \A i, j \in 1 .. Len(l) : i < j =>
                \/ l[p[i]][1] < l[p[j]][1]
                \/ l[p[i]][1] = l[p[j]][1] /\ p[i] < p[j]
          /\ s = [i \in 1 .. Len(l) |-> l[p[i]]]
  BY <1>1, Zenon DEF FM!StableSorted, FM!Key
<1>3. p \in [1 .. Len(l) -> 1 .. Len(l)] /\ Onto(p, 1 .. Len(l)) /\ s = Arranged(l, p)
  BY <1>2 DEF FM!Bijection, FM!Surjection, Onto, Arranged
<1>4. s \in Seq(MapPairs) BY <1>3, MapPairsRanked, ArrangedIs, Zenon
<1>5. Ascending(s) /\ Firsts(s) = Firsts(l) BY <1>2, <1>3, MapPairsRanked, StableFirsts, Zenon
<1>6. DOMAIN s = 1 .. Len(s) BY <1>4, MapRange, Zenon
<1>7. PICK kept : kept = KeptOf(s) OBVIOUS
<1>8. PICK n : n = FM!Cardinality(kept) OBVIOUS
<1>9. n \in Nat
  <2>1. kept \subseteq 1 .. Len(s) BY <1>7 DEF KeptOf
  <2>2. QED BY <1>4, <1>8, <2>1, KeptCount, Zenon
<1>10. PICK q \in FM!Bijection(1 .. n, kept) :
          /\ \A i, j \in 1 .. n : i < j => q[i] < q[j]
          /\ t = [i \in 1 .. n |-> s[q[i]]]
  BY <1>6, <1>7, <1>8, Zenon DEF FM!Unique, FM!Key, KeptOf
<1>11. q \in [1 .. n -> KeptOf(s)] /\ Onto(q, KeptOf(s)) /\ Increasing(q) /\ t = Arranged(s, q)
  BY <1>7, <1>10 DEF FM!Bijection, FM!Surjection, Onto, Increasing, Arranged
<1>12. /\ Arranged(s, q) \in Seq(MapPairs) /\ Ordered(Arranged(s, q))
       /\ ElementsOf(Arranged(s, q)) = Firsts(s)
  BY <1>4, <1>5, <1>9, <1>11, MapPairsRanked, UniqueKeeps, Zenon
<1>13. QED BY <1>5, <1>11, <1>12, Zenon

\* One first entry of each key.
LEMMA FirstsOnce ==
    ASSUME NEW E, Ranked(E), NEW l \in Seq(E)
    PROVE  OneEach(Firsts(l))
<1>1. ASSUME NEW i \in 1 .. Len(l), NEW j \in 1 .. Len(l), FirstAt(l, i), FirstAt(l, j),
             l[i][1] = l[j][1]
      PROVE  i = j
  <2>1. Len(l) \in Nat BY LenProperties
  <2>2. ~ (i < j) /\ ~ (j < i) BY <1>1 DEF FirstAt
  <2>3. QED BY <2>1, <2>2
<1>2. ASSUME NEW e \in Firsts(l), NEW f \in Firsts(l), e[1] = f[1] PROVE e = f
  <2>1. PICK i \in 1 .. Len(l) : FirstAt(l, i) /\ e = l[i] BY DEF Firsts
  <2>2. PICK j \in 1 .. Len(l) : FirstAt(l, j) /\ f = l[j] BY DEF Firsts
  <2>3. i = j BY <1>1, <1>2, <2>1, <2>2, Zenon
  <2>4. QED BY <2>1, <2>2, <2>3, Zenon
<1>3. QED BY <1>2, Zenon DEF OneEach

\* The map of the first entries.
LEMMA FirstOfIs ==
    ASSUME NEW l \in Seq(MapPairs)
    PROVE  FM!FirstOf(l) = MapOf(Firsts(l))
<1>1. FM!Range(l) = ElementsOf(l) /\ DOMAIN l = 1 .. Len(l) /\ Len(l) \in Nat
  BY MapRange, LenProperties
<1>2. OneEach(Firsts(l)) BY MapPairsRanked, FirstsOnce, Zenon
<1>3. RanksOf(Firsts(l)) = RanksOf(ElementsOf(l)) BY MapPairsRanked, FirstsRanks, Zenon
<1>4. PICK g : g = FM!FirstOf(l) OBVIOUS
<1>5. g = [k \in RanksOf(Firsts(l)) |-> l[FM!Min({i \in 1 .. Len(l) : l[i][1] = k})][2]]
  BY <1>1, <1>3, <1>4, Zenon DEF FM!FirstOf, FM!Key, RanksOf
<1>6. FunctionOn(g, RanksOf(Firsts(l))) BY <1>5 DEF FunctionOn
<1>7. ASSUME NEW e \in Firsts(l) PROVE g[e[1]] = e[2]
  <2>1. PICK i \in 1 .. Len(l) : FirstAt(l, i) /\ e = l[i] BY DEF Firsts
  <2>2. e[1] \in RanksOf(Firsts(l)) BY Zenon DEF RanksOf
  <2>3. PICK T : T = {j \in 1 .. Len(l) : l[j][1] = e[1]} OBVIOUS
  <2>4. PICK m : m = FM!Min(T) OBVIOUS
  <2>5. T \subseteq Nat /\ i \in T /\ \A j \in T : j \in 1 .. Len(l) /\ l[j][1] = e[1]
    BY <1>1, <2>1, <2>3
  <2>6. m \in T /\ \A y \in T : m <= y
    <3>1. m = CHOOSE x \in T : \A y \in T : x <= y BY <2>4, Zenon DEF FM!Min
    <3>2. T # {} BY <2>5, Zenon
    <3>3. QED BY <2>5, <3>1, <3>2, MinimumIs
  <2>7. m = i
    <3>1. m <= i /\ m \in 1 .. Len(l) /\ l[m][1] = l[i][1] BY <2>1, <2>5, <2>6, Zenon
    <3>2. ~ (m < i) BY <2>1, <3>1 DEF FirstAt
    <3>3. QED BY <1>1, <3>1, <3>2
  <2>8. g[e[1]] = l[m][2] BY <1>5, <2>2, <2>3, <2>4, Zenon
  <2>9. QED BY <2>1, <2>7, <2>8, Zenon
<1>8. \A e \in Firsts(l) : g[e[1]] = e[2] BY <1>7, Zenon
<1>9. MapOf(Firsts(l)) = g BY <1>2, <1>6, <1>8, MapEqual, Zenon
<1>10. QED BY <1>4, <1>9, Zenon

\* What holds of the vector, and of a construction on its way: the vector is
\* ordered, and holds the first of each key among the entries inserted so far.
MapIInv ==
    /\ data_ \in Seq(MapPairs) /\ Ordered(data_)
    /\ pending \in Seq(FM!Entries)
    /\ constructed => pending = <<>>
    /\ ~ constructed /\ pending = <<>> => data_ = <<>>
    /\ pending # <<>> => /\ last.value \in Seq(FM!Entries)
                         /\ ElementsOf(data_) = Firsts(last.value)

\* The map is what the vector holds, and the vector is sorted.
LEMMA MapHolds ==
    ASSUME MapIInv
    PROVE  /\ FM!AsMap = MapOf(ElementsOf(data_)) /\ OneEach(ElementsOf(data_))
           /\ DOMAIN FM!AsMap = RanksOf(ElementsOf(data_))
<1>1. data_ \in Seq(MapPairs) /\ Ordered(data_) BY Zenon DEF MapIInv
<1>2. FM!Range(data_) = ElementsOf(data_) BY <1>1, MapRange, Zenon
<1>3. FM!AsMap = MapOf(ElementsOf(data_))
  <2>1. FM!AsMap = MapOf(FM!Range(data_)) BY DEF FM!AsMap, FM!Key, MapOf, RanksOf
  <2>2. QED BY <1>2, <2>1, Zenon
<1>4. OneEach(ElementsOf(data_)) BY <1>1, MapPairsRanked, OrderedOnce, Zenon
<1>5. DOMAIN MapOf(ElementsOf(data_)) = RanksOf(ElementsOf(data_)) BY Zenon DEF MapOf
<1>6. QED BY <1>3, <1>4, <1>5, Zenon

\* The same after a step.
LEMMA MapHoldsThen ==
    ASSUME data_' \in Seq(MapPairs), Ordered(data_')
    PROVE  FM!AsMap' = MapOf(ElementsOf(data_')) /\ FM!SortedUnique'
<1>1. FM!Range(data_') = ElementsOf(data_') /\ DOMAIN data_' = 1 .. Len(data_') BY MapRange, Zenon
<1>2. FM!AsMap' = MapOf(ElementsOf(data_'))
  <2>1. FM!AsMap' = MapOf(FM!Range(data_')) BY DEF FM!AsMap, FM!Key, MapOf, RanksOf
  <2>2. QED BY <1>1, <2>1, Zenon
<1>3. FM!SortedUnique' BY <1>1, Zenon DEF FM!SortedUnique, FM!Key, Ordered
<1>4. QED BY <1>2, <1>3, Zenon

\* What a list of entries is.
LEMMA MapLists == \A l \in FM!Lists : l \in Seq(FM!Entries) /\ l \in Seq(MapPairs)
<1>1. ASSUME NEW l \in FM!Lists PROVE l \in Seq(FM!Entries)
  <2>1. PICK n \in 0 .. MaxEntries : l \in [1 .. n -> FM!Entries] BY DEF FM!Lists
  <2>2. n \in Nat OBVIOUS
  <2>3. QED BY <2>1, <2>2, VectorOf, Zenon
<1>2. Seq(FM!Entries) \subseteq Seq(MapPairs) BY MapRanked, Zenon
<1>3. QED BY <1>1, <1>2, Zenon

\* The empty vector.
LEMMA EmptyVector ==
    ASSUME NEW E
    PROVE  <<>> \in Seq(E) /\ Ordered(<<>>) /\ ElementsOf(<<>>) = {} /\ Firsts(<<>>) = {}
<1>1. Len(<<>>) = 0 /\ <<>> \in Seq(E) OBVIOUS
<1>2. 1 .. Len(<<>>) = {} BY <1>1
<1>3. QED BY <1>1, <1>2, Zenon DEF Ordered, ElementsOf, Firsts

\* An operation on a constructed map keeps the invariant if its vector stays ordered.
LEMMA MapKept ==
    ASSUME MapIInv, constructed, data_' \in Seq(MapPairs), Ordered(data_'),
           UNCHANGED <<pending, constructed>>
    PROVE  MapIInv'
<1>1. pending = <<>> /\ pending \in Seq(FM!Entries) BY Zenon DEF MapIInv
<1>2. pending' = <<>> /\ pending' \in Seq(FM!Entries) /\ constructed' BY <1>1, Zenon
<1>3. QED BY <1>2, Zenon DEF MapIInv

\* insert() and emplace().
LEMMA MapInsertStep ==
    ASSUME MapIInv, constructed, NEW k \in Keys, NEW v \in MappedValues, FM!Insert(<<k, v>>)
    PROVE  MapIInv' /\ FM!SortedUnique' /\ FM!MapStep
<1> DEFINE S == ElementsOf(data_)
<1>1. /\ data_ \in Seq(MapPairs) /\ Ordered(data_) /\ <<k, v>> \in MapPairs /\ k \in Int
      /\ <<k, v>>[1] = k /\ <<k, v>>[2] = v
  BY MapRanked DEF MapIInv
<1>2. /\ data_' = FM!InsertImpl(data_, <<k, v>>) /\ UNCHANGED <<pending, constructed>>
      /\ last' = [op |-> "insert", key |-> k, value |-> v, res |-> ~ FM!Found(data_, k)]
  BY <1>1 DEF FM!Insert, FM!Did, FM!Key
<1>3. /\ data_' \in Seq(MapPairs) /\ Ordered(data_')
      /\ ElementsOf(data_') = IF k \in RanksOf(S) THEN S ELSE S \cup {<<k, v>>}
  <2>1. /\ data_' \in Seq(MapPairs) /\ Ordered(data_')
        /\ ElementsOf(data_') = IF <<k, v>>[1] \in RanksOf(S) THEN S ELSE S \cup {<<k, v>>}
    BY <1>1, <1>2, MapInserts, Zenon
  <2>2. QED BY <1>1, <2>1, Zenon
<1>4. MapIInv' BY <1>2, <1>3, MapKept, Zenon
<1>5. FM!AsMap' = MapOf(ElementsOf(data_')) /\ FM!SortedUnique' BY <1>3, MapHoldsThen, Zenon
<1>6. FM!AsMap = MapOf(S) /\ OneEach(S) /\ DOMAIN FM!AsMap = RanksOf(S) BY MapHolds, Zenon
<1>7. FM!Found(data_, k) <=> k \in RanksOf(S) BY <1>1, MapFound, Zenon
<1>8. /\ last'.op = "insert" /\ last'.key = k /\ last'.value = v
      /\ last'.res = ~ FM!Found(data_, k)
  BY <1>2, Zenon
<1> HIDE DEF S
<1>9. CASE k \in RanksOf(S)
  <2>1. FM!AsMap' = FM!AsMap BY <1>3, <1>5, <1>6, <1>9, Zenon
  <2>2. last'.res = ~ (k \in DOMAIN FM!AsMap) BY <1>6, <1>7, <1>8, <1>9, Zenon
  <2>3. FM!MapStep BY <1>6, <1>8, <1>9, <2>1, <2>2 DEF FM!MapStep
  <2>4. QED BY <1>4, <1>5, <2>3, Zenon
<1>10. CASE k \notin RanksOf(S)
  <2>1. ElementsOf(data_') = {e \in S : e[1] # k} \cup {<<k, v>>}
    <3>1. \A e \in S : e[1] # k BY <1>10 DEF RanksOf
    <3>2. QED BY <1>3, <1>10, <3>1
  <2>2. FM!AsMap' = Setting(FM!AsMap, k, v) BY <1>5, <1>6, <2>1, MapSets, Zenon
  <2>3. FM!AsMap' = FM!With(FM!AsMap, k, v) BY <2>2, Zenon DEF Setting, FM!With
  <2>4. last'.res = ~ (k \in DOMAIN FM!AsMap) BY <1>6, <1>7, <1>8, <1>10, Zenon
  <2>5. FM!MapStep BY <1>6, <1>8, <1>10, <2>3, <2>4 DEF FM!MapStep
  <2>6. QED BY <1>4, <1>5, <2>5, Zenon
<1>11. QED BY <1>9, <1>10, Zenon

\* operator[].
LEMMA MapAssignStep ==
    ASSUME MapIInv, constructed, NEW k \in Keys, NEW v \in MappedValues, FM!Assign(k, v)
    PROVE  MapIInv' /\ FM!SortedUnique' /\ FM!MapStep
<1> DEFINE S == ElementsOf(data_)
<1>1. /\ data_ \in Seq(MapPairs) /\ Ordered(data_) /\ k \in Int
      /\ <<k, v>> \in MapPairs /\ <<k, 0>> \in MapPairs
      /\ <<k, v>>[1] = k /\ <<k, v>>[2] = v /\ <<k, 0>>[1] = k
  BY MapRanked DEF MapIInv
<1>2. PICK s : s = FM!InsertImpl(data_, <<k, 0>>) OBVIOUS
<1>3. PICK i : i = FM!LowerBound(s, k) OBVIOUS
<1>4. /\ data_' = [s EXCEPT ![i] = <<k, v>>] /\ UNCHANGED <<pending, constructed>>
      /\ last' = [op |-> "assign", key |-> k, value |-> v, res |-> TRUE]
  BY <1>2, <1>3 DEF FM!Assign, FM!Did, FM!Zero
<1>5. /\ s \in Seq(MapPairs) /\ Ordered(s)
      /\ ElementsOf(s) = IF k \in RanksOf(S) THEN S ELSE S \cup {<<k, 0>>}
  <2>1. /\ s \in Seq(MapPairs) /\ Ordered(s)
        /\ ElementsOf(s) = IF <<k, 0>>[1] \in RanksOf(S) THEN S ELSE S \cup {<<k, 0>>}
    BY <1>1, <1>2, MapInserts, Zenon
  <2>2. QED BY <1>1, <2>1, Zenon
<1> HIDE DEF S
<1>6. k \in RanksOf(ElementsOf(s))
  <2>1. CASE k \in RanksOf(S) BY <1>5, <2>1, Zenon
  <2>2. CASE k \notin RanksOf(S)
    <3>1. <<k, 0>> \in ElementsOf(s) BY <1>5, <2>2
    <3>2. QED BY <1>1, <3>1, Zenon DEF RanksOf
  <2>3. QED BY <2>1, <2>2, Zenon
<1>7. i \in 1 .. Len(s) /\ s[i][1] = k BY <1>1, <1>3, <1>5, <1>6, MapFound, Zenon
<1>8. /\ data_' \in Seq(MapPairs) /\ Ordered(data_')
      /\ ElementsOf(data_') = {e \in ElementsOf(s) : e[1] # k} \cup {<<k, v>>}
  <2>1. PICK e \in MapPairs : e = <<k, v>> /\ SameRank(e, s[i])
    BY <1>1, <1>7, Zenon DEF SameRank
  <2>2. /\ Replacing(s, i, e) \in Seq(MapPairs) /\ Ordered(Replacing(s, i, e))
        /\ ElementsOf(Replacing(s, i, e)) = Adding(Without(ElementsOf(s), s[i][1]), e)
    <3>1. s \in Seq(MapPairs) /\ Ordered(s) BY <1>5, Zenon
    <3>2. i \in 1 .. Len(s) BY <1>7, Zenon
    <3>3. SameRank(e, s[i]) BY <2>1, Zenon
    <3>4. QED BY <3>1, <3>2, <3>3, MapPairsRanked, Replaced, Zenon
  <2>3. data_' = Replacing(s, i, e) BY <1>4, <2>1, Zenon DEF Replacing
  <2>4. QED BY <1>7, <2>1, <2>2, <2>3, Zenon DEF Without, Adding
<1>9. ElementsOf(data_') = {e \in S : e[1] # k} \cup {<<k, v>>}
  <2>1. {e \in ElementsOf(s) : e[1] # k} = {e \in S : e[1] # k} BY <1>1, <1>5
  <2>2. QED BY <1>8, <2>1, Zenon
<1>10. MapIInv' BY <1>4, <1>8, MapKept, Zenon
<1>11. FM!AsMap' = MapOf(ElementsOf(data_')) /\ FM!SortedUnique' BY <1>8, MapHoldsThen, Zenon
<1>12. FM!AsMap = MapOf(S) /\ OneEach(S) /\ DOMAIN FM!AsMap = RanksOf(S)
  BY MapHolds, Zenon DEF S
<1>13. FM!AsMap' = Setting(FM!AsMap, k, v) BY <1>9, <1>11, <1>12, MapSets, Zenon
<1>14. FM!AsMap' = FM!With(FM!AsMap, k, v) BY <1>13, Zenon DEF Setting, FM!With
<1>15. last'.op = "assign" /\ last'.key = k /\ last'.value = v BY <1>4, Zenon
<1>16. FM!MapStep BY <1>14, <1>15 DEF FM!MapStep
<1>17. QED BY <1>10, <1>11, <1>16, Zenon

\* at().
LEMMA MapAtStep ==
    ASSUME MapIInv, constructed, NEW k \in Keys, NEW v \in MappedValues, FM!AtAssign(k, v)
    PROVE  MapIInv' /\ FM!SortedUnique' /\ FM!MapStep
<1> DEFINE S == ElementsOf(data_)
<1>1. /\ data_ \in Seq(MapPairs) /\ Ordered(data_) /\ k \in Int /\ <<k, v>> \in MapPairs
      /\ <<k, v>>[1] = k /\ <<k, v>>[2] = v
  BY MapRanked DEF MapIInv
<1>2. /\ data_' = IF FM!Found(data_, k) THEN [data_ EXCEPT ![FM!Locate(data_, k)][2] = v] ELSE data_
      /\ UNCHANGED <<pending, constructed>>
      /\ last' = [op |-> "at", key |-> k, value |-> v, res |-> FM!Found(data_, k)]
  BY DEF FM!AtAssign, FM!Did
<1>3. FM!AsMap = MapOf(S) /\ OneEach(S) /\ DOMAIN FM!AsMap = RanksOf(S) BY MapHolds, Zenon
<1>4. /\ FM!Found(data_, k) <=> k \in RanksOf(S)
      /\ k \in RanksOf(S) =>
            /\ FM!Locate(data_, k) = FM!LowerBound(data_, k)
            /\ FM!LowerBound(data_, k) \in 1 .. Len(data_)
            /\ data_[FM!LowerBound(data_, k)][1] = k
  BY <1>1, MapFound, Zenon
<1>5. /\ last'.op = "at" /\ last'.key = k /\ last'.value = v
      /\ last'.res = FM!Found(data_, k)
  BY <1>2, Zenon
<1> HIDE DEF S
<1>6. CASE k \in RanksOf(S)
  <2>1. PICK i \in 1 .. Len(data_) : i = FM!Locate(data_, k) /\ data_[i][1] = k
    BY <1>4, <1>6, Zenon
  <2>2. data_[i] \in MapPairs /\ DOMAIN data_ = 1 .. Len(data_)
    BY <1>1, HeldIs, MapPairsRanked, Zenon
  <2>3. PICK w : data_[i] = <<k, w>>
    <3>1. data_[i] = <<data_[i][1], data_[i][2]>> BY <2>2, MapRanked, Zenon
    <3>2. QED BY <2>1, <3>1, Zenon
  <2>4. data_' = [data_ EXCEPT ![i] = <<k, v>>]
    <3>1. data_' = [data_ EXCEPT ![i][2] = v] BY <1>2, <1>4, <1>6, <2>1, Zenon
    <3>2. [<<k, w>> EXCEPT ![2] = v] = <<k, v>> OBVIOUS
    <3>3. [data_ EXCEPT ![i][2] = v] = [data_ EXCEPT ![i] = [data_[i] EXCEPT ![2] = v]]
      BY <2>2
    <3>4. QED BY <2>3, <3>1, <3>2, <3>3, Zenon
  <2>5. <<k, v>>[1] = data_[i][1] BY <1>1, <2>1, Zenon
  <2>6. /\ data_' \in Seq(MapPairs) /\ Ordered(data_')
        /\ ElementsOf(data_') = {e \in S : e[1] # k} \cup {<<k, v>>}
    <3>1. PICK e \in MapPairs : e = <<k, v>> /\ SameRank(e, data_[i])
      BY <1>1, <2>5, Zenon DEF SameRank
    <3>2. /\ Replacing(data_, i, e) \in Seq(MapPairs) /\ Ordered(Replacing(data_, i, e))
          /\ ElementsOf(Replacing(data_, i, e)) = Adding(Without(ElementsOf(data_), data_[i][1]), e)
      <4>1. data_ \in Seq(MapPairs) /\ Ordered(data_) BY <1>1, Zenon
      <4>2. SameRank(e, data_[i]) BY <3>1, Zenon
      <4>3. QED BY <4>1, <4>2, MapPairsRanked, Replaced, Zenon
    <3>3. data_' = Replacing(data_, i, e) BY <2>4, <3>1, Zenon DEF Replacing
    <3>4. QED BY <2>1, <3>1, <3>2, <3>3, Zenon DEF Without, Adding, S
  <2>7. MapIInv' BY <1>2, <2>6, MapKept, Zenon
  <2>8. FM!AsMap' = MapOf(ElementsOf(data_')) /\ FM!SortedUnique' BY <2>6, MapHoldsThen, Zenon
  <2>9. FM!AsMap' = Setting(FM!AsMap, k, v) BY <1>3, <2>6, <2>8, MapSets, Zenon
  <2>10. FM!AsMap' = FM!With(FM!AsMap, k, v) BY <2>9, Zenon DEF Setting, FM!With
  <2>11. last'.res = (k \in DOMAIN FM!AsMap) BY <1>3, <1>4, <1>5, <1>6, Zenon
  <2>12. FM!MapStep BY <1>3, <1>5, <1>6, <2>10, <2>11 DEF FM!MapStep
  <2>13. QED BY <2>7, <2>8, <2>12, Zenon
<1>7. CASE k \notin RanksOf(S)
  <2>1. data_' = data_ BY <1>2, <1>4, <1>7, Zenon
  <2>2. data_' \in Seq(MapPairs) /\ Ordered(data_') BY <1>1, <2>1, Zenon
  <2>3. MapIInv' BY <1>2, <2>2, MapKept, Zenon
  <2>4. FM!AsMap' = MapOf(ElementsOf(data_')) /\ FM!SortedUnique' BY <2>2, MapHoldsThen, Zenon
  <2>5. FM!AsMap' = FM!AsMap BY <2>1 DEF FM!AsMap
  <2>6. last'.res = (k \in DOMAIN FM!AsMap)
    <3>1. k \notin DOMAIN FM!AsMap BY <1>3, <1>7, Zenon
    <3>2. FM!Found(data_, k) = FALSE BY <1>4, <1>7 DEF FM!Found
    <3>3. (k \in DOMAIN FM!AsMap) = FALSE BY <3>1
    <3>4. QED BY <1>5, <3>2, <3>3, Zenon
  <2>7. FM!MapStep BY <1>3, <1>5, <1>7, <2>5, <2>6 DEF FM!MapStep
  <2>8. QED BY <2>3, <2>4, <2>7, Zenon
<1>8. QED BY <1>6, <1>7, Zenon

\* Taking out the entry at i.
LEMMA MapEraseStep ==
    ASSUME MapIInv, constructed, NEW i \in 1 .. Len(data_), data_' = FM!Erased(data_, i),
           UNCHANGED <<pending, constructed>>
    PROVE  /\ MapIInv' /\ FM!SortedUnique'
           /\ FM!AsMap' = Dropping(FM!AsMap, data_[i][1])
           /\ data_[i][1] \in DOMAIN FM!AsMap
<1> DEFINE S == ElementsOf(data_)
<1>1. data_ \in Seq(MapPairs) /\ Ordered(data_) BY Zenon DEF MapIInv
<1>2. /\ data_' \in Seq(MapPairs) /\ Ordered(data_')
      /\ ElementsOf(data_') = Without(S, data_[i][1])
  BY <1>1, MapErases, Zenon
<1>3. MapIInv' BY <1>2, MapKept, Zenon
<1>4. FM!AsMap' = MapOf(ElementsOf(data_')) /\ FM!SortedUnique' BY <1>2, MapHoldsThen, Zenon
<1>5. FM!AsMap = MapOf(S) /\ OneEach(S) /\ DOMAIN FM!AsMap = RanksOf(S) BY MapHolds, Zenon
<1>6. data_[i] \in S BY Zenon DEF ElementsOf
<1> HIDE DEF S
<1>7. MapOf(Without(S, data_[i][1])) = Dropping(MapOf(S), data_[i][1])
  BY <1>5, MapDrops, Zenon DEF Without
<1>8. data_[i][1] \in RanksOf(S) BY <1>6, Zenon DEF RanksOf
<1>9. QED BY <1>2, <1>3, <1>4, <1>5, <1>7, <1>8, Zenon

\* erase(key).
LEMMA MapEraseKey ==
    ASSUME MapIInv, constructed, NEW k \in Keys, FM!Erase(k)
    PROVE  MapIInv' /\ FM!SortedUnique' /\ FM!MapStep
<1> DEFINE S == ElementsOf(data_)
<1>1. data_ \in Seq(MapPairs) /\ Ordered(data_) /\ k \in Int BY MapRanked, Zenon DEF MapIInv
<1>2. /\ data_' = IF FM!Found(data_, k) THEN FM!Erased(data_, FM!Locate(data_, k)) ELSE data_
      /\ UNCHANGED <<pending, constructed>>
      /\ last' = [op |-> "erase", key |-> k, value |-> FM!Zero, res |-> FM!Found(data_, k)]
  BY Zenon DEF FM!Erase, FM!Did
<1>3. FM!AsMap = MapOf(S) /\ OneEach(S) /\ DOMAIN FM!AsMap = RanksOf(S) BY MapHolds, Zenon
<1>4. /\ FM!Found(data_, k) <=> k \in RanksOf(S)
      /\ k \in RanksOf(S) =>
            /\ FM!Locate(data_, k) = FM!LowerBound(data_, k)
            /\ FM!LowerBound(data_, k) \in 1 .. Len(data_)
            /\ data_[FM!LowerBound(data_, k)][1] = k
  BY <1>1, MapFound, Zenon
<1>5. last'.op = "erase" /\ last'.key = k /\ last'.res = FM!Found(data_, k) BY <1>2, Zenon
<1> HIDE DEF S
<1>6. CASE k \in RanksOf(S)
  <2>1. PICK i \in 1 .. Len(data_) : i = FM!Locate(data_, k) /\ data_[i][1] = k
    BY <1>4, <1>6, Zenon
  <2>2. data_' = FM!Erased(data_, i) BY <1>2, <1>4, <1>6, <2>1, Zenon
  <2>3. MapIInv' /\ FM!SortedUnique' /\ FM!AsMap' = Dropping(FM!AsMap, data_[i][1])
    BY <1>2, <2>2, MapEraseStep, Zenon
  <2>4. FM!AsMap' = [j \in DOMAIN FM!AsMap \ {k} |-> FM!AsMap[j]]
    BY <2>1, <2>3, Zenon DEF Dropping
  <2>5. last'.res = (k \in DOMAIN FM!AsMap) BY <1>3, <1>4, <1>5, <1>6, Zenon
  <2>6. FM!MapStep BY <1>5, <2>4, <2>5 DEF FM!MapStep
  <2>7. QED BY <2>3, <2>6, Zenon
<1>7. CASE k \notin RanksOf(S)
  <2>1. data_' = data_ BY <1>2, <1>4, <1>7, Zenon
  <2>2. data_' \in Seq(MapPairs) /\ Ordered(data_') BY <1>1, <2>1, Zenon
  <2>3. MapIInv' BY <1>2, <2>2, MapKept, Zenon
  <2>4. FM!SortedUnique' BY <2>2, MapHoldsThen, Zenon
  <2>5. FM!AsMap' = FM!AsMap BY <2>1 DEF FM!AsMap
  <2>6. FM!AsMap = [j \in DOMAIN FM!AsMap \ {k} |-> FM!AsMap[j]]
    <3>1. Without(S, k) = S BY <1>7 DEF RanksOf, Without
    <3>2. MapOf(Without(S, k)) = Dropping(MapOf(S), k) BY <1>3, MapDrops, Zenon DEF Without
    <3>3. FM!AsMap = Dropping(FM!AsMap, k) BY <1>3, <3>1, <3>2, Zenon
    <3>4. QED BY <3>3, Zenon DEF Dropping
  <2>7. last'.res = (k \in DOMAIN FM!AsMap)
    <3>1. k \notin DOMAIN FM!AsMap BY <1>3, <1>7, Zenon
    <3>2. FM!Found(data_, k) = FALSE BY <1>4, <1>7 DEF FM!Found
    <3>3. (k \in DOMAIN FM!AsMap) = FALSE BY <3>1
    <3>4. QED BY <1>5, <3>2, <3>3, Zenon
  <2>8. FM!AsMap' = [j \in DOMAIN FM!AsMap \ {k} |-> FM!AsMap[j]] BY <2>5, <2>6, Zenon
  <2>9. FM!MapStep BY <1>5, <2>7, <2>8 DEF FM!MapStep
  <2>10. QED BY <2>3, <2>4, <2>9, Zenon
<1>8. QED BY <1>6, <1>7, Zenon

\* erase(const_iterator).
LEMMA MapEraseAt ==
    ASSUME MapIInv, constructed, NEW i \in DOMAIN data_, FM!EraseAt(i)
    PROVE  MapIInv' /\ FM!SortedUnique' /\ FM!MapStep
<1>1. data_ \in Seq(MapPairs) BY Zenon DEF MapIInv
<1>2. i \in 1 .. Len(data_) BY <1>1, MapRange, Zenon
<1>3. /\ data_' = FM!Erased(data_, i) /\ UNCHANGED <<pending, constructed>>
      /\ last' = [op |-> "erase", key |-> data_[i][1], value |-> FM!Zero, res |-> TRUE]
  BY Zenon DEF FM!EraseAt, FM!Did, FM!Key
<1>4. /\ MapIInv' /\ FM!SortedUnique' /\ FM!AsMap' = Dropping(FM!AsMap, data_[i][1])
      /\ data_[i][1] \in DOMAIN FM!AsMap
  BY <1>2, <1>3, MapEraseStep, Zenon
<1>5. last'.op = "erase" /\ last'.key = data_[i][1] /\ last'.res = TRUE BY <1>3, Zenon
<1>6. PICK k : k = data_[i][1] OBVIOUS
<1>7. FM!AsMap' = [j \in DOMAIN FM!AsMap \ {k} |-> FM!AsMap[j]] BY <1>4, <1>6, Zenon DEF Dropping
<1>8. last'.res = (k \in DOMAIN FM!AsMap) BY <1>4, <1>5, <1>6, Zenon
<1>9. FM!MapStep BY <1>5, <1>6, <1>7, <1>8 DEF FM!MapStep
<1>10. QED BY <1>4, <1>9, Zenon

\* clear().
LEMMA MapClears ==
    ASSUME MapIInv, constructed, FM!Clear
    PROVE  MapIInv' /\ FM!SortedUnique' /\ FM!MapStep
<1>1. /\ data_' = <<>> /\ UNCHANGED <<pending, constructed>>
      /\ last' = [op |-> "clear", key |-> 0, value |-> FM!Zero, res |-> TRUE]
  BY Zenon DEF FM!Clear, FM!Did
<1>2. data_' \in Seq(MapPairs) /\ Ordered(data_') /\ ElementsOf(data_') = {}
  BY <1>1, EmptyVector, Zenon
<1>3. MapIInv' BY <1>1, <1>2, MapKept, Zenon
<1>4. FM!AsMap' = MapOf(ElementsOf(data_')) /\ FM!SortedUnique' BY <1>2, MapHoldsThen, Zenon
<1>5. FM!AsMap' = <<>> BY <1>2, <1>4, MapEmpty, Zenon
<1>6. last'.op = "clear" BY <1>1, Zenon
<1>7. FM!MapStep BY <1>5, <1>6 DEF FM!MapStep
<1>8. QED BY <1>3, <1>4, <1>7, Zenon

\* A constructor has the first of each key among the entries it has taken.
LEMMA MapConstructs ==
    ASSUME data_' \in Seq(MapPairs), Ordered(data_'), last'.op = "construct",
           last'.value \in Seq(FM!Entries), ElementsOf(data_') = Firsts(last'.value)
    PROVE  FM!SortedUnique' /\ FM!MapStep
<1>1. FM!AsMap' = MapOf(ElementsOf(data_')) /\ FM!SortedUnique' BY MapHoldsThen, Zenon
<1>2. last'.value \in Seq(MapPairs) BY MapRanked, Zenon
<1>3. FM!FirstOf(last'.value) = MapOf(Firsts(last'.value)) BY <1>2, FirstOfIs, Zenon
<1>4. FM!AsMap' = FM!FirstOf(last'.value) BY <1>1, <1>3, Zenon
<1>5. FM!MapStep BY <1>4 DEF FM!MapStep
<1>6. QED BY <1>1, <1>5, Zenon

\* The constructors that sort.
LEMMA MapSorts ==
    ASSUME MapIInv, NEW l \in FM!Lists, FM!ConstructSorting(l)
    PROVE  MapIInv' /\ FM!SortedUnique' /\ FM!MapStep
<1>1. l \in Seq(FM!Entries) /\ l \in Seq(MapPairs) BY MapLists, Zenon
<1>2. PICK s \in FM!StableSorted(l) : data_' \in FM!Unique(s) BY Zenon DEF FM!ConstructSorting
<1>3. /\ pending = <<>> /\ pending' = pending /\ constructed' = TRUE
      /\ last' = [op |-> "construct", key |-> 0, value |-> l, res |-> TRUE]
  BY Zenon DEF FM!ConstructSorting
<1>4. data_' \in Seq(MapPairs) /\ Ordered(data_') /\ ElementsOf(data_') = Firsts(l)
  BY <1>1, <1>2, SortingBuilds, Zenon
<1>5. last'.op = "construct" /\ last'.value = l BY <1>3, Zenon
<1>6. FM!SortedUnique' /\ FM!MapStep BY <1>1, <1>4, <1>5, MapConstructs, Zenon
<1>7. pending' = <<>> /\ pending' \in Seq(FM!Entries) BY <1>3, EmptyVector, Zenon
<1>8. MapIInv' BY <1>3, <1>4, <1>7, Zenon DEF MapIInv
<1>9. QED BY <1>6, <1>8, Zenon

\* The constructors that insert begin with an empty vector.
LEMMA MapStartsInserting ==
    ASSUME MapIInv, NEW l \in FM!Lists, FM!ConstructInserting(l)
    PROVE  MapIInv' /\ FM!SortedUnique' /\ FM!MapStep
<1>1. l \in Seq(FM!Entries) BY MapLists, Zenon
<1>2. /\ ~ constructed /\ pending = <<>> /\ pending' = l /\ constructed' = (l = <<>>)
      /\ data_' = data_ /\ last' = [op |-> "construct", key |-> 0, value |-> <<>>, res |-> TRUE]
  BY Zenon DEF FM!ConstructInserting
<1>3. data_' = <<>> BY <1>2, Zenon DEF MapIInv
<1>4. data_' \in Seq(MapPairs) /\ Ordered(data_') /\ ElementsOf(data_') = Firsts(<<>>)
  BY <1>3, EmptyVector, Zenon
<1>5. last'.op = "construct" /\ last'.value = <<>> BY <1>2, Zenon
<1>6. <<>> \in Seq(FM!Entries) BY EmptyVector, Zenon
<1>7. FM!SortedUnique' /\ FM!MapStep BY <1>4, <1>5, <1>6, MapConstructs, Zenon
<1>8. MapIInv'
  <2>1. constructed' => pending' = <<>> BY <1>2, Zenon
  <2>2. last'.value \in Seq(FM!Entries) /\ ElementsOf(data_') = Firsts(last'.value)
    BY <1>4, <1>5, <1>6, Zenon
  <2>3. pending' \in Seq(FM!Entries) BY <1>1, <1>2, Zenon
  <2>4. QED BY <1>3, <1>4, <2>1, <2>2, <2>3, Zenon DEF MapIInv
<1>9. QED BY <1>7, <1>8, Zenon

\* One insertion of a constructor.
LEMMA MapInsertsPending ==
    ASSUME MapIInv, FM!InsertPending
    PROVE  MapIInv' /\ FM!SortedUnique' /\ FM!MapStep
<1>1. PICK e : e = Head(pending) OBVIOUS
<1>2. PICK l : l = last.value OBVIOUS
<1>3. /\ pending # <<>> /\ data_' = FM!InsertImpl(data_, e) /\ pending' = Tail(pending)
      /\ constructed' = (Tail(pending) = <<>>)
      /\ last' = [op |-> "construct", key |-> 0, value |-> Append(l, e), res |-> TRUE]
  BY <1>1, <1>2, Zenon DEF FM!InsertPending
<1>4. /\ data_ \in Seq(MapPairs) /\ Ordered(data_) /\ pending \in Seq(FM!Entries)
      /\ l \in Seq(FM!Entries) /\ ElementsOf(data_) = Firsts(l)
  BY <1>2, <1>3, Zenon DEF MapIInv
<1>5. e \in FM!Entries /\ Tail(pending) \in Seq(FM!Entries)
  <2>1. pending # <<>> /\ pending \in Seq(FM!Entries) BY <1>3, <1>4, Zenon
  <2>2. Head(pending) \in FM!Entries /\ Tail(pending) \in Seq(FM!Entries)
    BY <2>1, HeadTailProperties
  <2>3. QED BY <1>1, <2>2, Zenon
<1>6. e \in MapPairs /\ l \in Seq(MapPairs)
  <2>1. e \in MapPairs BY <1>5 DEF FM!Entries, MapPairs
  <2>2. QED BY <1>4, <2>1, MapRanked, Zenon
<1>7. /\ data_' \in Seq(MapPairs) /\ Ordered(data_')
      /\ ElementsOf(data_') = IF e[1] \in RanksOf(ElementsOf(data_)) THEN ElementsOf(data_)
                              ELSE ElementsOf(data_) \cup {e}
  BY <1>3, <1>4, <1>6, MapInserts, Zenon
<1>8. RanksOf(ElementsOf(data_)) = RanksOf(ElementsOf(l))
  <2>1. RanksOf(Firsts(l)) = RanksOf(ElementsOf(l)) BY <1>6, MapPairsRanked, FirstsRanks, Zenon
  <2>2. QED BY <1>4, <2>1, Zenon
<1>9. Firsts(Append(l, e)) = IF e[1] \in RanksOf(ElementsOf(l)) THEN Firsts(l)
                             ELSE Firsts(l) \cup {e}
  BY <1>6, MapPairsRanked, FirstsAppend
<1>10. ElementsOf(data_') = Firsts(Append(l, e)) BY <1>4, <1>7, <1>8, <1>9, Zenon
<1>11. Append(l, e) \in Seq(FM!Entries) BY <1>4, <1>5, AppendProperties, Zenon
<1>12. last'.op = "construct" /\ last'.value = Append(l, e) BY <1>3, Zenon
<1>13. last'.value \in Seq(FM!Entries) /\ ElementsOf(data_') = Firsts(last'.value)
  BY <1>10, <1>11, <1>12, Zenon
<1>14. FM!SortedUnique' /\ FM!MapStep BY <1>7, <1>12, <1>13, MapConstructs, Zenon
<1>15. MapIInv'
  <2>1. pending' \in Seq(FM!Entries) BY <1>3, <1>5, Zenon
  <2>2. constructed' <=> pending' = <<>> BY <1>3, Zenon
  <2>3. QED BY <1>7, <1>13, <2>1, <2>2, Zenon DEF MapIInv
<1>16. QED BY <1>14, <1>15, Zenon

\* FlatMap acts as a map: MapIInv is inductive, and each operation's step follows from it.
LEMMA MapActs == FM!Spec => FM!ActsAsMap
<1>1. FM!Init => MapIInv
  <2>1. SUFFICES ASSUME FM!Init PROVE MapIInv OBVIOUS
  <2>2. data_ = <<>> /\ pending = <<>> BY <2>1 DEF FM!Init
  <2>3. QED BY <2>2, EmptyVector, Zenon DEF MapIInv
<1>2. MapIInv /\ [FM!Next]_FM!vars => MapIInv' /\ [FM!SortedUnique' /\ FM!MapStep]_FM!vars
  <2>1. SUFFICES ASSUME MapIInv, [FM!Next]_FM!vars
                 PROVE  MapIInv' /\ [FM!SortedUnique' /\ FM!MapStep]_FM!vars
    OBVIOUS
  <2>2. CASE FM!Next
    <3>1. ASSUME NEW l \in FM!Lists, FM!ConstructSorting(l) \/ FM!ConstructInserting(l)
          PROVE  MapIInv' /\ FM!SortedUnique' /\ FM!MapStep
      BY <2>1, <3>1, MapSorts, MapStartsInserting, Zenon
    <3>2. CASE FM!InsertPending BY <2>1, <3>2, MapInsertsPending, Zenon
    <3>3. ASSUME constructed, NEW k \in Keys, NEW v \in MappedValues,
                 FM!Insert(<<k, v>>) \/ FM!Assign(k, v) \/ FM!AtAssign(k, v)
          PROVE  MapIInv' /\ FM!SortedUnique' /\ FM!MapStep
      BY <2>1, <3>3, MapInsertStep, MapAssignStep, MapAtStep, Zenon
    <3>4. ASSUME constructed, NEW k \in Keys, FM!Erase(k)
          PROVE  MapIInv' /\ FM!SortedUnique' /\ FM!MapStep
      BY <2>1, <3>4, MapEraseKey, Zenon
    <3>5. ASSUME constructed, NEW i \in DOMAIN data_, FM!EraseAt(i)
          PROVE  MapIInv' /\ FM!SortedUnique' /\ FM!MapStep
      BY <2>1, <3>5, MapEraseAt, Zenon
    <3>6. CASE constructed /\ FM!Clear BY <2>1, <3>6, MapClears, Zenon
    <3>7. QED BY <2>2, <3>1, <3>2, <3>3, <3>4, <3>5, <3>6, Zenon DEF FM!Next
  <2>3. CASE UNCHANGED FM!vars
    <3>1. UNCHANGED <<data_, pending, constructed, last>> BY <2>3, Zenon DEF FM!vars
    <3>2. MapIInv' BY <2>1, <3>1, Zenon DEF MapIInv
    <3>3. QED BY <2>3, <3>2, Zenon
  <2>4. QED BY <2>1, <2>2, <2>3, Zenon
<1>3. QED BY <1>1, <1>2, PTL DEF FM!Spec, FM!ActsAsMap

-----------------------------------------------------------------------------
(* FlatSet.                                                                *)

\* The least position that is above k.
Upper(s, k) ==
    LET T == {i \in 1 .. Len(s) + 1 : i > Len(s) \/ k < s[i][1]}
    IN  CHOOSE x \in T : \A y \in T : x <= y

\* std::upper_bound is one past an element of rank k, else the lower bound.
LEMMA UpperIs ==
    ASSUME NEW E, Ranked(E), NEW s \in Seq(E), Ordered(s), NEW k \in Int
    PROVE  Upper(s, k) - Lower(s, k) = IF k \in RanksOf(ElementsOf(s)) THEN 1 ELSE 0
<1> DEFINE T == {i \in 1 .. Len(s) + 1 : i > Len(s) \/ k < s[i][1]}
           m == CHOOSE x \in T : \A y \in T : x <= y
<1>1. Len(s) \in Nat /\ \A j \in 1 .. Len(s) : s[j][1] \in Int BY HeldIs
<1>2. m \in T /\ \A y \in T : m <= y
  <2>1. T \subseteq Nat /\ Len(s) + 1 \in T BY <1>1
  <2>2. QED BY <2>1, MinimumIs
<1>3. Upper(s, k) = m BY Zenon DEF Upper
<1> HIDE DEF m
<1>4. PICK i : i = Lower(s, k) OBVIOUS
<1>5. IsLower(s, k, i) BY <1>4, LowerIs, Zenon
<1>6. i \in 1 .. Len(s) + 1 BY <1>5 DEF IsLower
<1>7. /\ \A j \in 1 .. Len(s) : j < i <=> s[j][1] < k
      /\ \A j \in 1 .. Len(s) : j > i => k < s[j][1]
      /\ (i <= Len(s) /\ ~ (k < s[i][1])) <=> k \in RanksOf(ElementsOf(s))
  BY <1>5, LowerSplits
<1>8. \A j \in T : ~ (j < i)
  <2>1. ASSUME NEW j \in T, j < i PROVE FALSE
    <3>1. j \in 1 .. Len(s) /\ k < s[j][1] BY <1>1, <1>6, <2>1
    <3>2. s[j][1] < k BY <1>7, <2>1, <3>1
    <3>3. QED BY <1>1, <3>1, <3>2
  <2>2. QED BY <2>1
<1>9. CASE k \in RanksOf(ElementsOf(s))
  <2>1. i \in 1 .. Len(s) /\ ~ (k < s[i][1]) BY <1>1, <1>6, <1>7, <1>9
  <2>2. i \notin T BY <1>1, <2>1
  <2>3. i + 1 \in T
    <3>1. CASE i = Len(s) BY <1>1, <2>1, <3>1
    <3>2. CASE i < Len(s)
      <4>1. i + 1 \in 1 .. Len(s) /\ i + 1 > i BY <1>1, <2>1, <3>2
      <4>2. QED BY <1>1, <1>7, <4>1
    <3>3. QED BY <1>1, <2>1, <3>1, <3>2
  <2>4. m = i + 1
    <3>1. m <= i + 1 /\ ~ (m < i) /\ m # i /\ m \in 1 .. Len(s) + 1
      BY <1>2, <1>8, <2>2, <2>3
    <3>2. QED BY <1>1, <2>1, <3>1
  <2>5. m - i = 1 BY <1>1, <2>1, <2>4
  <2>6. QED BY <1>3, <1>4, <1>9, <2>5, Zenon
<1>10. CASE k \notin RanksOf(ElementsOf(s))
  <2>1. i \in T BY <1>1, <1>6, <1>7, <1>10
  <2>2. m = i
    <3>1. m <= i /\ ~ (m < i) /\ m \in 1 .. Len(s) + 1 BY <1>2, <1>8, <2>1
    <3>2. QED BY <1>1, <1>6, <3>1
  <2>3. m - i = 0 BY <1>1, <1>6, <2>2
  <2>4. QED BY <1>3, <1>4, <1>10, <2>3, Zenon
<1>11. QED BY <1>9, <1>10, Zenon

\* Ranks are numbers.
LEMMA SetRanked == Ranked(ST!Elements) /\ \A v \in ST!Elements : v[1] \in Int
<1>1. \A v \in ST!Elements : v[1] \in Int BY PartsAssumption DEF ST!ConstantsFit, ST!Elements
<1>2. QED BY <1>1, Zenon DEF Ranked

\* The elements are ordered by rank.
LEMMA ElementsRanked == Ranked(ST!Elements)
BY SetRanked, Zenon

\* lower_bound() and find() of the vector.
LEMMA SetLookup ==
    ASSUME set_data \in Seq(ST!Elements), NEW v \in ST!Elements
    PROVE  /\ ST!lower_bound(v) = Lower(set_data, v[1])
           /\ ST!find(v) = LET i == Lower(set_data, v[1])
                           IN  IF i # Len(set_data) + 1 /\ ~ (v[1] < set_data[i][1]) THEN i
                               ELSE Len(set_data) + 1
<1>1. Len(set_data) \in Nat BY LenProperties
<1>2. PICK T : T = {i \in 1 .. Len(set_data) + 1 : i > Len(set_data) \/ ~ (set_data[i][1] < v[1])}
  OBVIOUS
<1>3. T = {i \in 1 .. Len(set_data) + 1 : i = Len(set_data) + 1 \/ ~ (set_data[i][1] < v[1])}
  BY <1>1, <1>2
<1>4. ST!lower_bound(v) = CHOOSE x \in T : \A y \in T : x <= y
  BY <1>3, Zenon DEF ST!lower_bound, ST!Min, ST!comp_, ST!end
<1>5. Lower(set_data, v[1]) = CHOOSE x \in T : \A y \in T : x <= y BY <1>2, Zenon DEF Lower
<1>6. ST!lower_bound(v) = Lower(set_data, v[1]) BY <1>4, <1>5, Zenon
<1>7. QED BY <1>6, Zenon DEF ST!find, ST!comp_, ST!end

\* The lookups after a step.
LEMMA SetLookupThen ==
    ASSUME set_data' \in Seq(ST!Elements), NEW v \in ST!Elements
    PROVE  /\ ST!lower_bound(v)' = Lower(set_data', v[1])
           /\ ST!upper_bound(v)' = Upper(set_data', v[1])
           /\ ST!find(v)' = LET i == Lower(set_data', v[1])
                            IN  IF i # Len(set_data') + 1 /\ ~ (v[1] < set_data'[i][1]) THEN i
                                ELSE Len(set_data') + 1
<1>1. PICK s \in Seq(ST!Elements) : s = set_data' BY Zenon
<1>2. Len(s) \in Nat BY LenProperties
<1>3. PICK T : T = {i \in 1 .. Len(s) + 1 : i > Len(s) \/ ~ (s[i][1] < v[1])} OBVIOUS
<1>4. PICK U : U = {i \in 1 .. Len(s) + 1 : i > Len(s) \/ v[1] < s[i][1]} OBVIOUS
<1>5. T = {i \in 1 .. Len(s) + 1 : i = Len(s) + 1 \/ ~ (s[i][1] < v[1])}
  BY <1>2, <1>3
<1>6. U = {i \in 1 .. Len(s) + 1 : i = Len(s) + 1 \/ v[1] < s[i][1]}
  BY <1>2, <1>4
<1>7. ST!lower_bound(v)' = CHOOSE x \in T : \A y \in T : x <= y
  BY <1>1, <1>5, Zenon DEF ST!lower_bound, ST!Min, ST!comp_, ST!end
<1>8. ST!upper_bound(v)' = CHOOSE x \in U : \A y \in U : x <= y
  BY <1>1, <1>6, Zenon DEF ST!upper_bound, ST!Min, ST!comp_, ST!end
<1>9. Lower(s, v[1]) = CHOOSE x \in T : \A y \in T : x <= y BY <1>3, Zenon DEF Lower
<1>10. Upper(s, v[1]) = CHOOSE x \in U : \A y \in U : x <= y BY <1>4, Zenon DEF Upper
<1>11. ST!lower_bound(v)' = Lower(set_data', v[1]) /\ ST!upper_bound(v)' = Upper(set_data', v[1])
  BY <1>1, <1>7, <1>8, <1>9, <1>10, Zenon
<1>12. QED BY <1>11, Zenon DEF ST!find, ST!comp_, ST!end

SetIInv == set_data \in Seq(ST!Elements) /\ Ordered(set_data)

\* What the vector holds.
LEMMA SetHolds ==
    ASSUME SetIInv
    PROVE  ST!Held = ElementsOf(set_data) /\ DOMAIN set_data = 1 .. Len(set_data)
<1>1. DOMAIN set_data = 1 .. Len(set_data) BY LenProperties DEF SetIInv
<1>2. QED BY <1>1, Zenon DEF ST!Held, ST!Range, ElementsOf

\* find() succeeds exactly if the rank is there.
LEMMA SetFinds ==
    ASSUME SetIInv, NEW v \in ST!Elements, NEW i, i = ST!lower_bound(v)
    PROVE  /\ i # ST!end /\ ~ ST!comp_(v, set_data[i]) <=> ST!Has(v)
           /\ ST!Has(v) => i \in 1 .. Len(set_data) /\ set_data[i][1] = v[1]
           /\ ST!find(v) = IF ST!Has(v) THEN i ELSE ST!end
           /\ ST!find(v) = ST!end <=> ~ ST!Has(v)
           /\ IsLower(set_data, v[1], i)
           /\ ST!Has(v) <=> v[1] \in RanksOf(ElementsOf(set_data))
<1>1. set_data \in Seq(ST!Elements) /\ Ordered(set_data) BY Zenon DEF SetIInv
<1>2. v[1] \in Int BY SetRanked, Zenon
<1>3. /\ i = Lower(set_data, v[1])
      /\ ST!find(v) = IF i # Len(set_data) + 1 /\ ~ (v[1] < set_data[i][1]) THEN i
                      ELSE Len(set_data) + 1
  BY <1>1, SetLookup, Zenon
<1>4. IsLower(set_data, v[1], i) BY <1>1, <1>2, <1>3, ElementsRanked, LowerIs, Zenon
<1>5. /\ (i <= Len(set_data) /\ ~ (v[1] < set_data[i][1]))
            <=> v[1] \in RanksOf(ElementsOf(set_data))
      /\ i <= Len(set_data) /\ ~ (v[1] < set_data[i][1]) => set_data[i][1] = v[1]
  BY <1>1, <1>2, <1>4, ElementsRanked, LowerSplits
<1>6. ST!Has(v) <=> v[1] \in RanksOf(ElementsOf(set_data))
  BY SetHolds, Zenon DEF ST!Has, ST!Classes, RanksOf
<1>7. Len(set_data) \in Nat /\ i \in 1 .. Len(set_data) + 1
  BY <1>1, <1>4, LenProperties DEF IsLower
<1>8. i # Len(set_data) + 1 <=> i <= Len(set_data) BY <1>7
<1>9. (i # Len(set_data) + 1 /\ ~ (v[1] < set_data[i][1])) <=> ST!Has(v) BY <1>5, <1>6, <1>8, Zenon
<1>10. i <= Len(set_data) => i \in 1 .. Len(set_data) BY <1>7
<1>11. ST!Has(v) => i \in 1 .. Len(set_data) /\ set_data[i][1] = v[1]
  BY <1>5, <1>8, <1>9, <1>10, Zenon
<1>12. ST!find(v) = IF ST!Has(v) THEN i ELSE Len(set_data) + 1 BY <1>3, <1>9, Zenon
<1>13. ST!find(v) = Len(set_data) + 1 <=> ~ ST!Has(v)
  <2>1. CASE ST!Has(v) BY <1>9, <1>12, <2>1, Zenon
  <2>2. CASE ~ ST!Has(v) BY <1>12, <2>2, Zenon
  <2>3. QED BY <2>1, <2>2, Zenon
<1>14. QED BY <1>4, <1>6, <1>9, <1>11, <1>12, <1>13, Zenon DEF ST!end, ST!comp_

\* An ordered vector answers every lookup.
LEMMA SetAgrees ==
    ASSUME SetIInv'
    PROVE  /\ ST!SortedUnique' /\ ST!LookupsAgree' /\ ST!Held' = ElementsOf(set_data')
<1>1. PICK s \in Seq(ST!Elements) : s = set_data' /\ Ordered(s) BY Zenon DEF SetIInv
<1>2. DOMAIN s = 1 .. Len(s) /\ Len(s) \in Nat BY LenProperties
<1>3. ST!Held' = ElementsOf(set_data') BY <1>1, <1>2, Zenon DEF ST!Held, ST!Range, ElementsOf
<1>4. ST!SortedUnique' BY <1>1, <1>2, Zenon DEF ST!SortedUnique, ST!comp_, Ordered
<1>5. ASSUME NEW v \in ST!Elements
      PROVE  /\ ST!upper_bound(v)' - ST!lower_bound(v)' = IF ST!Has(v)' THEN 1 ELSE 0
             /\ ST!find(v)' = IF ST!Has(v)' THEN ST!lower_bound(v)' ELSE ST!end'
             /\ \A i \in DOMAIN set_data' : i < ST!lower_bound(v)' <=> ST!comp_(set_data'[i], v)
  <2>1. v[1] \in Int BY SetRanked, Zenon
  <2>2. PICK i : i = Lower(s, v[1]) OBVIOUS
  <2>3. IsLower(s, v[1], i) BY <2>1, <2>2, ElementsRanked, LowerIs, Zenon
  <2>4. /\ \A j \in 1 .. Len(s) : j < i <=> s[j][1] < v[1]
        /\ (i <= Len(s) /\ ~ (v[1] < s[i][1])) <=> v[1] \in RanksOf(ElementsOf(s))
    BY <1>1, <2>1, <2>3, ElementsRanked, LowerSplits
  <2>5. ST!Has(v)' <=> v[1] \in RanksOf(ElementsOf(s))
    BY <1>1, <1>3, Zenon DEF ST!Has, ST!Classes, RanksOf
  <2>6. i # Len(s) + 1 <=> i <= Len(s) BY <1>2, <2>3 DEF IsLower
  <2>7. /\ ST!lower_bound(v)' = i /\ ST!upper_bound(v)' = Upper(s, v[1])
        /\ ST!find(v)' = IF i # Len(s) + 1 /\ ~ (v[1] < s[i][1]) THEN i ELSE Len(s) + 1
    BY <1>1, <2>2, SetLookupThen, Zenon
  <2>8. Upper(s, v[1]) - Lower(s, v[1]) = IF v[1] \in RanksOf(ElementsOf(s)) THEN 1 ELSE 0
    BY <1>1, <2>1, ElementsRanked, UpperIs, Zenon
  <2>9. ST!upper_bound(v)' - ST!lower_bound(v)' = IF ST!Has(v)' THEN 1 ELSE 0
    BY <2>2, <2>5, <2>7, <2>8, Zenon
  <2>10. ST!find(v)' = IF ST!Has(v)' THEN ST!lower_bound(v)' ELSE ST!end'
    BY <1>1, <2>4, <2>5, <2>6, <2>7, Zenon DEF ST!end
  <2>11. \A j \in DOMAIN set_data' : j < ST!lower_bound(v)' <=> ST!comp_(set_data'[j], v)
    BY <1>1, <1>2, <2>4, <2>7, Zenon DEF ST!comp_
  <2>12. QED BY <2>9, <2>10, <2>11, Zenon
<1>6. ST!LookupsAgree' BY <1>5, Zenon DEF ST!LookupsAgree
<1>7. QED BY <1>3, <1>4, <1>6, Zenon

\* insert() and emplace().
LEMMA SetInserts ==
    ASSUME SetIInv, NEW v \in ST!Elements, ST!InsertImpl(v)
    PROVE  SetIInv' /\ ST!SetStep
<1>1. PICK i : i = ST!lower_bound(v) OBVIOUS
<1>2. /\ i # ST!end /\ ~ ST!comp_(v, set_data[i]) <=> ST!Has(v)
      /\ IsLower(set_data, v[1], i)
      /\ ST!Has(v) <=> v[1] \in RanksOf(ElementsOf(set_data))
  BY <1>1, SetFinds, Zenon
<1>3. set_data \in Seq(ST!Elements) /\ Ordered(set_data) BY Zenon DEF SetIInv
<1>4. ST!Held = ElementsOf(set_data) BY SetHolds, Zenon
<1>5. CASE ST!Has(v)
  <2>1. set_data' = set_data /\ set_last' = [op |-> "insert", arg |-> v, res |-> FALSE]
    BY <1>1, <1>2, <1>5, Zenon DEF ST!InsertImpl, ST!Did
  <2>2. SetIInv' BY <1>3, <2>1, Zenon DEF SetIInv
  <2>3. ST!Held' = ST!Held BY <2>1 DEF ST!Held
  <2>4. set_last'.op = "insert" /\ set_last'.arg = v /\ set_last'.res = FALSE BY <2>1, Zenon
  <2>5. set_last'.res = ~ ST!Has(v)
    <3>1. (~ ST!Has(v)) = FALSE BY <1>5
    <3>2. QED BY <2>4, <3>1, Zenon
  <2>6. ST!SetStep BY <1>5, <2>3, <2>4, <2>5 DEF ST!SetStep
  <2>7. QED BY <2>2, <2>6, Zenon
<1>6. CASE ~ ST!Has(v)
  <2>1. /\ set_data' = ST!Inserted(set_data, i, v)
        /\ set_last' = [op |-> "insert", arg |-> v, res |-> TRUE]
    BY <1>1, <1>2, <1>6, Zenon DEF ST!InsertImpl, ST!Did
  <2>2. set_data' = Insertion(set_data, i, v) BY <2>1, Zenon DEF ST!Inserted, Insertion
  <2>3. v[1] \notin RanksOf(ElementsOf(set_data)) BY <1>2, <1>6, Zenon
  <2>4. /\ Insertion(set_data, i, v) \in Seq(ST!Elements) /\ Ordered(Insertion(set_data, i, v))
        /\ ElementsOf(Insertion(set_data, i, v)) = ElementsOf(set_data) \cup {v}
    BY <1>2, <1>3, <2>3, ElementsRanked, InsertedKeeps
  <2>5. SetIInv' BY <2>2, <2>4, Zenon DEF SetIInv
  <2>6. ST!Held' = ST!Held \cup {v} BY <1>4, <2>2, <2>4, <2>5, SetAgrees, Zenon
  <2>7. set_last'.op = "insert" /\ set_last'.arg = v /\ set_last'.res = TRUE BY <2>1, Zenon
  <2>8. set_last'.res = ~ ST!Has(v)
    <3>1. (~ ST!Has(v)) = TRUE BY <1>6
    <3>2. QED BY <2>7, <3>1, Zenon
  <2>9. ST!SetStep BY <1>6, <2>6, <2>7, <2>8 DEF ST!SetStep
  <2>10. QED BY <2>5, <2>9, Zenon
<1>7. QED BY <1>5, <1>6, Zenon

\* Taking out the element at i takes out its class.
LEMMA SetErases ==
    ASSUME SetIInv, NEW v \in ST!Elements, NEW i \in 1 .. Len(set_data), set_data[i][1] = v[1],
           set_data' = ST!Erased(set_data, i), set_last' = [op |-> "erase", arg |-> v, res |-> TRUE]
    PROVE  SetIInv' /\ ST!SetStep
<1>1. set_data \in Seq(ST!Elements) /\ Ordered(set_data) BY Zenon DEF SetIInv
<1>2. set_data' = Erasure(set_data, i) BY Zenon DEF ST!Erased, Erasure
<1>3. /\ Erasure(set_data, i) \in Seq(ST!Elements) /\ Ordered(Erasure(set_data, i))
      /\ ElementsOf(Erasure(set_data, i)) = Without(ElementsOf(set_data), set_data[i][1])
  BY <1>1, ElementsRanked, ErasedKeeps, Zenon
<1>4. SetIInv' BY <1>2, <1>3, Zenon DEF SetIInv
<1>5. ST!Held' = Without(ST!Held, v[1]) BY <1>2, <1>3, <1>4, SetHolds, SetAgrees, Zenon
<1>6. Without(ST!Held, v[1]) = {w \in ST!Held : ~ ST!Equivalent(v, w)}
  <2>1. \A w \in ST!Held : w[1] \in Int
    <3>1. \A j \in 1 .. Len(set_data) : set_data[j][1] \in Int
      BY <1>1, ElementsRanked, HeldIs, Zenon
    <3>2. QED BY <3>1, SetHolds, Zenon DEF ElementsOf
  <2>2. v[1] \in Int BY SetRanked, Zenon
  <2>3. \A w \in ST!Held : w[1] # v[1] <=> ~ ST!Equivalent(v, w)
    BY <2>1, <2>2 DEF ST!Equivalent, ST!comp_
  <2>4. QED BY <2>3, Zenon DEF Without
<1>7. ST!Has(v)
  <2>1. set_data[i] \in ST!Held BY SetHolds, Zenon DEF ElementsOf
  <2>2. QED BY <2>1, Zenon DEF ST!Has, ST!Classes
<1>8. set_last'.op = "erase" /\ set_last'.arg = v /\ set_last'.res = TRUE BY Zenon
<1>9. set_last'.res = ST!Has(v) BY <1>7, <1>8, Zenon DEF ST!Has
<1>10. ST!SetStep BY <1>5, <1>6, <1>8, <1>9 DEF ST!SetStep
<1>11. QED BY <1>4, <1>10, Zenon

\* erase(key).
LEMMA SetEraseKey ==
    ASSUME SetIInv, NEW v \in ST!Elements, ST!Erase(v)
    PROVE  SetIInv' /\ ST!SetStep
<1>1. PICK i : i = ST!lower_bound(v) OBVIOUS
<1>2. /\ ST!Has(v) => i \in 1 .. Len(set_data) /\ set_data[i][1] = v[1]
      /\ ST!find(v) = IF ST!Has(v) THEN i ELSE ST!end
      /\ ST!find(v) = ST!end <=> ~ ST!Has(v)
      /\ ST!Has(v) <=> v[1] \in RanksOf(ElementsOf(set_data))
  BY <1>1, SetFinds, Zenon
<1>3. CASE ST!Has(v)
  <2>1. set_data' = ST!Erased(set_data, i) /\ set_last' = [op |-> "erase", arg |-> v, res |-> TRUE]
    BY <1>2, <1>3, Zenon DEF ST!Erase, ST!Did
  <2>2. i \in 1 .. Len(set_data) /\ set_data[i][1] = v[1] BY <1>2, <1>3, Zenon
  <2>3. QED BY <2>1, <2>2, SetErases
<1>4. CASE ~ ST!Has(v)
  <2>1. set_data' = set_data /\ set_last' = [op |-> "erase", arg |-> v, res |-> FALSE]
    BY <1>2, <1>4, Zenon DEF ST!Erase, ST!Did
  <2>2. SetIInv' BY <2>1, Zenon DEF SetIInv
  <2>3. ST!Held' = ST!Held BY <2>1 DEF ST!Held
  <2>4. ST!Held = {w \in ST!Held : ~ ST!Equivalent(v, w)}
    <3>1. \A w \in ST!Held : w[1] \in Int /\ w[1] # v[1]
      <4>1. set_data \in Seq(ST!Elements) BY Zenon DEF SetIInv
      <4>2. \A j \in 1 .. Len(set_data) : set_data[j][1] \in Int
        BY <4>1, ElementsRanked, HeldIs, Zenon
      <4>3. \A w \in ElementsOf(set_data) : w[1] \in Int BY <4>2, Zenon DEF ElementsOf
      <4>4. \A w \in ElementsOf(set_data) : w[1] # v[1] BY <1>2, <1>4, Zenon DEF RanksOf
      <4>5. QED BY <4>3, <4>4, SetHolds, Zenon
    <3>2. v[1] \in Int BY SetRanked, Zenon
    <3>3. \A w \in ST!Held : ~ ST!Equivalent(v, w) BY <3>1, <3>2 DEF ST!Equivalent, ST!comp_
    <3>4. QED BY <3>3, Zenon
  <2>5. set_last'.op = "erase" /\ set_last'.arg = v /\ set_last'.res = FALSE BY <2>1, Zenon
  <2>6. set_last'.res = ST!Has(v)
    <3>1. ST!Has(v) = FALSE BY <1>4 DEF ST!Has
    <3>2. QED BY <2>5, <3>1, Zenon
  <2>7. ST!Held' = {w \in ST!Held : ~ ST!Equivalent(v, w)} BY <2>3, <2>4, Zenon
  <2>8. ST!SetStep BY <2>5, <2>6, <2>7 DEF ST!SetStep
  <2>9. QED BY <2>2, <2>8, Zenon
<1>5. QED BY <1>3, <1>4, Zenon

\* What a list of elements is.
LEMMA SetLists == \A l \in ST!Lists : l \in Seq(ST!Elements)
<1>1. ASSUME NEW l \in ST!Lists PROVE l \in Seq(ST!Elements)
  <2>1. PICK n \in 0 .. MaxElements : l \in [1 .. n -> ST!Elements] BY DEF ST!Lists
  <2>2. n \in Nat OBVIOUS
  <2>3. QED BY <2>1, <2>2, VectorOf, Zenon
<1>2. QED BY <1>1, Zenon

\* sort_unique() keeps one element of each rank, whichever std::sort puts first.
LEMMA SortUniqueBuilds ==
    ASSUME NEW l \in Seq(ST!Elements), NEW s \in ST!Sorted(l), NEW t \in ST!Unique(s)
    PROVE  /\ t \in Seq(ST!Elements) /\ Ordered(t) /\ ElementsOf(t) \subseteq ElementsOf(l)
           /\ RanksOf(ElementsOf(t)) = RanksOf(ElementsOf(l))
<1>1. DOMAIN l = 1 .. Len(l) BY LenProperties
<1>2. PICK p \in ST!Bijection(1 .. Len(l), 1 .. Len(l)) : s = [i \in 1 .. Len(l) |-> l[p[i]]]
  BY <1>1, Zenon DEF ST!Sorted
<1>3. \A i, j \in DOMAIN s : i < j => ~ (s[j][1] < s[i][1]) BY Zenon DEF ST!Sorted, ST!comp_
<1>4. p \in [1 .. Len(l) -> 1 .. Len(l)] /\ Onto(p, 1 .. Len(l)) /\ s = Arranged(l, p)
  BY <1>2 DEF ST!Bijection, ST!Surjection, Onto, Arranged
<1>5. s \in Seq(ST!Elements) /\ ElementsOf(s) = ElementsOf(l)
  <2>1. Arranged(l, p) \in Seq(ST!Elements) /\ ElementsOf(Arranged(l, p)) = ElementsOf(l)
    BY <1>4, ElementsRanked, ArrangedIs, Zenon
  <2>2. QED BY <1>4, <2>1, Zenon
<1>6. DOMAIN s = 1 .. Len(s) BY <1>5, LenProperties
<1>7. Ascending(s) BY <1>3, <1>6, Zenon DEF Ascending
<1>8. \A i \in 1 .. Len(s) : s[i][1] \in Int BY <1>5, ElementsRanked, HeldIs, Zenon
<1>9. PICK kept : kept = KeptOf(s) OBVIOUS
<1>10. kept = {i \in DOMAIN s : i = 1 \/ ~ ST!Equivalent(s[i - 1], s[i])}
  <2>1. \A i \in 1 .. Len(s) : i = 1 \/ (s[i - 1][1] # s[i][1] <=> ~ ST!Equivalent(s[i - 1], s[i]))
    <3>1. ASSUME NEW i \in 1 .. Len(s), i # 1
          PROVE  s[i - 1][1] # s[i][1] <=> ~ ST!Equivalent(s[i - 1], s[i])
      <4>1. PICK j \in 1 .. Len(s) : j = i - 1 BY <1>5, <3>1, LenProperties
      <4>2. s[j][1] # s[i][1] <=> ~ ST!Equivalent(s[j], s[i])
        BY <1>8 DEF ST!Equivalent, ST!comp_
      <4>3. QED BY <4>1, <4>2, Zenon
    <3>2. QED BY <3>1, Zenon
  <2>2. QED BY <1>6, <1>9, <2>1, Zenon DEF KeptOf
<1>11. PICK n : n = ST!Cardinality(kept) OBVIOUS
<1>12. n \in Nat
  <2>1. kept \subseteq 1 .. Len(s) BY <1>9 DEF KeptOf
  <2>2. QED BY <1>5, <1>11, <2>1, KeptCount, Zenon
<1>13. PICK q \in ST!Bijection(1 .. n, kept) :
          /\ \A i, j \in 1 .. n : i < j => q[i] < q[j]
          /\ t = [i \in 1 .. n |-> s[q[i]]]
  BY <1>10, <1>11, Zenon DEF ST!Unique
<1>14. q \in [1 .. n -> KeptOf(s)] /\ Onto(q, KeptOf(s)) /\ Increasing(q) /\ t = Arranged(s, q)
  BY <1>9, <1>13 DEF ST!Bijection, ST!Surjection, Onto, Increasing, Arranged
<1>15. /\ Arranged(s, q) \in Seq(ST!Elements) /\ Ordered(Arranged(s, q))
       /\ ElementsOf(Arranged(s, q)) = Firsts(s)
  BY <1>5, <1>7, <1>12, <1>14, ElementsRanked, UniqueKeeps, Zenon
<1>16. Firsts(s) \subseteq ElementsOf(s) /\ RanksOf(Firsts(s)) = RanksOf(ElementsOf(s))
  BY <1>5, ElementsRanked, FirstsRanks, Zenon
<1>17. QED BY <1>5, <1>14, <1>15, <1>16, Zenon

\* The constructors.
LEMMA SetConstructs ==
    ASSUME NEW l \in ST!Lists, ST!Construct(l)
    PROVE  SetIInv' /\ ST!SetStep
<1>1. l \in Seq(ST!Elements) BY SetLists, Zenon
<1>2. PICK s \in ST!Sorted(l) : set_data' \in ST!Unique(s) BY Zenon DEF ST!Construct
<1>3. set_last' = [op |-> "construct", arg |-> l, res |-> TRUE] BY Zenon DEF ST!Construct, ST!Did
<1>4. /\ set_data' \in Seq(ST!Elements) /\ Ordered(set_data')
      /\ ElementsOf(set_data') \subseteq ElementsOf(l)
      /\ RanksOf(ElementsOf(set_data')) = RanksOf(ElementsOf(l))
  BY <1>1, <1>2, SortUniqueBuilds, Zenon
<1>5. SetIInv' BY <1>4, Zenon DEF SetIInv
<1>6. ST!Held' = ElementsOf(set_data') BY <1>5, SetAgrees, Zenon
<1>7. ST!Range(l) = ElementsOf(l)
  <2>1. DOMAIN l = 1 .. Len(l) BY <1>1, LenProperties
  <2>2. QED BY <2>1, Zenon DEF ST!Range, ElementsOf
<1>8. ST!Held' \subseteq ST!Range(l) BY <1>4, <1>6, <1>7, Zenon
<1>9. ST!Classes(ST!Held') = ST!Classes(ST!Range(l))
  BY <1>4, <1>6, <1>7, Zenon DEF ST!Classes, RanksOf
<1>10. set_last'.op = "construct" /\ set_last'.arg = l BY <1>3, Zenon
<1>11. ST!SetStep BY <1>8, <1>9, <1>10 DEF ST!SetStep
<1>12. QED BY <1>5, <1>11, Zenon

\* erase(const_iterator).
LEMMA SetEraseAt ==
    ASSUME SetIInv, NEW i \in DOMAIN set_data, ST!EraseAt(i)
    PROVE  SetIInv' /\ ST!SetStep
<1>1. set_data \in Seq(ST!Elements) BY Zenon DEF SetIInv
<1>2. i \in 1 .. Len(set_data) BY SetHolds, Zenon
<1>3. PICK v \in ST!Elements : v = set_data[i] BY <1>1, <1>2, ElementOfSeq, Zenon
<1>4. set_data' = ST!Erased(set_data, i) /\ set_last' = [op |-> "erase", arg |-> v, res |-> TRUE]
  BY <1>3, Zenon DEF ST!EraseAt, ST!Did
<1>5. set_data[i][1] = v[1] BY <1>3, Zenon
<1>6. QED BY <1>2, <1>4, <1>5, SetErases

\* clear().
LEMMA SetClears ==
    ASSUME ST!Clear
    PROVE  SetIInv' /\ ST!SetStep
<1>1. set_data' = <<>> /\ set_last' = [op |-> "clear", arg |-> <<>>, res |-> TRUE]
  BY Zenon DEF ST!Clear, ST!Did
<1>2. SetIInv' /\ ElementsOf(set_data') = {} BY <1>1, EmptyVector, Zenon DEF SetIInv
<1>3. ST!Held' = {} BY <1>2, SetAgrees, Zenon
<1>4. set_last'.op = "clear" BY <1>1, Zenon
<1>5. ST!SetStep BY <1>3, <1>4 DEF ST!SetStep
<1>6. QED BY <1>2, <1>5, Zenon

\* FlatSet acts as a set of classes: its vector stays ordered, and the rest follows.
LEMMA SetActs == ST!Spec => ST!ActsAsSet
<1>1. ST!Init => SetIInv
  <2>1. SUFFICES ASSUME ST!Init PROVE SetIInv OBVIOUS
  <2>2. set_data = <<>> BY <2>1 DEF ST!Init
  <2>3. QED BY <2>2, EmptyVector, Zenon DEF SetIInv
<1>2. SetIInv /\ [ST!Next]_ST!vars
        => SetIInv' /\ [ST!SortedUnique' /\ ST!LookupsAgree' /\ ST!SetStep]_ST!vars
  <2>1. SUFFICES ASSUME SetIInv, [ST!Next]_ST!vars
                 PROVE  SetIInv' /\ [ST!SortedUnique' /\ ST!LookupsAgree' /\ ST!SetStep]_ST!vars
    OBVIOUS
  <2>2. CASE ST!Next
    <3>1. SetIInv' /\ ST!SetStep
      <4>1. ASSUME NEW l \in ST!Lists, ST!Construct(l) PROVE SetIInv' /\ ST!SetStep
        BY <4>1, SetConstructs, Zenon
      <4>2. ASSUME NEW v \in ST!Elements, ST!InsertImpl(v) \/ ST!Erase(v)
            PROVE  SetIInv' /\ ST!SetStep
        BY <2>1, <4>2, SetInserts, SetEraseKey, Zenon
      <4>3. ASSUME NEW i \in DOMAIN set_data, ST!EraseAt(i) PROVE SetIInv' /\ ST!SetStep
        BY <2>1, <4>3, SetEraseAt, Zenon
      <4>4. CASE ST!Clear BY <4>4, SetClears, Zenon
      <4>5. QED BY <2>2, <4>1, <4>2, <4>3, <4>4, Zenon DEF ST!Next
    <3>2. QED BY <3>1, SetAgrees, Zenon
  <2>3. CASE UNCHANGED ST!vars
    <3>1. set_data' = set_data BY <2>3, Zenon DEF ST!vars
    <3>2. SetIInv' BY <2>1, <3>1, Zenon DEF SetIInv
    <3>3. QED BY <2>3, <3>2, Zenon
  <2>4. QED BY <2>1, <2>2, <2>3, Zenon
<1>3. QED BY <1>1, <1>2, PTL DEF ST!Spec, ST!ActsAsSet

(* FlatMap and FlatSet: the vectors stay sorted with one entry per key,    *)
(* and every operation does to them what it would to a map or a set,       *)
(* however std::sort arranges equivalent elements and whichever way a map  *)
(* is constructed.                                                         *)
THEOREM ContainersAct == FM!Spec /\ ST!Spec => SortedContainers
BY MapActs, SetActs, PTL DEF SortedContainers

=============================================================================
