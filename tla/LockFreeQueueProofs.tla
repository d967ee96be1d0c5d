------------------------- MODULE LockFreeQueueProofs -------------------------
(***************************************************************************)
(* The ring of LockFreeQueue is race free and bounded for every number of  *)
(* threads, every capacity of at least two slots, every sequence of calls  *)
(* and both memory models.  A capacity of one is excluded because the      *)
(* algorithm is wrong there: "full" (pos + 1) and "vacant for the next     *)
(* lap" (pos + capacity) are then the same sequence number.                *)
(***************************************************************************)
EXTENDS LockFreeQueue, SequenceTheorems, TLAPS

ASSUME CapacityAssumption == Capacity \in Nat /\ Capacity >= 2

-----------------------------------------------------------------------------
(* Arithmetic of slot numbers.                                             *)

\* Division with remainder by the capacity.
LEMMA DivMod ==
    ASSUME NEW q \in Nat
    PROVE  /\ q % Capacity \in 0 .. Capacity - 1
           /\ q \div Capacity \in Nat
           /\ q = Capacity * (q \div Capacity) + (q % Capacity)
BY CapacityAssumption, SMT

\* A positive multiple of the capacity is at least the capacity.
LEMMA MultipleBound ==
    ASSUME NEW k \in Int, k >= 1
    PROVE  Capacity * k >= Capacity
BY CapacityAssumption, SMT

\* Multiples of the capacity subtract.
LEMMA MultipleDiff ==
    ASSUME NEW a \in Int, NEW b \in Int
    PROVE  Capacity * (b - a) = Capacity * b - Capacity * a /\ Capacity * a \in Int
BY CapacityAssumption, SMT

\* Quotient and remainder are unique.
LEMMA DivModUnique ==
    ASSUME NEW a \in Int, NEW b \in Int,
           NEW r \in 0 .. Capacity - 1, NEW s \in 0 .. Capacity - 1,
           Capacity * a + r = Capacity * b + s
    PROVE  a = b /\ r = s
<1>1. CASE a = b
  BY <1>1, CapacityAssumption, SMT
<1>2. CASE a < b
  <2>1. Capacity * (b - a) >= Capacity BY <1>2, MultipleBound
  <2>2. QED BY <2>1, MultipleDiff, CapacityAssumption
<1>3. CASE b < a
  <2>1. Capacity * (a - b) >= Capacity BY <1>3, MultipleBound
  <2>2. QED BY <2>1, MultipleDiff, CapacityAssumption
<1>4. QED BY <1>1, <1>2, <1>3

\* Every ticket has a slot of the ring.
LEMMA SlotInRing ==
    ASSUME NEW q \in Nat
    PROVE  SlotOf(q) \in Slots
BY DivMod DEF SlotOf, Slots

\* A ticket uses the slot of the ticket one lap before it.
LEMMA NextLap ==
    ASSUME NEW q \in Nat
    PROVE  SlotOf(q + Capacity) = SlotOf(q)
<1> DEFINE a == q \div Capacity
           r == q % Capacity
           b == (q + Capacity) \div Capacity
           s == (q + Capacity) % Capacity
<1>1. /\ a \in Nat /\ r \in 0 .. Capacity - 1
      /\ q = Capacity * a + r
  BY DivMod
<1>2. /\ b \in Nat /\ s \in 0 .. Capacity - 1
      /\ q + Capacity = Capacity * b + s
  BY DivMod, CapacityAssumption
<1> HIDE DEF a, r, b, s
<1>3. Capacity * (a + 1) = Capacity * a + Capacity
  BY <1>1, CapacityAssumption, SMT
<1>4. Capacity * (a + 1) + r = Capacity * b + s
  BY <1>1, <1>2, <1>3, CapacityAssumption, MultipleDiff
<1>5. r = s
  BY <1>1, <1>2, <1>4, DivModUnique
<1>6. QED BY <1>5 DEF r, s, SlotOf

\* Tickets less than a lap apart use different slots.
LEMMA SameSlot ==
    ASSUME NEW p \in Nat, NEW q \in Nat,
           p < q + Capacity, q < p + Capacity,
           SlotOf(p) = SlotOf(q)
    PROVE  p = q
<1> DEFINE a == p \div Capacity
           b == q \div Capacity
           r == p % Capacity
<1>1. a \in Nat /\ r \in 0 .. Capacity - 1 /\ p = Capacity * a + r
  BY DivMod
<1>2. b \in Nat /\ q = Capacity * b + r
  BY DivMod DEF SlotOf
<1> HIDE DEF a, b, r
<1>3. CASE a = b
  BY <1>1, <1>2, <1>3
<1>4. CASE a < b
  <2>1. Capacity * (b - a) >= Capacity BY <1>1, <1>2, <1>4, MultipleBound
  <2>2. QED BY <1>1, <1>2, <2>1, MultipleDiff, CapacityAssumption
<1>5. CASE b < a
  <2>1. Capacity * (a - b) >= Capacity BY <1>1, <1>2, <1>5, MultipleBound
  <2>2. QED BY <1>1, <1>2, <2>1, MultipleDiff, CapacityAssumption
<1>6. QED BY <1>1, <1>2, <1>3, <1>4, <1>5

-----------------------------------------------------------------------------
(* The ring invariant.                                                     *)

\* The constructor establishes the ring invariant.
LEMMA InitRing == Init => RingInv
<1> SUFFICES ASSUME Init PROVE RingInv
  OBVIOUS
<1>1. TypeOK
  BY CapacityAssumption DEF Init, TypeOK, Slots
<1>2. CapacityBound /\ Len(pushed) = enqueue_pos
  BY CapacityAssumption DEF Init, CapacityBound
<1>3. ASSUME NEW q \in enqueue_pos .. enqueue_pos + Capacity - 1
      PROVE  SlotState(q)
  <2>1. q \in Slots /\ q \in Nat
    BY <1>3, CapacityAssumption DEF Init, Slots
  <2>2. SlotOf(q) = q
    <3>1. SlotOf(q) \in Slots BY <2>1, SlotInRing
    <3>2. Capacity * (q \div Capacity) + (q % Capacity) = Capacity * 0 + q
      BY <2>1, DivMod, CapacityAssumption
    <3>3. q % Capacity = q
      BY <2>1, <3>2, DivMod, DivModUnique DEF Slots
    <3>4. QED BY <3>3 DEF SlotOf
  <2>3. QED BY <2>1, <2>2, CapacityAssumption DEF Init, SlotState, Slots
<1>4. \A t \in Threads : Knows(t)
  BY DEF Init, Knows, PushOwns, PopOwns
<1>5. \A t, u \in Threads : t # u /\ Owns(t) /\ Owns(u) => pos[t] # pos[u]
  BY DEF Init, Owns, PushOwns, PopOwns
<1>6. QED BY <1>1, <1>2, <1>3, <1>4, <1>5 DEF RingInv

\* Every step keeps the types.
LEMMA TypeStep == RingInv /\ [Next]_vars => TypeOK'
<1> SUFFICES ASSUME RingInv, [Next]_vars PROVE TypeOK'
  OBVIOUS
<1> USE DEF Goto, SetPos, Return, shared
<1>1. TypeOK /\ \A t \in Threads : SlotOf(pos[t]) \in Slots
  BY SlotInRing DEF RingInv, TypeOK
<1>2. \A n \in Nat : TicketLoads(n) \subseteq Nat
  BY DEF TicketLoads
<1>3. ASSUME NEW t \in Threads, Push(t) PROVE TypeOK'
  <2>1. CASE PushStart(t)
    BY <1>1, <1>2, <2>1 DEF PushStart, TypeOK
  <2>2. CASE PushLoadSequence(t)
    <3>1. PICK gap : PushGap(t, gap) /\ UNCHANGED <<shared, result>>
      BY <2>2 DEF PushLoadSequence
    <3>2. \/ Return(t)
          \/ pc' = [pc EXCEPT ![t] = "push_cas"] /\ UNCHANGED <<pos, arg>>
          \/ pc' = [pc EXCEPT ![t] = "push_reload"] /\ UNCHANGED <<pos, arg>>
      BY <3>1 DEF PushGap
    <3>3. pos' \in [Threads -> Nat] /\ arg' \in [Threads -> Values \union {NoValue}]
      <4>1. CASE Return(t) BY <1>1, <4>1 DEF TypeOK
      <4>2. CASE UNCHANGED <<pos, arg>> BY <1>1, <4>2 DEF TypeOK
      <4>3. QED BY <3>2, <4>1, <4>2
    <3>4. result' \in [Threads -> Values \union {NoValue}]
      BY <1>1, <3>1 DEF PushGap, TypeOK
    <3>5. \A u \in Threads \ {t} : pc'[u] = pc[u] /\ arg'[u] = arg[u]
      BY <1>1, <3>2 DEF TypeOK
    <3>6. QED BY <1>1, <2>2, <3>1, <3>2, <3>3, <3>4, <3>5 DEF PushLoadSequence, TypeOK
  <2>3. CASE PushReload(t)
    BY <1>1, <1>2, <2>3 DEF PushReload, TypeOK
  <2>4. CASE PushClaim(t)
    BY <1>1, <2>4 DEF PushClaim, TypeOK
  <2>5. CASE PushClaimFails(t)
    BY <1>1, <1>2, <2>5 DEF PushClaimFails, TypeOK
  <2>6. CASE PushWrite(t)
    BY <1>1, <2>6 DEF PushWrite, TypeOK
  <2>7. CASE PushPublish(t)
    BY <1>1, <2>7 DEF PushPublish, TypeOK
  <2>8. QED BY <1>3, <2>1, <2>2, <2>3, <2>4, <2>5, <2>6, <2>7 DEF Push
<1>4. ASSUME NEW t \in Threads, Pop(t) PROVE TypeOK'
  <2>1. CASE PopStart(t)
    BY <1>1, <1>2, <2>1 DEF PopStart, TypeOK
  <2>2. CASE PopLoadSequence(t)
    <3>1. PICK gap : PopGap(t, gap) /\ UNCHANGED <<shared>>
      BY <2>2 DEF PopLoadSequence
    <3>2. \/ Return(t)
          \/ pc' = [pc EXCEPT ![t] = "pop_cas"] /\ UNCHANGED <<pos, arg>>
          \/ pc' = [pc EXCEPT ![t] = "pop_reload"] /\ UNCHANGED <<pos, arg>>
      BY <3>1 DEF PopGap
    <3>3. pos' \in [Threads -> Nat] /\ arg' \in [Threads -> Values \union {NoValue}]
      <4>1. CASE Return(t) BY <1>1, <4>1 DEF TypeOK
      <4>2. CASE UNCHANGED <<pos, arg>> BY <1>1, <4>2 DEF TypeOK
      <4>3. QED BY <3>2, <4>1, <4>2
    <3>4. result' \in [Threads -> Values \union {NoValue}]
      BY <1>1, <3>1 DEF PopGap, TypeOK
    <3>5. \A u \in Threads \ {t} : pc'[u] = pc[u] /\ arg'[u] = arg[u]
      BY <1>1, <3>2 DEF TypeOK
    <3>6. QED BY <1>1, <2>2, <3>1, <3>2, <3>3, <3>4, <3>5 DEF PopLoadSequence, TypeOK
  <2>3. CASE PopReload(t)
    BY <1>1, <1>2, <2>3 DEF PopReload, TypeOK
  <2>4. CASE PopClaim(t)
    BY <1>1, <2>4 DEF PopClaim, TypeOK
  <2>5. CASE PopClaimFails(t)
    BY <1>1, <1>2, <2>5 DEF PopClaimFails, TypeOK
  <2>6. CASE PopTake(t)
    BY <1>1, <2>6 DEF PopTake, TypeOK
  <2>7. CASE PopPublish(t)
    BY <1>1, <2>7, CapacityAssumption DEF PopPublish, VacancyFor, TypeOK
  <2>8. QED BY <1>4, <2>1, <2>2, <2>3, <2>4, <2>5, <2>6, <2>7 DEF Pop
<1>5. CASE UNCHANGED vars
  BY <1>1, <1>5 DEF vars, TypeOK
<1>6. QED BY <1>3, <1>4, <1>5 DEF Next

\* A step that leaves the ring alone and takes or gives up no ticket keeps
\* the invariant, provided the thread's new knowledge is right.
LEMMA PrivateStep ==
    ASSUME RingInv, TypeOK', NEW t \in Threads,
           UNCHANGED shared, ~ Owns(t), ~ Owns(t)', Knows(t)',
           \A u \in Threads \ {t} : pc'[u] = pc[u] /\ pos'[u] = pos[u] /\ arg'[u] = arg[u]
    PROVE  RingInv'
<1> USE DEF Owns, PushOwns, PopOwns, shared
<1>1. CapacityBound' /\ Len(pushed)' = enqueue_pos'
  BY DEF RingInv, CapacityBound
<1>2. ASSUME NEW q \in (enqueue_pos .. enqueue_pos + Capacity - 1)' PROVE SlotState(q)'
  BY DEF RingInv, SlotState, SlotOf
<1>3. ASSUME NEW u \in Threads PROVE Knows(u)'
  BY DEF RingInv, Knows, SlotOf
<1>4. \A v, u \in Threads : v # u /\ Owns(v)' /\ Owns(u)' => pos'[v] # pos'[u]
  BY DEF RingInv
<1>5. QED BY <1>1, <1>2, <1>3, <1>4 DEF RingInv

\* No load of a slot's sequence runs ahead of its newest value.
LEMMA LoadsLag ==
    ASSUME TypeOK, NEW i \in Slots, NEW s \in SequenceLoads(i)
    PROVE  s \in Int /\ s <= sequence[i]
BY CapacityAssumption DEF SequenceLoads, TypeOK, Slots

\* The steps of try_push and try_pop that touch no shared state.
LEMMA PrivateActions ==
    ASSUME RingInv, TypeOK', NEW t \in Threads,
           \/ PushStart(t) \/ PushLoadSequence(t) \/ PushReload(t) \/ PushClaimFails(t)
           \/ PopStart(t) \/ PopLoadSequence(t) \/ PopReload(t) \/ PopClaimFails(t)
    PROVE  RingInv'
<1> USE DEF Goto, SetPos, Return, shared, Owns, PushOwns, PopOwns
<1>1. TypeOK /\ SlotOf(pos[t]) \in Slots
  BY SlotInRing DEF RingInv, TypeOK
<1>2. CASE PushStart(t) \/ PushReload(t) \/ PushClaimFails(t)
  <2>1. Knows(t)'
    BY <1>1, <1>2 DEF PushStart, PushReload, PushClaimFails, Knows, TypeOK
  <2>2. \A u \in Threads \ {t} : pc'[u] = pc[u] /\ pos'[u] = pos[u] /\ arg'[u] = arg[u]
    BY <1>1, <1>2 DEF PushStart, PushReload, PushClaimFails, TypeOK
  <2>3. UNCHANGED shared /\ ~ Owns(t) /\ ~ Owns(t)'
    BY <1>1, <1>2 DEF PushStart, PushReload, PushClaimFails, TypeOK
  <2>4. QED BY <2>1, <2>2, <2>3, PrivateStep
<1>3. CASE PopStart(t) \/ PopReload(t) \/ PopClaimFails(t)
  <2>1. Knows(t)'
    BY <1>1, <1>3 DEF PopStart, PopReload, PopClaimFails, Knows, TypeOK
  <2>2. \A u \in Threads \ {t} : pc'[u] = pc[u] /\ pos'[u] = pos[u] /\ arg'[u] = arg[u]
    BY <1>1, <1>3 DEF PopStart, PopReload, PopClaimFails, TypeOK
  <2>3. UNCHANGED shared /\ ~ Owns(t) /\ ~ Owns(t)'
    BY <1>1, <1>3 DEF PopStart, PopReload, PopClaimFails, TypeOK
  <2>4. QED BY <2>1, <2>2, <2>3, PrivateStep
<1>4. CASE PushLoadSequence(t)
  <2>1. PICK seq \in SequenceLoads(SlotOf(pos[t])) : PushGap(t, seq - pos[t])
    BY <1>4 DEF PushLoadSequence
  <2>2. seq \in Int /\ seq <= sequence[SlotOf(pos[t])]
    BY <1>1, LoadsLag
  <2>3. CASE Return(t)
    <3>1. Knows(t)' BY <1>1, <2>3 DEF Knows, TypeOK
    <3>2. QED BY <1>1, <1>4, <2>3, <3>1, PrivateStep DEF PushLoadSequence, TypeOK
  <2>4. CASE pc' = [pc EXCEPT ![t] = "push_reload"] /\ UNCHANGED <<pos, arg>>
    <3>1. Knows(t)' BY <1>1, <2>4 DEF Knows, TypeOK
    <3>2. QED BY <1>1, <1>4, <2>4, <3>1, PrivateStep DEF PushLoadSequence, TypeOK
  <2>5. CASE seq = pos[t] /\ pc' = [pc EXCEPT ![t] = "push_cas"] /\ UNCHANGED <<pos, arg>>
    <3>1. Knows(t)'
      BY <1>1, <1>4, <2>2, <2>5 DEF PushLoadSequence, Knows, TypeOK, SlotOf
    <3>2. QED BY <1>1, <1>4, <2>5, <3>1, PrivateStep DEF PushLoadSequence, TypeOK
  <2>6. seq - pos[t] = 0 => seq = pos[t]
    BY <1>1, <2>2 DEF TypeOK
  <2>7. QED BY <2>1, <2>3, <2>4, <2>5, <2>6 DEF PushGap
<1>5. CASE PopLoadSequence(t)
  <2>1. PICK seq \in SequenceLoads(SlotOf(pos[t])) : PopGap(t, seq - (pos[t] + 1))
    BY <1>5 DEF PopLoadSequence
  <2>2. seq \in Int /\ seq <= sequence[SlotOf(pos[t])]
    BY <1>1, LoadsLag
  <2>3. CASE Return(t)
    <3>1. Knows(t)' BY <1>1, <2>3 DEF Knows, TypeOK
    <3>2. QED BY <1>1, <1>5, <2>3, <3>1, PrivateStep DEF PopLoadSequence, TypeOK
  <2>4. CASE pc' = [pc EXCEPT ![t] = "pop_reload"] /\ UNCHANGED <<pos, arg>>
    <3>1. Knows(t)' BY <1>1, <2>4 DEF Knows, TypeOK
    <3>2. QED BY <1>1, <1>5, <2>4, <3>1, PrivateStep DEF PopLoadSequence, TypeOK
  <2>5. CASE seq = pos[t] + 1 /\ pc' = [pc EXCEPT ![t] = "pop_cas"] /\ UNCHANGED <<pos, arg>>
    <3>1. Knows(t)'
      BY <1>1, <1>5, <2>2, <2>5 DEF PopLoadSequence, Knows, TypeOK, SlotOf
    <3>2. QED BY <1>1, <1>5, <2>5, <3>1, PrivateStep DEF PopLoadSequence, TypeOK
  <2>6. seq - (pos[t] + 1) = 0 => seq = pos[t] + 1
    BY <1>1, <2>2 DEF TypeOK
  <2>7. QED BY <2>1, <2>3, <2>4, <2>5, <2>6 DEF PopGap
<1>6. QED BY <1>2, <1>3, <1>4, <1>5

\* A ticket in a thread's hands is one of the last Capacity ones taken.
LEMMA OwnerWindow ==
    ASSUME RingInv, NEW t \in Threads, Owns(t)
    PROVE  /\ pos[t] \in Nat /\ enqueue_pos \in Nat /\ dequeue_pos \in Nat
           /\ pos[t] < enqueue_pos /\ enqueue_pos <= pos[t] + Capacity
           /\ pos[t] + Capacity \in enqueue_pos .. enqueue_pos + Capacity - 1
           /\ SlotOf(pos[t] + Capacity) = SlotOf(pos[t])
           /\ SlotOf(pos[t]) \in Slots
<1>1. pos[t] \in Nat /\ enqueue_pos \in Nat /\ dequeue_pos \in Nat
  BY DEF RingInv, TypeOK
<1>2. dequeue_pos <= enqueue_pos /\ enqueue_pos <= dequeue_pos + Capacity
  BY DEF RingInv, CapacityBound
<1>3. /\ PushOwns(t) => dequeue_pos <= pos[t] /\ pos[t] < enqueue_pos
      /\ PopOwns(t) => pos[t] < dequeue_pos /\ enqueue_pos <= pos[t] + Capacity
  BY DEF RingInv, Knows
<1>4. pos[t] < enqueue_pos /\ enqueue_pos <= pos[t] + Capacity
  BY <1>1, <1>2, <1>3, CapacityAssumption DEF Owns
<1>5. QED BY <1>1, <1>4, SlotInRing, NextLap, CapacityAssumption

\* Its slot is no other ticket's of the next lap ...
LEMMA OtherSlot ==
    ASSUME RingInv, NEW t \in Threads, Owns(t),
           NEW q \in enqueue_pos .. enqueue_pos + Capacity - 1,
           q # pos[t] + Capacity
    PROVE  SlotOf(q) # SlotOf(pos[t])
BY OwnerWindow, SameSlot, CapacityAssumption

\* ... and no other owner's.
LEMMA OwnersApart == RingInv => NoSlotRace
<1> SUFFICES ASSUME RingInv, NEW t \in Threads, NEW u \in Threads,
                    t # u, Owns(t), Owns(u)
             PROVE  SlotOf(pos[t]) # SlotOf(pos[u])
  BY DEF NoSlotRace
<1>1. pos[t] # pos[u]
  BY DEF RingInv
<1>2. QED BY <1>1, OwnerWindow, SameSlot, CapacityAssumption

-----------------------------------------------------------------------------
(* The steps that change the ring.                                         *)

\* A producer stores its element in the slot it owns.
LEMMA PushWriteStep ==
    ASSUME RingInv, TypeOK', NEW t \in Threads, PushWrite(t)
    PROVE  RingInv'
<1> USE DEF Goto, Owns, PushOwns, PopOwns
<1>1. TypeOK /\ Owns(t) BY DEF RingInv, PushWrite
<1>2. /\ UNCHANGED <<sequence, enqueue_pos, dequeue_pos, pos, arg, result, pushed>>
      /\ pc[t] = "push_write" /\ pc' = [pc EXCEPT ![t] = "push_publish"]
      /\ value' = [value EXCEPT ![SlotOf(pos[t])] = arg[t]]
  BY DEF PushWrite
<1>3. \A u \in Threads : (PushOwns(u)' <=> PushOwns(u)) /\ (PopOwns(u)' <=> PopOwns(u))
  BY <1>1, <1>2 DEF TypeOK
<1>4. CapacityBound' /\ Len(pushed)' = enqueue_pos'
  BY <1>2 DEF RingInv, CapacityBound
<1>5. ASSUME NEW q \in (enqueue_pos .. enqueue_pos + Capacity - 1)' PROVE SlotState(q)'
  <2>1. SlotState(q) BY <1>2 DEF RingInv
  <2>2. CASE q = pos[t] + Capacity
    <3>1. sequence[SlotOf(pos[t])] = pos[t] /\ dequeue_pos <= pos[t]
      BY <1>1, <1>2 DEF RingInv, Knows
    <3>2. sequence[SlotOf(q)] = q - Capacity /\ q >= dequeue_pos + Capacity
      BY <1>1, <2>2, <3>1, OwnerWindow, CapacityAssumption
    <3>3. QED BY <1>2, <1>3, <2>2, <3>2 DEF SlotState, SlotOf
  <2>3. CASE q # pos[t] + Capacity
    <3>1. SlotOf(q) # SlotOf(pos[t]) BY <1>1, <1>2, <2>3, OtherSlot
    <3>2. SlotOf(q) \in Slots
      BY <1>1, <1>2, <1>5, SlotInRing, CapacityAssumption DEF TypeOK
    <3>3. value'[SlotOf(q)] = value[SlotOf(q)] BY <1>1, <1>2, <3>1, <3>2 DEF TypeOK
    <3>4. QED BY <1>2, <1>3, <2>1, <3>3 DEF SlotState, SlotOf
  <2>4. QED BY <2>2, <2>3
<1>6. ASSUME NEW u \in Threads PROVE Knows(u)'
  <2>1. CASE u = t
    BY <1>1, <1>2, <2>1, OwnerWindow DEF RingInv, Knows, TypeOK, SlotOf
  <2>2. CASE u # t
    <3>1. Owns(u) => value'[SlotOf(pos[u])] = value[SlotOf(pos[u])]
      BY <1>1, <1>2, <2>2, OwnersApart, OwnerWindow DEF NoSlotRace, TypeOK
    <3>2. pc'[u] = pc[u] BY <1>1, <1>2, <2>2 DEF TypeOK
    <3>3. QED BY <1>2, <3>1, <3>2 DEF RingInv, Knows, SlotOf
  <2>3. QED BY <2>1, <2>2
<1>7. \A v, u \in Threads : v # u /\ Owns(v)' /\ Owns(u)' => pos'[v] # pos'[u]
  BY <1>2, <1>3 DEF RingInv
<1>8. QED BY <1>4, <1>5, <1>6, <1>7 DEF RingInv

\* A producer publishes its element.
LEMMA PushPublishStep ==
    ASSUME RingInv, TypeOK', NEW t \in Threads, PushPublish(t)
    PROVE  RingInv'
<1> USE DEF Owns, PushOwns, PopOwns
<1>1. TypeOK /\ Owns(t) BY DEF RingInv, PushPublish
<1>2. /\ UNCHANGED <<value, enqueue_pos, dequeue_pos, result, pushed>>
      /\ pc[t] = "push_publish" /\ pc' = [pc EXCEPT ![t] = "idle"]
      /\ pos' = [pos EXCEPT ![t] = 0] /\ arg' = [arg EXCEPT ![t] = NoValue]
      /\ sequence' = [sequence EXCEPT ![SlotOf(pos[t])] = pos[t] + 1]
  BY DEF PushPublish, Return, Goto, SetPos
<1>3. \A u \in Threads \ {t} : pc'[u] = pc[u] /\ pos'[u] = pos[u] /\ arg'[u] = arg[u]
  BY <1>1, <1>2 DEF TypeOK
<1>4. ~ Owns(t)' BY <1>1, <1>2 DEF TypeOK
<1>5. CapacityBound' /\ Len(pushed)' = enqueue_pos'
  BY <1>2 DEF RingInv, CapacityBound
<1>6. /\ sequence[SlotOf(pos[t])] = pos[t] /\ dequeue_pos <= pos[t]
      /\ value[SlotOf(pos[t])] = pushed[pos[t] + 1]
  BY <1>1, <1>2 DEF RingInv, Knows
<1>7. ASSUME NEW i \in Slots PROVE sequence[i] <= sequence'[i]
  BY <1>1, <1>2, <1>6 DEF TypeOK
<1>8. ASSUME NEW q \in (enqueue_pos .. enqueue_pos + Capacity - 1)' PROVE SlotState(q)'
  <2>1. SlotState(q) BY <1>2 DEF RingInv
  <2>2. CASE q = pos[t] + Capacity
    <3>1. sequence'[SlotOf(q)] = q - Capacity + 1 /\ q >= dequeue_pos + Capacity
      BY <1>1, <1>2, <1>6, <2>2, OwnerWindow, CapacityAssumption DEF TypeOK
    <3>2. value[SlotOf(q)] = pushed[q - Capacity + 1]
      BY <1>1, <1>6, <2>2, OwnerWindow, CapacityAssumption
    <3>3. QED BY <1>2, <3>1, <3>2 DEF SlotState, SlotOf
  <2>3. CASE q # pos[t] + Capacity
    <3>1. SlotOf(q) # SlotOf(pos[t]) BY <1>1, <1>2, <2>3, OtherSlot
    <3>2. SlotOf(q) \in Slots
      BY <1>1, <1>2, <1>8, SlotInRing, CapacityAssumption DEF TypeOK
    <3>3. sequence'[SlotOf(q)] = sequence[SlotOf(q)] BY <1>1, <1>2, <3>1, <3>2 DEF TypeOK
    <3>4. QED BY <1>2, <1>3, <2>1, <2>3, <3>3 DEF SlotState, SlotOf
  <2>4. QED BY <2>2, <2>3
<1>9. ASSUME NEW u \in Threads PROVE Knows(u)'
  <2>1. CASE u = t
    BY <1>1, <1>2, <2>1 DEF Knows, TypeOK
  <2>2. CASE u # t
    <3>1. Owns(u) => sequence'[SlotOf(pos[u])] = sequence[SlotOf(pos[u])]
      BY <1>1, <1>2, <2>2, OwnersApart, OwnerWindow DEF NoSlotRace, TypeOK
    <3>2. /\ SlotOf(pos[u]) \in Slots /\ pos[u] \in Nat
          /\ sequence[SlotOf(pos[u])] \in Nat /\ sequence'[SlotOf(pos[u])] \in Nat
      BY <1>1, SlotInRing DEF TypeOK
    <3>3. sequence[SlotOf(pos[u])] <= sequence'[SlotOf(pos[u])] BY <1>7, <3>2
    <3>4. Knows(u) BY DEF RingInv
    <3>5. QED BY <1>2, <1>3, <2>2, <3>1, <3>2, <3>3, <3>4 DEF Knows, SlotOf
  <2>3. QED BY <2>1, <2>2
<1>10. \A v, u \in Threads : v # u /\ Owns(v)' /\ Owns(u)' => pos'[v] # pos'[u]
  BY <1>3, <1>4 DEF RingInv
<1>11. QED BY <1>5, <1>8, <1>9, <1>10 DEF RingInv

\* A consumer moves the element out of the slot it owns.
LEMMA PopTakeStep ==
    ASSUME RingInv, TypeOK', NEW t \in Threads, PopTake(t)
    PROVE  RingInv'
<1> USE DEF Goto, Owns, PushOwns, PopOwns
<1>1. TypeOK /\ Owns(t) BY DEF RingInv, PopTake
<1>2. /\ UNCHANGED <<sequence, enqueue_pos, dequeue_pos, pos, result, pushed>>
      /\ pc[t] = "pop_take" /\ pc' = [pc EXCEPT ![t] = "pop_publish"]
      /\ arg' = [arg EXCEPT ![t] = value[SlotOf(pos[t])]]
      /\ value' = [value EXCEPT ![SlotOf(pos[t])] = NoValue]
  BY DEF PopTake
<1>3. \A u \in Threads : (PushOwns(u)' <=> PushOwns(u)) /\ (PopOwns(u)' <=> PopOwns(u))
  BY <1>1, <1>2 DEF TypeOK
<1>4. CapacityBound' /\ Len(pushed)' = enqueue_pos'
  BY <1>2 DEF RingInv, CapacityBound
<1>5. /\ sequence[SlotOf(pos[t])] = pos[t] + 1
      /\ value[SlotOf(pos[t])] = pushed[pos[t] + 1]
  BY <1>1, <1>2 DEF RingInv, Knows
<1>6. ASSUME NEW q \in (enqueue_pos .. enqueue_pos + Capacity - 1)' PROVE SlotState(q)'
  <2>1. SlotState(q) BY <1>2 DEF RingInv
  <2>2. CASE q = pos[t] + Capacity
    <3>1. sequence[SlotOf(q)] = q - Capacity + 1
      BY <1>1, <1>5, <2>2, OwnerWindow, CapacityAssumption
    <3>2. QED BY <1>2, <1>3, <2>2, <3>1 DEF SlotState, SlotOf
  <2>3. CASE q # pos[t] + Capacity
    <3>1. SlotOf(q) # SlotOf(pos[t]) BY <1>1, <1>2, <2>3, OtherSlot
    <3>2. SlotOf(q) \in Slots
      BY <1>1, <1>2, <1>6, SlotInRing, CapacityAssumption DEF TypeOK
    <3>3. value'[SlotOf(q)] = value[SlotOf(q)] BY <1>1, <1>2, <3>1, <3>2 DEF TypeOK
    <3>4. QED BY <1>2, <1>3, <2>1, <3>3 DEF SlotState, SlotOf
  <2>4. QED BY <2>2, <2>3
<1>7. ASSUME NEW u \in Threads PROVE Knows(u)'
  <2>1. CASE u = t
    BY <1>1, <1>2, <1>5, <2>1, OwnerWindow DEF RingInv, Knows, TypeOK, SlotOf
  <2>2. CASE u # t
    <3>1. Owns(u) => value'[SlotOf(pos[u])] = value[SlotOf(pos[u])]
      BY <1>1, <1>2, <2>2, OwnersApart, OwnerWindow DEF NoSlotRace, TypeOK
    <3>2. pc'[u] = pc[u] /\ arg'[u] = arg[u] BY <1>1, <1>2, <2>2 DEF TypeOK
    <3>3. QED BY <1>2, <3>1, <3>2 DEF RingInv, Knows, SlotOf
  <2>3. QED BY <2>1, <2>2
<1>8. \A v, u \in Threads : v # u /\ Owns(v)' /\ Owns(u)' => pos'[v] # pos'[u]
  BY <1>2, <1>3 DEF RingInv
<1>9. QED BY <1>4, <1>6, <1>7, <1>8 DEF RingInv

\* A consumer publishes the vacancy for the next lap.
LEMMA PopPublishStep ==
    ASSUME RingInv, TypeOK', NEW t \in Threads, PopPublish(t)
    PROVE  RingInv'
<1> USE DEF Owns, PushOwns, PopOwns
<1>1. TypeOK /\ Owns(t) BY DEF RingInv, PopPublish
<1>2. /\ UNCHANGED <<value, enqueue_pos, dequeue_pos, pushed>>
      /\ pc[t] = "pop_publish" /\ pc' = [pc EXCEPT ![t] = "idle"]
      /\ pos' = [pos EXCEPT ![t] = 0] /\ arg' = [arg EXCEPT ![t] = NoValue]
      /\ sequence' = [sequence EXCEPT ![SlotOf(pos[t])] = pos[t] + Capacity]
  BY DEF PopPublish, Return, Goto, SetPos, VacancyFor
<1>3. \A u \in Threads \ {t} : pc'[u] = pc[u] /\ pos'[u] = pos[u] /\ arg'[u] = arg[u]
  BY <1>1, <1>2 DEF TypeOK
<1>4. ~ Owns(t)' BY <1>1, <1>2 DEF TypeOK
<1>5. CapacityBound' /\ Len(pushed)' = enqueue_pos'
  BY <1>2 DEF RingInv, CapacityBound
<1>6. sequence[SlotOf(pos[t])] = pos[t] + 1 /\ pos[t] < dequeue_pos
  BY <1>1, <1>2 DEF RingInv, Knows
<1>7. ASSUME NEW i \in Slots PROVE sequence[i] <= sequence'[i]
  BY <1>1, <1>2, <1>6, CapacityAssumption DEF TypeOK
<1>8. ASSUME NEW q \in (enqueue_pos .. enqueue_pos + Capacity - 1)' PROVE SlotState(q)'
  <2>1. SlotState(q) BY <1>2 DEF RingInv
  <2>2. CASE q = pos[t] + Capacity
    <3>1. sequence'[SlotOf(q)] = q /\ q < dequeue_pos + Capacity
      BY <1>1, <1>2, <1>6, <2>2, OwnerWindow, CapacityAssumption DEF TypeOK
    <3>2. QED BY <1>2, <3>1 DEF SlotState, SlotOf
  <2>3. CASE q # pos[t] + Capacity
    <3>1. SlotOf(q) # SlotOf(pos[t]) BY <1>1, <1>2, <2>3, OtherSlot
    <3>2. SlotOf(q) \in Slots
      BY <1>1, <1>2, <1>8, SlotInRing, CapacityAssumption DEF TypeOK
    <3>3. sequence'[SlotOf(q)] = sequence[SlotOf(q)] BY <1>1, <1>2, <3>1, <3>2 DEF TypeOK
    <3>4. QED BY <1>2, <1>3, <2>1, <2>3, <3>3 DEF SlotState, SlotOf
  <2>4. QED BY <2>2, <2>3
<1>9. ASSUME NEW u \in Threads PROVE Knows(u)'
  <2>1. CASE u = t
    BY <1>1, <1>2, <2>1 DEF Knows, TypeOK
  <2>2. CASE u # t
    <3>1. Owns(u) => sequence'[SlotOf(pos[u])] = sequence[SlotOf(pos[u])]
      BY <1>1, <1>2, <2>2, OwnersApart, OwnerWindow DEF NoSlotRace, TypeOK
    <3>2. /\ SlotOf(pos[u]) \in Slots /\ pos[u] \in Nat
          /\ sequence[SlotOf(pos[u])] \in Nat /\ sequence'[SlotOf(pos[u])] \in Nat
      BY <1>1, SlotInRing DEF TypeOK
    <3>3. sequence[SlotOf(pos[u])] <= sequence'[SlotOf(pos[u])] BY <1>7, <3>2
    <3>4. Knows(u) BY DEF RingInv
    <3>5. QED BY <1>2, <1>3, <2>2, <3>1, <3>2, <3>3, <3>4 DEF Knows, SlotOf
  <2>3. QED BY <2>1, <2>2
<1>10. \A v, u \in Threads : v # u /\ Owns(v)' /\ Owns(u)' => pos'[v] # pos'[u]
  BY <1>3, <1>4 DEF RingInv
<1>11. QED BY <1>5, <1>8, <1>9, <1>10 DEF RingInv

\* What a producer that wins its exchange finds: its slot is vacant for it.
LEMMA PushClaimVacant ==
    ASSUME RingInv, NEW t \in Threads, pc[t] = "push_cas", enqueue_pos = pos[t]
    PROVE  /\ sequence[SlotOf(enqueue_pos)] = enqueue_pos
           /\ enqueue_pos < dequeue_pos + Capacity
<1>1. enqueue_pos \in enqueue_pos .. enqueue_pos + Capacity - 1
      /\ enqueue_pos \in Nat /\ dequeue_pos \in Nat
  BY CapacityAssumption DEF RingInv, TypeOK
<1>2. SlotState(enqueue_pos) BY <1>1 DEF RingInv
<1>3. sequence[SlotOf(enqueue_pos)] >= enqueue_pos BY DEF RingInv, Knows
<1>4. sequence[SlotOf(enqueue_pos)] \in Nat BY <1>1, SlotInRing DEF RingInv, TypeOK
<1>5. QED BY <1>1, <1>2, <1>3, <1>4, CapacityAssumption DEF SlotState

\* What a consumer that wins its exchange finds: a published element that no
\* other consumer has claimed.
LEMMA PopClaimFull ==
    ASSUME RingInv, NEW t \in Threads, pc[t] = "pop_cas", dequeue_pos = pos[t]
    PROVE  /\ dequeue_pos < enqueue_pos
           /\ sequence[SlotOf(dequeue_pos)] = dequeue_pos + 1
           /\ value[SlotOf(dequeue_pos)] = pushed[dequeue_pos + 1]
<1>1. /\ enqueue_pos \in Nat /\ dequeue_pos \in Nat
      /\ dequeue_pos <= enqueue_pos /\ enqueue_pos <= dequeue_pos + Capacity
      /\ sequence[SlotOf(dequeue_pos)] \in Nat
  BY SlotInRing DEF RingInv, TypeOK, CapacityBound
<1>2. sequence[SlotOf(dequeue_pos)] >= dequeue_pos + 1 BY DEF RingInv, Knows
<1>3. dequeue_pos < enqueue_pos
  <2>1. SUFFICES ASSUME dequeue_pos = enqueue_pos PROVE FALSE BY <1>1
  <2>2. SlotState(dequeue_pos)
    BY <1>1, <2>1, CapacityAssumption DEF RingInv
  <2>3. QED BY <1>1, <1>2, <2>1, <2>2, CapacityAssumption DEF SlotState
<1>4. SlotState(dequeue_pos + Capacity) /\ SlotOf(dequeue_pos + Capacity) = SlotOf(dequeue_pos)
  <2>1. dequeue_pos + Capacity \in enqueue_pos .. enqueue_pos + Capacity - 1
    BY <1>1, <1>3, CapacityAssumption
  <2>2. QED BY <1>1, <2>1, NextLap DEF RingInv
<1>5. \A u \in Threads : PopOwns(u) => pos[u] \in Nat /\ pos[u] < dequeue_pos
  BY DEF RingInv, Knows, TypeOK
<1>6. /\ ~ (\E u \in Threads : PopOwns(u) /\ pos[u] + Capacity = dequeue_pos + Capacity)
      /\ (dequeue_pos + Capacity) - Capacity = dequeue_pos
      /\ ~ (dequeue_pos + Capacity < dequeue_pos + Capacity)
  BY <1>1, <1>5, CapacityAssumption
<1>7. \/ /\ sequence[SlotOf(dequeue_pos)] = dequeue_pos + 1
         /\ value[SlotOf(dequeue_pos)] = pushed[dequeue_pos + 1]
      \/ sequence[SlotOf(dequeue_pos)] = dequeue_pos
  BY <1>4, <1>6 DEF SlotState
<1>8. QED BY <1>1, <1>2, <1>3, <1>7

\* A producer wins its exchange.
LEMMA PushClaimStep ==
    ASSUME RingInv, TypeOK', NEW t \in Threads, PushClaim(t)
    PROVE  RingInv'
<1> USE DEF Owns, PushOwns, PopOwns
<1>1. TypeOK BY DEF RingInv
<1>2. /\ UNCHANGED <<sequence, value, dequeue_pos, pos, arg, result>>
      /\ pc[t] = "push_cas" /\ pc' = [pc EXCEPT ![t] = "push_write"]
      /\ enqueue_pos = pos[t] /\ enqueue_pos' = enqueue_pos + 1
      /\ pushed' = Append(pushed, arg[t])
  BY DEF PushClaim, Goto
<1>3. /\ sequence[SlotOf(enqueue_pos)] = enqueue_pos
      /\ enqueue_pos < dequeue_pos + Capacity
  BY <1>2, PushClaimVacant
<1>4. /\ enqueue_pos \in Nat /\ dequeue_pos \in Nat /\ pushed \in Seq(Values)
      /\ Len(pushed) = enqueue_pos /\ arg[t] \in Values
      /\ dequeue_pos <= enqueue_pos /\ enqueue_pos <= dequeue_pos + Capacity
  BY <1>1, <1>2 DEF RingInv, TypeOK, CapacityBound
<1>5. CapacityBound' /\ Len(pushed)' = enqueue_pos'
  BY <1>2, <1>3, <1>4, CapacityAssumption DEF CapacityBound
<1>6. /\ \A k \in 1 .. enqueue_pos : pushed'[k] = pushed[k]
      /\ pushed'[enqueue_pos + 1] = arg[t]
  BY <1>2, <1>4
<1>7. /\ \A u \in Threads \ {t} : pc'[u] = pc[u]
      /\ pc'[t] = "push_write"
  BY <1>1, <1>2 DEF TypeOK
<1>8. ASSUME NEW q \in (enqueue_pos .. enqueue_pos + Capacity - 1)' PROVE SlotState(q)'
  <2>1. CASE q = enqueue_pos + Capacity
    <3>1. SlotOf(q) = SlotOf(enqueue_pos) /\ q - Capacity = enqueue_pos
      BY <1>4, <2>1, NextLap, CapacityAssumption
    <3>2. q >= dequeue_pos + Capacity BY <1>4, <2>1, CapacityAssumption
    <3>3. QED BY <1>2, <1>3, <1>7, <2>1, <3>1, <3>2 DEF SlotState, SlotOf
  <2>2. CASE q # enqueue_pos + Capacity
    <3>0. enqueue_pos' = enqueue_pos + 1 /\ enqueue_pos \in Nat /\ dequeue_pos \in Nat
      BY <1>2, <1>4
    <3>1. q \in enqueue_pos .. enqueue_pos + Capacity - 1
      BY <1>8, <2>2, <3>0, CapacityAssumption
    <3>2. SlotState(q) BY <3>1 DEF RingInv
    <3>3. q >= dequeue_pos + Capacity => q - Capacity + 1 \in 1 .. enqueue_pos
      BY <3>0, <3>1, CapacityAssumption
    <3>4. QED BY <1>2, <1>6, <1>7, <3>2, <3>3 DEF SlotState, SlotOf
  <2>3. QED BY <2>1, <2>2
<1>9. ASSUME NEW u \in Threads PROVE Knows(u)'
  <2>1. CASE u = t
    BY <1>2, <1>3, <1>4, <1>6, <1>7, <2>1 DEF Knows, SlotOf
  <2>2. CASE u # t
    <3>1. Knows(u) /\ pos[u] \in Nat BY <1>1 DEF RingInv, TypeOK
    <3>2. Owns(u) => pos[u] + 1 \in 1 .. enqueue_pos BY <1>4, <3>1, OwnerWindow
    <3>3. PopOwns(u) => enqueue_pos + 1 <= pos[u] + Capacity
      <4>1. SUFFICES ASSUME PopOwns(u), enqueue_pos = pos[u] + Capacity PROVE FALSE
        BY <1>4, <3>1, CapacityAssumption DEF Knows
      <4>2. sequence[SlotOf(enqueue_pos)] = pos[u] + 1
        BY <3>1, <4>1, NextLap DEF Knows
      <4>3. QED BY <1>3, <3>1, <4>1, <4>2, CapacityAssumption
    <3>4. QED BY <1>2, <1>4, <1>6, <1>7, <2>2, <3>1, <3>2, <3>3 DEF Knows, SlotOf
  <2>3. QED BY <2>1, <2>2
<1>10. \A v, u \in Threads : v # u /\ Owns(v)' /\ Owns(u)' => pos'[v] # pos'[u]
  <2>1. \A u \in Threads \ {t} : Owns(u) => pos[u] # pos[t]
    BY <1>2, <1>4, OwnerWindow
  <2>2. QED BY <1>2, <1>7, <2>1 DEF RingInv
<1>11. QED BY <1>5, <1>8, <1>9, <1>10 DEF RingInv

\* A consumer wins its exchange.
LEMMA PopClaimStep ==
    ASSUME RingInv, TypeOK', NEW t \in Threads, PopClaim(t)
    PROVE  RingInv'
<1> USE DEF Owns, PushOwns, PopOwns
<1>1. TypeOK BY DEF RingInv
<1>2. /\ UNCHANGED <<sequence, value, enqueue_pos, pos, arg, result, pushed>>
      /\ pc[t] = "pop_cas" /\ pc' = [pc EXCEPT ![t] = "pop_take"]
      /\ dequeue_pos = pos[t] /\ dequeue_pos' = dequeue_pos + 1
  BY DEF PopClaim, Goto
<1>3. /\ dequeue_pos < enqueue_pos
      /\ sequence[SlotOf(dequeue_pos)] = dequeue_pos + 1
      /\ value[SlotOf(dequeue_pos)] = pushed[dequeue_pos + 1]
  BY <1>2, PopClaimFull
<1>4. /\ enqueue_pos \in Nat /\ dequeue_pos \in Nat
      /\ dequeue_pos <= enqueue_pos /\ enqueue_pos <= dequeue_pos + Capacity
  BY <1>1 DEF RingInv, TypeOK, CapacityBound
<1>5. CapacityBound' /\ Len(pushed)' = enqueue_pos'
  BY <1>2, <1>3, <1>4, CapacityAssumption DEF CapacityBound, RingInv
<1>6. /\ \A u \in Threads \ {t} : pc'[u] = pc[u]
      /\ pc'[t] = "pop_take"
  BY <1>1, <1>2 DEF TypeOK
<1>7. \A u \in Threads : PushOwns(u) => dequeue_pos + 1 <= pos[u]
  <2>1. SUFFICES ASSUME NEW u \in Threads, PushOwns(u) PROVE dequeue_pos + 1 <= pos[u]
    OBVIOUS
  <2>2. dequeue_pos <= pos[u] /\ sequence[SlotOf(pos[u])] = pos[u] /\ pos[u] \in Nat
    BY <1>1, <2>1 DEF RingInv, Knows, TypeOK
  <2>3. pos[u] # dequeue_pos BY <1>3, <1>4, <2>2
  <2>4. QED BY <1>4, <2>2, <2>3
<1>8. ASSUME NEW q \in (enqueue_pos .. enqueue_pos + Capacity - 1)' PROVE SlotState(q)'
  <2>1. SlotState(q) /\ q \in Int BY <1>2, <1>4, <1>8, CapacityAssumption DEF RingInv
  <2>2. CASE q = dequeue_pos + Capacity
    <3>1. SlotOf(q) = SlotOf(dequeue_pos) /\ q - Capacity = dequeue_pos
      BY <1>4, <2>2, NextLap, CapacityAssumption
    <3>2. QED BY <1>2, <1>3, <1>6, <2>2, <3>1 DEF SlotState, SlotOf
  <2>3. CASE q # dequeue_pos + Capacity
    <3>1. /\ q >= dequeue_pos + Capacity => q >= dequeue_pos' + Capacity
          /\ q < dequeue_pos + Capacity => q < dequeue_pos' + Capacity
      BY <1>2, <1>4, <2>1, <2>3, CapacityAssumption
    <3>2. QED BY <1>2, <1>6, <2>1, <3>1 DEF SlotState, SlotOf
  <2>4. QED BY <2>2, <2>3
<1>9. ASSUME NEW u \in Threads PROVE Knows(u)'
  <2>1. CASE u = t
    BY <1>2, <1>3, <1>4, <1>6, <2>1 DEF Knows, SlotOf
  <2>2. CASE u # t
    <3>1. Knows(u) /\ pos[u] \in Nat BY <1>1 DEF RingInv, TypeOK
    <3>2. QED BY <1>2, <1>4, <1>6, <1>7, <2>2, <3>1 DEF Knows, SlotOf
  <2>3. QED BY <2>1, <2>2
<1>10. \A v, u \in Threads : v # u /\ Owns(v)' /\ Owns(u)' => pos'[v] # pos'[u]
  <2>1. \A u \in Threads \ {t} : Owns(u) => pos[u] # pos[t]
    BY <1>1, <1>2, <1>4, <1>7 DEF RingInv, Knows, TypeOK
  <2>2. QED BY <1>2, <1>6, <2>1 DEF RingInv
<1>11. QED BY <1>5, <1>8, <1>9, <1>10 DEF RingInv

\* Every step keeps the ring invariant.
LEMMA RingStep == RingInv /\ [Next]_vars => RingInv'
<1> SUFFICES ASSUME RingInv, [Next]_vars PROVE RingInv'
  OBVIOUS
<1>1. TypeOK' BY TypeStep
<1>2. ASSUME NEW t \in Threads, Push(t) PROVE RingInv'
  BY <1>1, <1>2, PrivateActions, PushClaimStep, PushWriteStep, PushPublishStep DEF Push
<1>3. ASSUME NEW t \in Threads, Pop(t) PROVE RingInv'
  BY <1>1, <1>3, PrivateActions, PopClaimStep, PopTakeStep, PopPublishStep DEF Pop
<1>4. CASE UNCHANGED vars
  <2>1. \A q : SlotState(q)' = SlotState(q)
    BY <1>4 DEF vars, SlotState, SlotOf, PushOwns, PopOwns
  <2>2. \A t \in Threads : Knows(t)' = Knows(t) /\ Owns(t)' = Owns(t)
    BY <1>4 DEF vars, Knows, SlotOf, Owns, PushOwns, PopOwns
  <2>3. QED BY <1>1, <1>4, <2>1, <2>2 DEF vars, RingInv, CapacityBound
<1>5. QED BY <1>2, <1>3, <1>4 DEF Next

\* The ring invariant holds in every reachable state: the slot sequences say
\* truthfully which ticket may use each slot, for any threads and capacity.
THEOREM RingIsSound == Spec => []RingInv
BY InitRing, RingStep, PTL DEF Spec

\* The types of the ring and of the calls in progress, in every state.
THEOREM TypesHold == Spec => []TypeOK
<1>1. RingInv => TypeOK BY DEF RingInv
<1>2. QED BY <1>1, RingIsSound, PTL

\* "touched only by the one thread whose ticket owns the slot": no payload is
\* ever accessed by two threads at once.
THEOREM SlotsAreRaceFree == Spec => []NoSlotRace
BY RingIsSound, OwnersApart, PTL

\* try_push never accepts more than capacity() unclaimed elements and try_pop
\* never claims one that was not pushed.
THEOREM RingIsBounded == Spec => []CapacityBound
<1>1. RingInv => CapacityBound BY DEF RingInv
<1>2. QED BY <1>1, RingIsSound, PTL

-----------------------------------------------------------------------------
(* The queue implements a bounded FIFO.                                    *)

\* Pushing appends to the window of queued elements.
LEMMA WindowAppend ==
    ASSUME NEW S, NEW s \in Seq(S), NEW v \in S, NEW d \in Nat, d <= Len(s)
    PROVE  SubSeq(Append(s, v), d + 1, Len(s) + 1) = Append(SubSeq(s, d + 1, Len(s)), v)
<1> DEFINE w == SubSeq(s, d + 1, Len(s))
           x == SubSeq(Append(s, v), d + 1, Len(s) + 1)
<1>1. Append(s, v) \in Seq(S) /\ Len(Append(s, v)) = Len(s) + 1
  BY AppendProperties
<1>2. /\ w \in Seq(S) /\ Len(w) = Len(s) - d
      /\ \A i \in 1 .. Len(s) - d : w[i] = s[d + i]
  BY SubSeqProperties
<1>3. /\ x \in Seq(S) /\ Len(x) = Len(s) + 1 - d
      /\ \A i \in 1 .. Len(s) + 1 - d : x[i] = Append(s, v)[d + i]
  <2>1. \A i \in d + 1 .. Len(s) + 1 : Append(s, v)[i] \in S
    BY <1>1, ElementOfSeq
  <2>2. Len(s) \in Nat BY LenProperties
  <2>3. QED BY <2>1, <2>2, SubSeqProperties
<1> HIDE DEF w, x
<1>4. Append(w, v) \in Seq(S) /\ Len(Append(w, v)) = Len(s) + 1 - d
  BY <1>2, AppendProperties
<1>5. \A i \in 1 .. Len(s) + 1 - d : x[i] = Append(w, v)[i]
  <2>1. ASSUME NEW i \in 1 .. Len(s) + 1 - d PROVE x[i] = Append(w, v)[i]
    <3>1. x[i] = Append(s, v)[d + i] /\ Len(s) \in Nat BY <1>3, LenProperties
    <3>2. CASE i = Len(s) + 1 - d
      <4>1. d + i = Len(s) + 1 /\ i = Len(w) + 1 BY <1>2, <3>1, <3>2
      <4>2. Append(s, v)[Len(s) + 1] = v /\ Append(w, v)[Len(w) + 1] = v
        BY <1>2, AppendProperties
      <4>3. QED BY <3>1, <4>1, <4>2
    <3>3. CASE i # Len(s) + 1 - d
      <4>1. i \in 1 .. Len(s) - d /\ d + i \in 1 .. Len(s) BY <3>1, <3>3
      <4>2. Append(s, v)[d + i] = s[d + i] BY <3>1, <4>1, AppendProperties
      <4>3. Append(w, v)[i] = w[i] BY <1>2, <4>1, AppendProperties
      <4>4. QED BY <1>2, <3>1, <4>1, <4>2, <4>3
    <3>4. QED BY <3>2, <3>3
  <2>2. QED BY <2>1
<1>6. x = Append(w, v)
  BY <1>3, <1>4, <1>5, SeqEqual
<1>7. QED BY <1>6 DEF w, x

\* Claiming takes the window's head.
LEMMA WindowTail ==
    ASSUME NEW S, NEW s \in Seq(S), NEW d \in Nat, d < Len(s)
    PROVE  /\ SubSeq(s, d + 1, Len(s)) # << >>
           /\ Head(SubSeq(s, d + 1, Len(s))) = s[d + 1]
           /\ Tail(SubSeq(s, d + 1, Len(s))) = SubSeq(s, d + 1 + 1, Len(s))
BY HeadTailOfSubSeq, SubSeqProperties

\* The initial ring is an empty FIFO.
LEMMA InitFifo == Init => Fifo!Init
<1> SUFFICES ASSUME Init PROVE Fifo!Init
  OBVIOUS
<1>1. SubSeq(pushed, dequeue_pos + 1, enqueue_pos) = << >>
  BY SubSeqEmpty DEF Init
<1>2. [t \in Threads |-> IF PopOwns(t) THEN pushed[pos[t] + 1] ELSE NoValue]
        = [t \in Threads |-> NoValue]
  BY DEF Init, PopOwns
<1>3. QED BY <1>1, <1>2 DEF Init, Fifo!Init

\* Every step of the ring is a step of the FIFO or leaves it alone.
LEMMA StepFifo == RingInv /\ [Next]_vars => [Fifo!Next]_(Fifo!fifoVars)
<1> DEFINE queue == SubSeq(pushed, dequeue_pos + 1, enqueue_pos)
           hand == [t \in Threads |-> IF PopOwns(t) THEN pushed[pos[t] + 1] ELSE NoValue]
<1> SUFFICES ASSUME RingInv, [Next]_vars PROVE [Fifo!Next]_(Fifo!fifoVars)
  OBVIOUS
<1> USE DEF PopOwns
<1>1. TypeOK /\ Len(pushed) = enqueue_pos /\ CapacityBound BY DEF RingInv
<1>2. /\ pushed \in Seq(Values) /\ enqueue_pos \in Nat /\ dequeue_pos \in Nat
      /\ dequeue_pos <= enqueue_pos
  BY <1>1 DEF TypeOK, CapacityBound
<1>3. CASE UNCHANGED vars
  BY <1>3 DEF vars, Fifo!fifoVars
<1>4. ASSUME NEW t \in Threads, PushClaim(t) PROVE Fifo!Push(arg[t]) /\ arg[t] \in Values
  <2>1. /\ UNCHANGED <<sequence, value, dequeue_pos, pos, arg, result>>
        /\ pc[t] = "push_cas" /\ pc' = [pc EXCEPT ![t] = "push_write"]
        /\ enqueue_pos = pos[t] /\ enqueue_pos' = enqueue_pos + 1
        /\ pushed' = Append(pushed, arg[t])
    BY <1>4 DEF PushClaim, Goto
  <2>2. arg[t] \in Values BY <1>1, <2>1 DEF TypeOK
  <2>3. Len(queue) < Capacity
    <3>1. Len(queue) = enqueue_pos - dequeue_pos BY <1>1, <1>2, SubSeqProperties
    <3>2. enqueue_pos < dequeue_pos + Capacity BY <2>1, PushClaimVacant
    <3>3. QED BY <1>2, <3>1, <3>2, CapacityAssumption
  <2>4. queue' = Append(queue, arg[t])
    BY <1>1, <1>2, <2>1, <2>2, WindowAppend
  <2>5. hand' = hand
    <3>1. ASSUME NEW u \in Threads, PopOwns(u) PROVE pushed'[pos[u] + 1] = pushed[pos[u] + 1]
      <4>1. pos[u] + 1 \in 1 .. enqueue_pos BY <3>1, OwnerWindow DEF Owns
      <4>2. QED BY <1>1, <1>2, <2>1, <2>2, <4>1, AppendProperties
    <3>2. \A u \in Threads : PopOwns(u)' <=> PopOwns(u) BY <1>1, <2>1 DEF TypeOK
    <3>3. \A u \in Threads : pos'[u] = pos[u] BY <2>1
    <3> HIDE DEF PopOwns
    <3>4. QED BY <3>1, <3>2, <3>3
  <2>6. QED BY <2>1, <2>2, <2>3, <2>4, <2>5 DEF Fifo!Push
<1>5. ASSUME NEW t \in Threads, PopClaim(t) PROVE Fifo!Claim(t)
  <2>1. /\ UNCHANGED <<sequence, value, enqueue_pos, pos, arg, result, pushed>>
        /\ pc[t] = "pop_cas" /\ pc' = [pc EXCEPT ![t] = "pop_take"]
        /\ dequeue_pos = pos[t] /\ dequeue_pos' = dequeue_pos + 1
    BY <1>5 DEF PopClaim, Goto
  <2>2. dequeue_pos < Len(pushed) BY <1>1, <2>1, PopClaimFull
  <2>3. /\ queue # << >> /\ Head(queue) = pushed[dequeue_pos + 1]
        /\ queue' = Tail(queue)
    BY <1>1, <1>2, <2>1, <2>2, WindowTail
  <2>4. hand[t] = NoValue BY <2>1
  <2>5. hand' = [hand EXCEPT ![t] = pushed[dequeue_pos + 1]]
    <3>1. pc'[t] = "pop_take" /\ \A u \in Threads \ {t} : pc'[u] = pc[u]
      BY <1>1, <2>1 DEF TypeOK
    <3>2. QED BY <2>1, <3>1
  <2>6. QED BY <2>1, <2>3, <2>4, <2>5 DEF Fifo!Claim
<1>6. ASSUME NEW t \in Threads, PopPublish(t) PROVE Fifo!Deliver(t)
  <2>1. /\ UNCHANGED <<value, enqueue_pos, dequeue_pos, pushed>>
        /\ pc[t] = "pop_publish" /\ pc' = [pc EXCEPT ![t] = "idle"]
        /\ pos' = [pos EXCEPT ![t] = 0]
        /\ result' = [result EXCEPT ![t] = arg[t]]
    BY <1>6 DEF PopPublish, Return, Goto, SetPos
  <2>2. hand[t] = arg[t] BY <2>1 DEF RingInv, Knows
  <2>3. hand[t] # NoValue
    <3>1. pos[t] + 1 \in 1 .. Len(pushed) BY <1>1, <2>1, OwnerWindow DEF Owns
    <3>2. pushed[pos[t] + 1] \in Values BY <1>2, <3>1, ElementOfSeq
    <3>3. QED BY <2>1, <3>2, QueueAssumption
  <2>4. hand' = [hand EXCEPT ![t] = NoValue]
    <3>1. pc'[t] = "idle" /\ \A u \in Threads \ {t} : pc'[u] = pc[u] /\ pos'[u] = pos[u]
      BY <1>1, <2>1 DEF TypeOK
    <3>2. \A u \in Threads \ {t} : PopOwns(u)' <=> PopOwns(u) BY <3>1
    <3>3. ~ PopOwns(t)' BY <3>1
    <3>4. \A u \in Threads \ {t} : pushed'[pos'[u] + 1] = pushed[pos[u] + 1]
      BY <2>1, <3>1
    <3> HIDE DEF PopOwns
    <3>5. QED BY <3>2, <3>3, <3>4
  <2>5. QED BY <2>1, <2>2, <2>3, <2>4 DEF Fifo!Deliver
<1>7. ASSUME NEW t \in Threads,
             UNCHANGED <<pushed, enqueue_pos, dequeue_pos>>,
             \A u \in Threads : /\ PopOwns(u)' <=> PopOwns(u)
                                /\ PopOwns(u) => pos'[u] = pos[u]
      PROVE  queue' = queue /\ hand' = hand
  BY <1>7
<1>8. ASSUME NEW t \in Threads, PopLoadSequence(t)
      PROVE  Fifo!Miss(t) \/ UNCHANGED Fifo!fifoVars
  <2>1. UNCHANGED shared /\ pc[t] = "pop_load" BY <1>8 DEF PopLoadSequence
  <2>2. \/ Return(t) /\ result' = [result EXCEPT ![t] = NoValue]
        \/ pc' = [pc EXCEPT ![t] = "pop_cas"] /\ UNCHANGED <<pos, arg, result>>
        \/ pc' = [pc EXCEPT ![t] = "pop_reload"] /\ UNCHANGED <<pos, arg, result>>
    BY <1>8 DEF PopLoadSequence, PopGap, Goto
  <2>3. \A u \in Threads \ {t} : pc'[u] = pc[u] /\ pos'[u] = pos[u]
    BY <1>1, <2>2 DEF TypeOK, Return, Goto, SetPos
  <2>4. pc'[t] \in {"idle", "pop_cas", "pop_reload"}
    BY <1>1, <2>2 DEF TypeOK, Return, Goto
  <2>5. queue' = queue /\ hand' = hand
    BY <1>7, <2>1, <2>3, <2>4 DEF shared
  <2>6. hand[t] = NoValue BY <2>1
  <2>7. QED BY <2>2, <2>5, <2>6 DEF Fifo!Miss, Fifo!fifoVars
<1>9. ASSUME NEW t \in Threads,
             \/ PushStart(t) \/ PushLoadSequence(t) \/ PushReload(t) \/ PushClaimFails(t)
             \/ PushWrite(t) \/ PushPublish(t)
             \/ PopStart(t) \/ PopReload(t) \/ PopClaimFails(t) \/ PopTake(t)
      PROVE  UNCHANGED Fifo!fifoVars
  <2>1. UNCHANGED <<pushed, enqueue_pos, dequeue_pos, result>>
    BY <1>9 DEF PushStart, PushLoadSequence, PushReload, PushClaimFails, PushWrite,
                PushPublish, PopStart, PopReload, PopClaimFails, PopTake, shared
  <2>2. \A u \in Threads : /\ PopOwns(u)' <=> PopOwns(u)
                           /\ PopOwns(u) => pos'[u] = pos[u]
    <3>1. CASE PushLoadSequence(t)
      <4>1. PICK gap : PushGap(t, gap) BY <3>1 DEF PushLoadSequence
      <4>2. \/ Return(t)
            \/ pc' = [pc EXCEPT ![t] = "push_cas"] /\ UNCHANGED <<pos, arg>>
            \/ pc' = [pc EXCEPT ![t] = "push_reload"] /\ UNCHANGED <<pos, arg>>
        BY <4>1 DEF PushGap, Goto
      <4>3. QED BY <1>1, <3>1, <4>2 DEF PushLoadSequence, TypeOK, Return, Goto, SetPos
    <3>2. CASE PushStart(t) \/ PushReload(t) \/ PushClaimFails(t)
      BY <1>1, <3>2 DEF PushStart, PushReload, PushClaimFails, TypeOK, Goto, SetPos
    <3>3. CASE PushWrite(t) \/ PushPublish(t)
      BY <1>1, <3>3 DEF PushWrite, PushPublish, TypeOK, Return, Goto, SetPos
    <3>4. CASE PopStart(t) \/ PopReload(t) \/ PopClaimFails(t) \/ PopTake(t)
      BY <1>1, <3>4 DEF PopStart, PopReload, PopClaimFails, PopTake, TypeOK, Goto, SetPos
    <3>5. QED BY <1>9, <3>1, <3>2, <3>3, <3>4
  <2>3. QED BY <1>7, <2>1, <2>2 DEF Fifo!fifoVars
<1>10. QED
  BY <1>3, <1>4, <1>5, <1>6, <1>8, <1>9 DEF Next, Push, Pop, Fifo!Next

\* LockFreeQueue implements the bounded FIFO: won exchanges are the pushes and
\* pops, in ticket order, and each try_pop returns the element it claimed.
THEOREM QueueIsFifo == Spec => ImplementsBoundedFifo
<1>1. Spec => [][Fifo!Next]_(Fifo!fifoVars)
  BY RingIsSound, StepFifo, PTL DEF Spec
<1>2. QED BY <1>1, InitFifo, PTL DEF Spec, ImplementsBoundedFifo, Fifo!Spec

-----------------------------------------------------------------------------
(* Refusals.  A call that gives up has looked at one slot only; what it    *)
(* says about the whole queue rests on where its ticket stands.            *)

\* Until its exchange is won, a call's ticket is one its counter has held.
TicketsReached ==
    \A t \in Threads :
        /\ pc[t] \in {"push_load", "push_reload", "push_cas"} => pos[t] <= enqueue_pos
        /\ pc[t] \in {"pop_load", "pop_reload", "pop_cas"}    => pos[t] <= dequeue_pos

\* The Capacity tickets from e on use every slot.
LEMMA WindowTicket ==
    ASSUME NEW p \in Nat, NEW e \in Nat
    PROVE  \E q \in e .. e + Capacity - 1 : q \in Nat /\ SlotOf(q) = SlotOf(p)
<1> DEFINE a == e \div Capacity
           s == e % Capacity
           r == p % Capacity
<1>1. a \in Nat /\ s \in 0 .. Capacity - 1 /\ e = Capacity * a + s
  BY DivMod
<1>2. r \in 0 .. Capacity - 1
  BY DivMod
<1>3. SlotOf(p) = r
  BY DEF SlotOf
<1> HIDE DEF a, s, r
<1>4. Capacity * a \in Int /\ Capacity * (a + 1) = Capacity * a + Capacity
  BY <1>1, CapacityAssumption, SMT
<1>5. ASSUME NEW b \in Nat, Capacity * b \in Int, Capacity * b + r \in Nat
      PROVE  SlotOf(Capacity * b + r) = r
  <2> DEFINE q == Capacity * b + r
  <2>1. /\ q \div Capacity \in Nat /\ q % Capacity \in 0 .. Capacity - 1
        /\ q = Capacity * (q \div Capacity) + (q % Capacity)
    BY <1>5, DivMod
  <2>2. QED BY <1>2, <2>1, DivModUnique DEF SlotOf
<1>6. CASE r >= s
  <2>1. Capacity * a + r \in e .. e + Capacity - 1 /\ Capacity * a + r \in Nat
    BY <1>1, <1>2, <1>4, <1>6, CapacityAssumption
  <2>2. QED BY <1>1, <1>3, <1>4, <1>5, <2>1
<1>7. CASE r < s
  <2>1. /\ Capacity * (a + 1) + r \in e .. e + Capacity - 1
        /\ Capacity * (a + 1) + r \in Nat /\ Capacity * (a + 1) \in Int
    BY <1>1, <1>2, <1>4, <1>7, CapacityAssumption
  <2>2. QED BY <1>1, <1>3, <1>5, <2>1
<1>8. QED BY <1>1, <1>2, <1>6, <1>7

\* The slot of a ticket that was taken has moved on to that ticket at least:
\* it still stands there only while the ticket's producer writes.
LEMMA TakenTicket ==
    ASSUME RingInv, NEW p \in Nat, p < enqueue_pos
    PROVE  /\ sequence[SlotOf(p)] \in Nat /\ sequence[SlotOf(p)] >= p
           /\ sequence[SlotOf(p)] = p => \E u \in Threads : PushOwns(u) /\ pos[u] = p
<1>1. enqueue_pos \in Nat /\ sequence[SlotOf(p)] \in Nat
  BY SlotInRing DEF RingInv, TypeOK
<1>2. PICK q \in enqueue_pos .. enqueue_pos + Capacity - 1 :
          q \in Nat /\ SlotOf(q) = SlotOf(p)
  BY <1>1, WindowTicket
<1>3. q >= p + Capacity
  <2>1. q # p /\ p < q + Capacity BY <1>1, <1>2, CapacityAssumption
  <2>2. ~ (q < p + Capacity) BY <1>2, <2>1, SameSlot
  <2>3. QED BY <1>2, <2>2, CapacityAssumption
<1>4. SlotState(q) BY <1>2 DEF RingInv
<1>5. \A u \in Threads : pos[u] \in Nat BY DEF RingInv, TypeOK
<1>6. CASE sequence[SlotOf(q)] = q
  BY <1>1, <1>2, <1>3, <1>6, CapacityAssumption
<1>7. CASE sequence[SlotOf(q)] = q - Capacity + 1
  BY <1>1, <1>2, <1>3, <1>7, CapacityAssumption
<1>8. CASE /\ sequence[SlotOf(q)] = q - Capacity
           /\ \E t \in Threads : PushOwns(t) /\ pos[t] + Capacity = q
  <2>1. PICK t \in Threads : PushOwns(t) /\ pos[t] + Capacity = q BY <1>8
  <2>2. sequence[SlotOf(p)] = pos[t]
    BY <1>2, <1>5, <1>8, <2>1, CapacityAssumption
  <2>3. QED BY <1>1, <1>2, <1>3, <1>5, <1>8, <2>1, <2>2, CapacityAssumption
<1>9. QED BY <1>4, <1>6, <1>7, <1>8 DEF SlotState

\* The constructor leaves no call in progress.
LEMMA InitTickets == Init => TicketsReached
BY DEF Init, TicketsReached

\* Every step keeps the calls' tickets behind their counters, which only grow.
LEMMA TicketsStep == RingInv /\ TicketsReached /\ [Next]_vars => TicketsReached'
<1> SUFFICES ASSUME RingInv, TicketsReached, [Next]_vars PROVE TicketsReached'
  OBVIOUS
<1> USE DEF Goto, SetPos, Return, shared
<1>1. TypeOK BY DEF RingInv
<1>2. /\ enqueue_pos \in Nat /\ dequeue_pos \in Nat /\ \A t \in Threads : pos[t] \in Nat
      /\ pc = [t \in Threads |-> pc[t]] /\ pos \in [Threads -> Nat]
  BY <1>1 DEF TypeOK
<1>3. \A n \in Nat : \A p \in TicketLoads(n) : p \in Nat /\ p <= n
  BY DEF TicketLoads
<1>4. ASSUME NEW t \in Threads, Push(t) \/ Pop(t) PROVE TicketsReached'
  <2>1. /\ enqueue_pos' \in Nat /\ enqueue_pos <= enqueue_pos'
        /\ dequeue_pos' \in Nat /\ dequeue_pos <= dequeue_pos'
    BY <1>2, <1>4 DEF Push, PushStart, PushLoadSequence, PushReload, PushClaim,
         PushClaimFails, PushWrite, PushPublish, Pop, PopStart, PopLoadSequence, PopReload,
         PopClaim, PopClaimFails, PopTake, PopPublish
  <2>2. \A u \in Threads \ {t} : pc'[u] = pc[u] /\ pos'[u] = pos[u]
    <3>1. CASE PushLoadSequence(t)
      <4>1. PICK gap : PushGap(t, gap) BY <3>1 DEF PushLoadSequence
      <4>2. QED BY <1>2, <4>1 DEF PushGap
    <3>2. CASE PopLoadSequence(t)
      <4>1. PICK gap : PopGap(t, gap) BY <3>2 DEF PopLoadSequence
      <4>2. QED BY <1>2, <4>1 DEF PopGap
    <3>3. CASE PushStart(t) \/ PushReload(t) \/ PushClaimFails(t)
      BY <1>2, <3>3 DEF PushStart, PushReload, PushClaimFails
    <3>4. CASE PopStart(t) \/ PopReload(t) \/ PopClaimFails(t)
      BY <1>2, <3>4 DEF PopStart, PopReload, PopClaimFails
    <3>5. CASE PushClaim(t) \/ PushWrite(t) \/ PushPublish(t)
      BY <1>2, <3>5 DEF PushClaim, PushWrite, PushPublish
    <3>6. CASE PopClaim(t) \/ PopTake(t) \/ PopPublish(t)
      BY <1>2, <3>6 DEF PopClaim, PopTake, PopPublish
    <3>7. QED BY <1>4, <3>1, <3>2, <3>3, <3>4, <3>5, <3>6 DEF Push, Pop
  <2>3. /\ pc'[t] \in {"push_load", "push_reload", "push_cas"} => pos'[t] <= enqueue_pos'
        /\ pc'[t] \in {"pop_load", "pop_reload", "pop_cas"} => pos'[t] <= dequeue_pos'
    <3>1. CASE PushLoadSequence(t)
      <4>1. PICK gap : PushGap(t, gap) BY <3>1 DEF PushLoadSequence
      <4>2. pc[t] = "push_load" /\ pos[t] <= enqueue_pos
        BY <3>1 DEF PushLoadSequence, TicketsReached
      <4>3. \/ pc'[t] = "idle"
            \/ pc'[t] \in {"push_cas", "push_reload"} /\ pos'[t] = pos[t]
        BY <1>2, <4>1 DEF PushGap
      <4>4. QED BY <1>2, <2>1, <4>2, <4>3
    <3>2. CASE PopLoadSequence(t)
      <4>1. PICK gap : PopGap(t, gap) BY <3>2 DEF PopLoadSequence
      <4>2. pc[t] = "pop_load" /\ pos[t] <= dequeue_pos
        BY <3>2 DEF PopLoadSequence, TicketsReached
      <4>3. \/ pc'[t] = "idle"
            \/ pc'[t] \in {"pop_cas", "pop_reload"} /\ pos'[t] = pos[t]
        BY <1>2, <4>1 DEF PopGap
      <4>4. QED BY <1>2, <2>1, <4>2, <4>3
    <3>3. CASE PushStart(t) \/ PushReload(t) \/ PushClaimFails(t)
      <4>1. PICK p \in TicketLoads(enqueue_pos) : pos' = [pos EXCEPT ![t] = p]
        BY <3>3 DEF PushStart, PushReload, PushClaimFails
      <4>2. pc'[t] = "push_load" /\ pos'[t] = p
        BY <1>2, <3>3, <4>1 DEF PushStart, PushReload, PushClaimFails
      <4>3. p \in Nat /\ p <= enqueue_pos BY <1>2, <1>3, <4>1
      <4>4. QED BY <1>2, <2>1, <4>2, <4>3
    <3>4. CASE PopStart(t) \/ PopReload(t) \/ PopClaimFails(t)
      <4>1. PICK p \in TicketLoads(dequeue_pos) : pos' = [pos EXCEPT ![t] = p]
        BY <3>4 DEF PopStart, PopReload, PopClaimFails
      <4>2. pc'[t] = "pop_load" /\ pos'[t] = p
        BY <1>2, <3>4, <4>1 DEF PopStart, PopReload, PopClaimFails
      <4>3. p \in Nat /\ p <= dequeue_pos BY <1>2, <1>3, <4>1
      <4>4. QED BY <1>2, <2>1, <4>2, <4>3
    <3>5. CASE PushClaim(t) \/ PushWrite(t) \/ PushPublish(t)
      BY <1>2, <3>5 DEF PushClaim, PushWrite, PushPublish
    <3>6. CASE PopClaim(t) \/ PopTake(t) \/ PopPublish(t)
      BY <1>2, <3>6 DEF PopClaim, PopTake, PopPublish
    <3>7. QED BY <1>4, <3>1, <3>2, <3>3, <3>4, <3>5, <3>6 DEF Push, Pop
  <2>4. ASSUME NEW u \in Threads \ {t}
        PROVE  /\ pc'[u] \in {"push_load", "push_reload", "push_cas"} => pos'[u] <= enqueue_pos'
               /\ pc'[u] \in {"pop_load", "pop_reload", "pop_cas"} => pos'[u] <= dequeue_pos'
    BY <1>2, <2>1, <2>2 DEF TicketsReached
  <2>5. QED BY <2>3, <2>4 DEF TicketsReached
<1>5. CASE UNCHANGED vars
  BY <1>5 DEF vars, TicketsReached
<1>6. QED BY <1>4, <1>5 DEF Next

\* A try_push that gives up saw a ticket's slot one lap behind.
LEMMA RefusedPush ==
    ASSUME RingInv, TicketsReached, NEW t \in Threads,
           PushLoadSequence(t), pc'[t] = "idle", ~ StaleRefusal(t, pos[t])
    PROVE  \/ enqueue_pos >= dequeue_pos + Capacity
           \/ \E u \in Threads : PopOwns(u) /\ pos[u] + Capacity = pos[t]
<1>1. TypeOK BY DEF RingInv
<1>2. /\ pc[t] = "push_load" /\ pos[t] \in Nat /\ pos[t] <= enqueue_pos
      /\ enqueue_pos \in Nat /\ dequeue_pos \in Nat
      /\ sequence[SlotOf(pos[t])] \in Nat
  BY <1>1, SlotInRing DEF PushLoadSequence, TicketsReached, TypeOK
<1>3. PICK seq \in SequenceLoads(SlotOf(pos[t])) : PushGap(t, seq - pos[t])
  BY DEF PushLoadSequence
<1>4. sequence[SlotOf(pos[t])] < pos[t]
  <2>1. seq - pos[t] < 0
    BY <1>1, <1>3 DEF PushGap, Goto, TypeOK
  <2>2. CASE Relaxed
    BY <1>2, <2>2 DEF StaleRefusal
  <2>3. CASE ~Relaxed
    BY <1>2, <2>1, <2>3 DEF SequenceLoads
  <2>4. QED BY <2>2, <2>3
<1>5. pos[t] = enqueue_pos
  BY <1>2, <1>4, TakenTicket
<1>6. SlotState(pos[t])
  BY <1>2, <1>5, CapacityAssumption DEF RingInv
<1>7. QED BY <1>2, <1>4, <1>5, <1>6, CapacityAssumption DEF SlotState

\* A try_pop that gives up saw a slot that waits for its producer.
LEMMA RefusedPop ==
    ASSUME RingInv, TicketsReached, NEW t \in Threads,
           PopLoadSequence(t), pc'[t] = "idle", ~ StaleRefusal(t, pos[t] + 1)
    PROVE  \/ enqueue_pos = dequeue_pos
           \/ \E u \in Threads : PushOwns(u) /\ pos[u] = pos[t]
<1>1. TypeOK BY DEF RingInv
<1>2. /\ pc[t] = "pop_load" /\ pos[t] \in Nat /\ pos[t] <= dequeue_pos
      /\ enqueue_pos \in Nat /\ dequeue_pos \in Nat /\ dequeue_pos <= enqueue_pos
      /\ sequence[SlotOf(pos[t])] \in Nat
  BY <1>1, SlotInRing DEF PopLoadSequence, TicketsReached, TypeOK, RingInv, CapacityBound
<1>3. PICK seq \in SequenceLoads(SlotOf(pos[t])) : PopGap(t, seq - (pos[t] + 1))
  BY DEF PopLoadSequence
<1>4. sequence[SlotOf(pos[t])] <= pos[t]
  <2>1. seq - (pos[t] + 1) < 0
    BY <1>1, <1>3 DEF PopGap, Goto, TypeOK
  <2>2. CASE Relaxed
    BY <1>2, <2>2 DEF StaleRefusal
  <2>3. CASE ~Relaxed
    BY <1>2, <2>1, <2>3 DEF SequenceLoads
  <2>4. QED BY <2>2, <2>3
<1>5. CASE pos[t] = enqueue_pos
  BY <1>2, <1>5
<1>6. CASE pos[t] < enqueue_pos
  <2>1. sequence[SlotOf(pos[t])] = pos[t] BY <1>2, <1>4, <1>6, TakenTicket
  <2>2. QED BY <1>2, <1>6, <2>1, TakenTicket
<1>7. QED BY <1>2, <1>5, <1>6

\* A step that ends a call at its load is that load.
LEMMA RefusalSteps ==
    ASSUME RingInv, [Next]_vars, NEW t \in Threads, pc'[t] = "idle"
    PROVE  /\ pc[t] = "push_load" => PushLoadSequence(t)
           /\ pc[t] = "pop_load"  => PopLoadSequence(t)
<1>1. pc = [u \in Threads |-> pc[u]] BY DEF RingInv, TypeOK
<1>2. ASSUME NEW u \in Threads, Push(u) \/ Pop(u), pc[t] \in {"push_load", "pop_load"}
      PROVE  u = t
  <2>1. \E label : pc' = [pc EXCEPT ![u] = label]
    <3>1. CASE PushLoadSequence(u)
      BY <3>1 DEF PushLoadSequence, PushGap, Return, Goto
    <3>2. CASE PopLoadSequence(u)
      BY <3>2 DEF PopLoadSequence, PopGap, Return, Goto
    <3>3. QED
      BY <1>2, <3>1, <3>2 DEF Push, PushStart, PushReload, PushClaim, PushClaimFails,
         PushWrite, PushPublish, Pop, PopStart, PopReload, PopClaim, PopClaimFails,
         PopTake, PopPublish, Return, Goto
  <2>2. QED BY <1>1, <1>2, <2>1
<1>3. ASSUME pc[t] \in {"push_load", "pop_load"} PROVE Push(t) \/ Pop(t)
  <2>1. ~ UNCHANGED vars BY <1>3 DEF vars
  <2>2. QED BY <1>2, <1>3, <2>1 DEF Next
<1>4. ASSUME pc[t] = "push_load" PROVE PushLoadSequence(t)
  <2>1. Push(t) \/ Pop(t) BY <1>3, <1>4
  <2>2. QED
    BY <1>4, <2>1 DEF Push, PushStart, PushReload, PushClaim, PushClaimFails, PushWrite,
       PushPublish, Pop, PopStart, PopLoadSequence, PopReload, PopClaim, PopClaimFails,
       PopTake, PopPublish
<1>5. ASSUME pc[t] = "pop_load" PROVE PopLoadSequence(t)
  <2>1. Push(t) \/ Pop(t) BY <1>3, <1>5
  <2>2. QED
    BY <1>5, <2>1 DEF Push, PushStart, PushLoadSequence, PushReload, PushClaim,
       PushClaimFails, PushWrite, PushPublish, Pop, PopStart, PopReload, PopClaim,
       PopClaimFails, PopTake, PopPublish
<1>6. QED BY <1>4, <1>5

\* try_push says "full" only of a full queue, of a slot a consumer has still to
\* release, or on a stale load, and try_pop says "empty" only of an empty queue,
\* of an element whose producer has still to publish it, or on a stale load.
\* There are no stale loads when Relaxed = FALSE.
THEOREM RefusalsAreTrue == Spec => RefusalsTruthful
<1>1. Spec => [](RingInv /\ TicketsReached)
  <2>1. RingInv /\ TicketsReached /\ [Next]_vars => (RingInv /\ TicketsReached)'
    BY RingStep, TicketsStep
  <2>2. Init => RingInv /\ TicketsReached BY InitRing, InitTickets
  <2>3. QED BY <2>1, <2>2, PTL DEF Spec
<1>2. RingInv /\ TicketsReached /\ [Next]_vars =>
        [\A t \in Threads :
           pc[t] = "push_load" /\ pc'[t] = "idle" =>
              \/ enqueue_pos >= dequeue_pos + Capacity
              \/ \E u \in Threads : PopOwns(u) /\ pos[u] + Capacity = pos[t]
              \/ StaleRefusal(t, pos[t])]_vars
  BY RefusalSteps, RefusedPush
<1>3. RingInv /\ TicketsReached /\ [Next]_vars =>
        [\A t \in Threads :
           pc[t] = "pop_load" /\ pc'[t] = "idle" =>
              \/ enqueue_pos = dequeue_pos
              \/ \E u \in Threads : PushOwns(u) /\ pos[u] = pos[t]
              \/ StaleRefusal(t, pos[t] + 1)]_vars
  BY RefusalSteps, RefusedPop
<1>4. Spec => FalseMeansFull BY <1>1, <1>2, PTL DEF Spec, FalseMeansFull
<1>5. Spec => NulloptMeansEmpty BY <1>1, <1>3, PTL DEF Spec, NulloptMeansEmpty
<1>6. QED BY <1>4, <1>5 DEF RefusalsTruthful

=============================================================================
