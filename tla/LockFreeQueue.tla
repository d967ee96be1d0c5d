---------------------------- MODULE LockFreeQueue ----------------------------
(***************************************************************************)
(* LockFreeQueue<T> (lock_free_queue.hpp): a bounded multi-producer,       *)
(* multi-consumer ring in which every slot carries a sequence number.      *)
(* Every access to an atomic, and every access to a slot's payload, is a   *)
(* step of its own, so all interleavings of the calls are behaviours.      *)
(*                                                                         *)
(* Memory order.  The ticket counters are loaded relaxed and the slot      *)
(* sequences acquire: such a load may return a value older than the newest *)
(* one.  With Relaxed = TRUE a load returns any value the object has held  *)
(* so far, whatever the thread has seen before, and only the exchange of a *)
(* compare_exchange sees the newest; with Relaxed = FALSE memory is        *)
(* sequentially consistent.                                                *)
(*                                                                         *)
(* Tickets are naturals: the 64-bit counters of the code wrap after 2^64   *)
(* operations, which no execution reaches.                                 *)
(***************************************************************************)
EXTENDS Integers, Sequences

CONSTANTS Threads,     \* threads calling try_push and try_pop
          Values,      \* payloads
          NoValue,     \* a disengaged std::optional
          MinCapacity, \* the constructor's argument
          Relaxed,     \* whether loads may return stale values
          MaxPushes    \* bound: no try_push starts once this many succeeded

ASSUME QueueAssumption ==
    /\ MinCapacity \in Nat \ {0}
    /\ MaxPushes \in Nat
    /\ Relaxed \in BOOLEAN
    /\ NoValue \notin Values

VARIABLES sequence,     \* sequence[i]: slots_[i].sequence
          value,        \* value[i]: slots_[i].value
          enqueue_pos,  \* the producers' ticket counter
          dequeue_pos,  \* the consumers' ticket counter
          pc,           \* where each thread is in its call
          pos,          \* the local `pos` of each thread's call
          arg,          \* the local `value` (try_push) or `result` (try_pop)
          result,       \* what each thread's last completed try_pop returned
          pushed        \* history: the element claimed for each ticket

vars == <<sequence, value, enqueue_pos, dequeue_pos, pc, pos, arg, result, pushed>>
shared == <<sequence, value, enqueue_pos, dequeue_pos, pushed>>

\* rounded_capacity: the smallest power of two that is at least the argument.
RoundedCapacity(min) ==
    CHOOSE n \in {2^k : k \in 0 .. min} :
        n >= min /\ \A m \in {2^k : k \in 0 .. min} : m >= min => n <= m

\* slots_.size()
Capacity == RoundedCapacity(MinCapacity)

Slots == 0 .. Capacity - 1

\* slots_[pos & mask_]: the mask is Capacity - 1 and Capacity a power of two.
SlotOf(p) == p % Capacity

\* The values a load of a ticket counter that holds n may return.
TicketLoads(n) == IF Relaxed THEN 0 .. n ELSE {n}

\* The values a load of slot i's sequence may return: every value stored so
\* far.  A slot's sequence only ever takes the values i and i+1 of each lap.
SequenceLoads(i) ==
    IF Relaxed
    THEN {s \in i .. sequence[i] : SlotOf(s) = i \/ SlotOf(s) = SlotOf(i + 1)}
    ELSE {sequence[i]}

\* Mutant: off by one.
VacancyTooFar(p) == p + Capacity + 1

\* pos + mask_ + 1: the ticket, one lap ahead of p, that p's slot waits for.
VacancyFor(p) == p + Capacity

Goto(t, label) == pc' = [pc EXCEPT ![t] = label]
SetPos(t, p)   == pos' = [pos EXCEPT ![t] = p]

\* The call ends and its locals with it.
Return(t) ==
    /\ Goto(t, "idle")
    /\ SetPos(t, 0)
    /\ arg' = [arg EXCEPT ![t] = NoValue]

-----------------------------------------------------------------------------
(* The constructor: slot i starts vacant for ticket i.                     *)

Init ==
    /\ sequence    = [i \in Slots |-> i]
    /\ value       = [i \in Slots |-> NoValue]
    /\ enqueue_pos = 0
    /\ dequeue_pos = 0
    /\ pc     = [t \in Threads |-> "idle"]
    /\ pos    = [t \in Threads |-> 0]
    /\ arg    = [t \in Threads |-> NoValue]
    /\ result = [t \in Threads |-> NoValue]
    /\ pushed = << >>

-----------------------------------------------------------------------------
(* try_push *)

PushStart(t) ==
    /\ pc[t] = "idle"
    /\ enqueue_pos < MaxPushes
    /\ \E v \in Values : arg' = [arg EXCEPT ![t] = v]
    /\ \E p \in TicketLoads(enqueue_pos) : SetPos(t, p)
    /\ Goto(t, "push_load")
    /\ UNCHANGED <<shared, result>>

\* Mutant: the full test is dropped.
PushGapOverwrites(t, gap) ==
    \/ gap <= 0 /\ Goto(t, "push_cas")  /\ UNCHANGED <<pos, arg>>
    \/ gap > 0 /\ Goto(t, "push_reload") /\ UNCHANGED <<pos, arg>>

\* Mutant: a lagging producer gives up instead of catching up.
PushGapImpatient(t, gap) ==
    \/ gap = 0 /\ Goto(t, "push_cas") /\ UNCHANGED <<pos, arg>>
    \/ gap # 0 /\ Return(t)

\* gap = seq - pos decides: claim, give up (full), or catch up.
PushGap(t, gap) ==
    \/ gap = 0 /\ Goto(t, "push_cas")   /\ UNCHANGED <<pos, arg>>
    \/ gap < 0 /\ Return(t)
    \/ gap > 0 /\ Goto(t, "push_reload") /\ UNCHANGED <<pos, arg>>

PushLoadSequence(t) ==
    /\ pc[t] = "push_load"
    /\ \E seq \in SequenceLoads(SlotOf(pos[t])) : PushGap(t, seq - pos[t])
    /\ UNCHANGED <<shared, result>>

PushReload(t) ==
    /\ pc[t] = "push_reload"
    /\ \E p \in TicketLoads(enqueue_pos) : SetPos(t, p)
    /\ Goto(t, "push_load")
    /\ UNCHANGED <<shared, arg, result>>

\* compare_exchange_weak succeeds only on the newest value ...
PushClaim(t) ==
    /\ pc[t] = "push_cas"
    /\ enqueue_pos = pos[t]
    /\ enqueue_pos' = pos[t] + 1
    /\ pushed' = Append(pushed, arg[t])
    /\ Goto(t, "push_write")
    /\ UNCHANGED <<sequence, value, dequeue_pos, pos, arg, result>>

\* Mutant: the element is moved out of `value` before the exchange is won.
PushClaimFailsMovedFrom(t) ==
    /\ pc[t] = "push_cas"
    /\ \E p \in TicketLoads(enqueue_pos) : SetPos(t, p)
    /\ Goto(t, "push_load")
    /\ arg' = [arg EXCEPT ![t] = NoValue]
    /\ UNCHANGED <<shared, result>>

\* ... and may fail on any, spuriously on the expected one too; `pos` is
\* refreshed with what it saw.
PushClaimFails(t) ==
    /\ pc[t] = "push_cas"
    /\ \E p \in TicketLoads(enqueue_pos) : SetPos(t, p)
    /\ Goto(t, "push_load")
    /\ UNCHANGED <<shared, arg, result>>

PushWrite(t) ==
    /\ pc[t] = "push_write"
    /\ value' = [value EXCEPT ![SlotOf(pos[t])] = arg[t]]
    /\ Goto(t, "push_publish")
    /\ UNCHANGED <<sequence, enqueue_pos, dequeue_pos, pos, arg, result, pushed>>

PushPublish(t) ==
    /\ pc[t] = "push_publish"
    /\ sequence' = [sequence EXCEPT ![SlotOf(pos[t])] = pos[t] + 1]
    /\ Return(t)
    /\ UNCHANGED <<value, enqueue_pos, dequeue_pos, result, pushed>>

-----------------------------------------------------------------------------
(* try_pop *)

PopStart(t) ==
    /\ pc[t] = "idle"
    /\ \E p \in TicketLoads(dequeue_pos) : SetPos(t, p)
    /\ Goto(t, "pop_load")
    /\ UNCHANGED <<shared, arg, result>>

\* Mutant: the empty test is dropped.
PopGapUnpublished(t, gap) ==
    \/ gap <= 0 /\ Goto(t, "pop_cas")  /\ UNCHANGED <<pos, arg, result>>
    \/ gap > 0 /\ Goto(t, "pop_reload") /\ UNCHANGED <<pos, arg, result>>

PopGap(t, gap) ==
    \/ gap = 0 /\ Goto(t, "pop_cas")    /\ UNCHANGED <<pos, arg, result>>
    \/ gap < 0 /\ Return(t) /\ result' = [result EXCEPT ![t] = NoValue]
    \/ gap > 0 /\ Goto(t, "pop_reload") /\ UNCHANGED <<pos, arg, result>>

PopLoadSequence(t) ==
    /\ pc[t] = "pop_load"
    /\ \E seq \in SequenceLoads(SlotOf(pos[t])) : PopGap(t, seq - (pos[t] + 1))
    /\ UNCHANGED shared

PopReload(t) ==
    /\ pc[t] = "pop_reload"
    /\ \E p \in TicketLoads(dequeue_pos) : SetPos(t, p)
    /\ Goto(t, "pop_load")
    /\ UNCHANGED <<shared, arg, result>>

PopClaim(t) ==
    /\ pc[t] = "pop_cas"
    /\ dequeue_pos = pos[t]
    /\ dequeue_pos' = pos[t] + 1
    /\ Goto(t, "pop_take")
    /\ UNCHANGED <<sequence, value, enqueue_pos, pos, arg, result, pushed>>

PopClaimFails(t) ==
    /\ pc[t] = "pop_cas"
    /\ \E p \in TicketLoads(dequeue_pos) : SetPos(t, p)
    /\ Goto(t, "pop_load")
    /\ UNCHANGED <<shared, arg, result>>

\* The payload is moved out and the husk destroyed.
PopTake(t) ==
    /\ pc[t] = "pop_take"
    /\ arg'   = [arg EXCEPT ![t] = value[SlotOf(pos[t])]]
    /\ value' = [value EXCEPT ![SlotOf(pos[t])] = NoValue]
    /\ Goto(t, "pop_publish")
    /\ UNCHANGED <<sequence, enqueue_pos, dequeue_pos, pos, result, pushed>>

\* The slot becomes vacant for the ticket one lap ahead.
PopPublish(t) ==
    /\ pc[t] = "pop_publish"
    /\ sequence' = [sequence EXCEPT ![SlotOf(pos[t])] = VacancyFor(pos[t])]
    /\ result' = [result EXCEPT ![t] = arg[t]]
    /\ Return(t)
    /\ UNCHANGED <<value, enqueue_pos, dequeue_pos, pushed>>

-----------------------------------------------------------------------------
Push(t) == \/ PushStart(t) \/ PushLoadSequence(t) \/ PushReload(t)
           \/ PushClaim(t) \/ PushClaimFails(t)
           \/ PushWrite(t) \/ PushPublish(t)

Pop(t) == \/ PopStart(t) \/ PopLoadSequence(t) \/ PopReload(t)
          \/ PopClaim(t) \/ PopClaimFails(t)
          \/ PopTake(t) \/ PopPublish(t)

Next == \E t \in Threads : Push(t) \/ Pop(t)

Spec == Init /\ [][Next]_vars

\* The scheduler runs every thread inside a call, and a compare_exchange_weak
\* that could succeed does not fail spuriously for ever.
Fairness ==
    \A t \in Threads :
        /\ WF_vars(pc[t] # "idle" /\ (Push(t) \/ Pop(t)))
        /\ SF_vars(PushClaim(t)) /\ SF_vars(PopClaim(t))

LiveSpec == Spec /\ Fairness

-----------------------------------------------------------------------------
(* Properties *)

PushOwns(t) == pc[t] \in {"push_write", "push_publish"}
PopOwns(t)  == pc[t] \in {"pop_take", "pop_publish"}
Owns(t)     == PushOwns(t) \/ PopOwns(t)

\* The types of the shared ring and of every thread's locals; a try_push in
\* progress always carries the caller's element.
TypeOK ==
    /\ sequence \in [Slots -> Nat]
    /\ value \in [Slots -> Values \union {NoValue}]
    /\ enqueue_pos \in Nat /\ dequeue_pos \in Nat
    /\ pc \in [Threads -> {"idle", "push_load", "push_reload", "push_cas",
                           "push_write", "push_publish",
                           "pop_load", "pop_reload", "pop_cas",
                           "pop_take", "pop_publish"}]
    /\ pos \in [Threads -> Nat]
    /\ arg \in [Threads -> Values \union {NoValue}]
    /\ result \in [Threads -> Values \union {NoValue}]
    /\ pushed \in Seq(Values)
    /\ \A t \in Threads :
          pc[t] \in {"push_load", "push_reload", "push_cas", "push_write"}
              => arg[t] \in Values

\* "touched only by the one thread whose ticket owns the slot": between a won
\* exchange and the release store, no second thread is in the same slot.
NoSlotRace ==
    \A t, u \in Threads :
        t # u /\ Owns(t) /\ Owns(u) => SlotOf(pos[t]) # SlotOf(pos[u])

\* try_push never accepts more than capacity() elements that no consumer has
\* claimed, and no consumer claims a ticket no producer has taken.
CapacityBound ==
    dequeue_pos <= enqueue_pos /\ enqueue_pos <= dequeue_pos + Capacity

\* The queue is a bounded FIFO: a won producer exchange is the push, a won
\* consumer exchange takes the oldest element, and the try_pop that won
\* returns exactly that element, whatever runs in between.
Fifo == INSTANCE BoundedFifo WITH
    queue <- SubSeq(pushed, dequeue_pos + 1, enqueue_pos),
    hand  <- [t \in Threads |-> IF PopOwns(t) THEN pushed[pos[t] + 1] ELSE NoValue]

ImplementsBoundedFifo == Fifo!Spec

\* Slot SlotOf(q) as the holder of ticket q, one of the Capacity tickets the
\* producers take next, finds it: vacant for q; full with the element of the
\* ticket one lap back, which is queued or in a consumer's hands; or still
\* being written by that ticket's producer.
SlotState(q) ==
    \/ /\ sequence[SlotOf(q)] = q
       /\ q < dequeue_pos + Capacity
    \/ /\ sequence[SlotOf(q)] = q - Capacity + 1
       /\ \/ /\ q >= dequeue_pos + Capacity
             /\ value[SlotOf(q)] = pushed[q - Capacity + 1]
          \/ \E t \in Threads : PopOwns(t) /\ pos[t] + Capacity = q
    \/ /\ sequence[SlotOf(q)] = q - Capacity
       /\ q >= dequeue_pos + Capacity
       /\ \E t \in Threads : PushOwns(t) /\ pos[t] + Capacity = q

\* What a thread knows of the ring at each point of its call.  Before its
\* exchange it knows only that the slot has reached its ticket; after it, that
\* the ticket is one of the last Capacity ones and the slot stands still.
Knows(t) ==
    /\ pc[t] = "push_cas" => sequence[SlotOf(pos[t])] >= pos[t]
    /\ pc[t] = "pop_cas"  => sequence[SlotOf(pos[t])] >= pos[t] + 1
    /\ PushOwns(t) => /\ dequeue_pos <= pos[t] /\ pos[t] < enqueue_pos
                      /\ sequence[SlotOf(pos[t])] = pos[t]
    /\ PopOwns(t)  => /\ pos[t] < dequeue_pos /\ enqueue_pos <= pos[t] + Capacity
                      /\ sequence[SlotOf(pos[t])] = pos[t] + 1
    /\ pc[t] = "push_write"   => arg[t] = pushed[pos[t] + 1]
    /\ pc[t] = "push_publish" => value[SlotOf(pos[t])] = pushed[pos[t] + 1]
    /\ pc[t] = "pop_take"     => value[SlotOf(pos[t])] = pushed[pos[t] + 1]
    /\ pc[t] = "pop_publish"  => arg[t] = pushed[pos[t] + 1]

\* The inductive invariant of the ring: at most Capacity tickets are between
\* the counters, the sequence of every slot says truthfully which ticket may
\* use it and how, and no two threads hold the same ticket.
RingInv ==
    /\ TypeOK
    /\ CapacityBound
    /\ Len(pushed) = enqueue_pos
    /\ \A q \in enqueue_pos .. enqueue_pos + Capacity - 1 : SlotState(q)
    /\ \A t \in Threads : Knows(t)
    /\ \A t, u \in Threads : t # u /\ Owns(t) /\ Owns(u) => pos[t] # pos[u]

\* The load that made t refuse was stale: by now the slot has reached `ticket`,
\* which would not have refused.  No such load is there if Relaxed = FALSE.
StaleRefusal(t, ticket) == Relaxed /\ sequence[SlotOf(pos[t])] >= ticket

\* try_push returns false only when the queue is full, or a consumer that has
\* claimed the element one lap back has still to release its slot (the
\* progress caveat of the class comment), or its load was stale: a slot that
\* really stands behind the ticket says the truth.
FalseMeansFull ==
    [][\A t \in Threads :
         pc[t] = "push_load" /\ pc'[t] = "idle" =>
            \/ enqueue_pos >= dequeue_pos + Capacity
            \/ \E u \in Threads : PopOwns(u) /\ pos[u] + Capacity = pos[t]
            \/ StaleRefusal(t, pos[t])]_vars

\* try_pop returns an empty optional only when the queue is empty, or the
\* producer that has claimed that very ticket has still to publish, or its load
\* was stale.
NulloptMeansEmpty ==
    [][\A t \in Threads :
         pc[t] = "pop_load" /\ pc'[t] = "idle" =>
            \/ enqueue_pos = dequeue_pos
            \/ \E u \in Threads : PushOwns(u) /\ pos[u] = pos[t]
            \/ StaleRefusal(t, pos[t] + 1)]_vars

\* Both calls refuse only for these reasons, in whatever state other threads
\* left their own calls; with sequentially consistent loads the last is none.
RefusalsTruthful == FalseMeansFull /\ NulloptMeansEmpty

\* Neither call loops for ever once the other threads stop starting pushes:
\* every call returns ("never blocks").
EveryCallReturns == \A t \in Threads : []<>(pc[t] = "idle")
=============================================================================
