----------------------------- MODULE BoundedFifo -----------------------------
(***************************************************************************)
(* What LockFreeQueue promises its callers: a first-in first-out queue of  *)
(* at most Capacity elements, each handed to exactly one consumer.  A      *)
(* consumer first claims the oldest element and later returns it; between  *)
(* the two it holds the element in its hand.                               *)
(***************************************************************************)
EXTENDS Naturals, Sequences

CONSTANTS Threads,    \* the threads that push and pop
          Values,     \* the elements
          Capacity,   \* the most elements the queue may hold
          NoValue     \* an empty hand, an empty optional

VARIABLES queue,      \* the elements in the queue, oldest first
          hand,       \* hand[t]: the element t has claimed and not yet returned
          result      \* result[t]: what t's last completed try_pop returned

fifoVars == <<queue, hand, result>>

Init ==
    /\ queue  = << >>
    /\ hand   = [t \in Threads |-> NoValue]
    /\ result = [t \in Threads |-> NoValue]

\* A successful try_push: there is room, and the element becomes the newest.
Push(v) ==
    /\ Len(queue) < Capacity
    /\ queue' = Append(queue, v)
    /\ UNCHANGED <<hand, result>>

\* A successful try_pop fixes which element it takes: the oldest one.
Claim(t) ==
    /\ queue # << >>
    /\ hand[t] = NoValue
    /\ hand'  = [hand EXCEPT ![t] = Head(queue)]
    /\ queue' = Tail(queue)
    /\ UNCHANGED result

\* The same try_pop returns exactly the element it claimed.
Deliver(t) ==
    /\ hand[t] # NoValue
    /\ result' = [result EXCEPT ![t] = hand[t]]
    /\ hand'   = [hand EXCEPT ![t] = NoValue]
    /\ UNCHANGED queue

\* A try_pop that returns an empty optional.
Miss(t) ==
    /\ hand[t] = NoValue
    /\ result' = [result EXCEPT ![t] = NoValue]
    /\ UNCHANGED <<queue, hand>>

Next ==
    \/ \E v \in Values : Push(v)
    \/ \E t \in Threads : Claim(t) \/ Deliver(t) \/ Miss(t)

Spec == Init /\ [][Next]_fifoVars
=============================================================================
