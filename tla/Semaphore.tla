------------------------------ MODULE Semaphore ------------------------------
(***************************************************************************)
(* Semaphore (semaphore.hpp): a count under one mutex, with one condition  *)
(* variable.  Every stretch of code under the mutex is one step; release   *)
(* notifies after it has let go of the mutex, in a step of its own.        *)
(*                                                                         *)
(* A call that changes nothing is a stuttering step: try_acquire on a zero *)
(* count, release(0), a release that throws (negative update, overflow)    *)
(* and available().                                                        *)
(***************************************************************************)
EXTENDS Integers, FiniteSets

CONSTANTS Threads,
          Initial,     \* the constructor's argument
          Updates,     \* arguments release is called with
          MaxCount     \* max()

ASSUME SemaphoreAssumption ==
    /\ IsFiniteSet(Threads)
    /\ MaxCount \in Nat
    /\ Initial \in 0 .. MaxCount   \* the constructor throws on a negative one
    /\ Updates \subseteq -MaxCount .. MaxCount

VARIABLES count,    \* count_
          pc,       \* where each thread is
          timed     \* timed[t]: t's call in progress has a deadline

vars == <<count, pc, timed>>

Goto(t, label) == pc' = [pc EXCEPT ![t] = label]
At(label) == {t \in Threads : pc[t] = label}

Init ==
    /\ count = Initial
    /\ pc = [t \in Threads |-> "idle"]
    /\ timed = [t \in Threads |-> FALSE]

-----------------------------------------------------------------------------
\* acquire, try_acquire and the timed forms when a unit is there.
AcquireAtOnce(t) ==
    /\ pc[t] = "idle"
    /\ count > 0
    /\ count' = count - 1
    /\ UNCHANGED <<pc, timed>>

AcquireSleep(t, deadline) ==
    /\ pc[t] = "idle"
    /\ ~ (count > 0)
    /\ timed' = [timed EXCEPT ![t] = deadline]
    /\ Goto(t, "asleep")
    /\ UNCHANGED count

\* Woken, or out of time, and there is a unit: take it.
AcquireResume(t) ==
    /\ pc[t] \in {"woken", "expired"}
    /\ count > 0
    /\ count' = count - 1
    /\ Goto(t, "idle")
    /\ timed' = [timed EXCEPT ![t] = FALSE]

SleepAgain(t) ==
    /\ pc[t] = "woken"
    /\ ~ (count > 0)
    /\ Goto(t, "asleep")
    /\ UNCHANGED <<count, timed>>

GiveUp(t) ==
    /\ pc[t] = "expired"
    /\ ~ (count > 0)
    /\ Goto(t, "idle")
    /\ timed' = [timed EXCEPT ![t] = FALSE]
    /\ UNCHANGED count

-----------------------------------------------------------------------------
\* Mutant: the guard against overflow is off by one.
FitsOffByOne(update) == count <= MaxCount - update + 1

\* ~ (count_ > max() - update), which cannot itself overflow.
Fits(update) == count <= MaxCount - update

\* Mutant: a release of several units wakes one waiter, like release(1).
NotificationSingle(update) == "notify_one"

Notification(update) == IF update = 1 THEN "notify_one" ELSE "notify_all"

Release(t, update) ==
    /\ pc[t] = "idle"
    /\ update > 0
    /\ Fits(update)
    /\ count' = count + update
    /\ Goto(t, Notification(update))
    /\ UNCHANGED timed

NotifyOne(t) ==
    /\ pc[t] = "notify_one"
    /\ \/ \E s \in At("asleep") : pc' = [pc EXCEPT ![t] = "idle", ![s] = "woken"]
       \/ At("asleep") = {} /\ Goto(t, "idle")
    /\ UNCHANGED <<count, timed>>

NotifyAll(t) ==
    /\ pc[t] = "notify_all"
    /\ pc' = [u \in Threads |-> IF u = t THEN "idle"
                                ELSE IF pc[u] = "asleep" THEN "woken" ELSE pc[u]]
    /\ UNCHANGED <<count, timed>>

SpuriousWakeup(t) ==
    /\ pc[t] = "asleep"
    /\ Goto(t, "woken")
    /\ UNCHANGED <<count, timed>>

Deadline(t) ==
    /\ pc[t] = "asleep" /\ timed[t]
    /\ Goto(t, "expired")
    /\ UNCHANGED <<count, timed>>

-----------------------------------------------------------------------------
Acquire(t) == AcquireAtOnce(t) \/ \E deadline \in BOOLEAN : AcquireSleep(t, deadline)
Resume(t)  == AcquireResume(t) \/ SleepAgain(t) \/ GiveUp(t)
Notify(t)  == NotifyOne(t) \/ NotifyAll(t)

Next ==
    \E t \in Threads : \/ Acquire(t) \/ Resume(t) \/ Notify(t)
                       \/ \E update \in Updates : Release(t, update)
                       \/ SpuriousWakeup(t) \/ Deadline(t)

Spec == Init /\ [][Next]_vars

\* A thread inside a call runs when it can; nobody need ever call.
Fairness == \A t \in Threads : WF_vars(Resume(t)) /\ WF_vars(Notify(t))

LiveSpec == Spec /\ Fairness

-----------------------------------------------------------------------------
(* Properties *)

Labels == {"idle", "asleep", "woken", "expired", "notify_one", "notify_all"}

\* The count stays between zero and max(): no acquire takes a unit that is not
\* there and no release overflows.
TypeOK ==
    /\ count \in 0 .. MaxCount
    /\ pc \in [Threads -> Labels]
    /\ timed \in [Threads -> BOOLEAN]

\* While threads sleep, every unit has an acquirer on its way to it or a
\* notification under way, whoever barges in or times out.
NoLostWakeup ==
    At("asleep") # {} =>
        \/ At("notify_all") # {}
        \/ count <= Cardinality(At("woken")) + Cardinality(At("notify_one"))

\* The units are accounted for: release() never counts past max(), and no unit
\* waits beside a sleeper whose wakeup was lost.
UnitsInv == TypeOK /\ NoLostWakeup

\* Units and sleepers do not stay together: a sleeper takes a unit, or others
\* take them all.
SleepersServed ==
    (count > 0 /\ At("asleep") # {}) ~> (count = 0 \/ At("asleep") = {})
=============================================================================
