--------------------------- MODULE SemaphoreProofs ---------------------------
(***************************************************************************)
(* Semaphore counts its units truthfully and loses no wakeup, for every    *)
(* finite set of threads, every max() and every sequence of calls, timed   *)
(* ones included.  UnitsInv is inductive as it stands.                     *)
(***************************************************************************)
EXTENDS Semaphore, FiniteSetTheorems, TLAPS

-----------------------------------------------------------------------------
(* Counting threads at a label.                                            *)

\* Finitely many threads are anywhere.
LEMMA AtFinite ==
    ASSUME NEW label
    PROVE  IsFiniteSet(At(label)) /\ Cardinality(At(label)) \in Nat
<1>1. At(label) \in SUBSET Threads BY DEF At
<1>2. QED BY <1>1, FS_Subset, FS_CardinalityType, SemaphoreAssumption

\* The same after a step.
LEMMA AtFinitePrime ==
    ASSUME NEW label
    PROVE  IsFiniteSet(At(label)') /\ Cardinality(At(label)') \in Nat
<1>1. At(label)' \in SUBSET Threads BY DEF At
<1>2. QED BY <1>1, FS_Subset, FS_CardinalityType, SemaphoreAssumption

\* A thread that moves leaves one label and joins another; it is counted there.
LEMMA Move ==
    ASSUME TypeOK, NEW t \in Threads, NEW from, NEW label,
           pc[t] = from, from # label, Goto(t, label)
    PROVE  /\ Cardinality(At(label)') = Cardinality(At(label)) + 1
           /\ Cardinality(At(from)') = Cardinality(At(from)) - 1
           /\ t \in At(label)'
           /\ \A other : other \notin {from, label} => At(other)' = At(other)
<1>1. At(label)' = At(label) \union {t} /\ t \notin At(label)
  BY DEF At, Goto, TypeOK
<1>2. At(from)' = At(from) \ {t} /\ t \in At(from)
  BY DEF At, Goto, TypeOK
<1>3. ASSUME NEW other, other \notin {from, label}
      PROVE  At(other)' = At(other)
  BY <1>3 DEF At, Goto, TypeOK
<1>4. Cardinality(At(label)') = Cardinality(At(label)) + 1
  BY <1>1, AtFinite, FS_AddElement
<1>5. Cardinality(At(from)') = Cardinality(At(from)) - 1
  BY <1>2, AtFinite, FS_RemoveElement
<1>6. QED BY <1>1, <1>3, <1>4, <1>5

-----------------------------------------------------------------------------
(* The units.                                                              *)

\* The constructor establishes the invariant.
LEMMA InitUnits == Init => UnitsInv
BY SemaphoreAssumption DEF Init, UnitsInv, TypeOK, NoLostWakeup, Labels, At

\* No step breaks the types: the count neither underflows nor overflows.
LEMMA TypeStep == TypeOK /\ [Next]_vars => TypeOK'
<1> SUFFICES ASSUME TypeOK, [Next]_vars PROVE TypeOK'
  OBVIOUS
<1> USE SemaphoreAssumption DEF TypeOK, Labels, Goto
<1>1. CASE UNCHANGED vars
  BY <1>1 DEF vars
<1>2. ASSUME NEW t \in Threads, Acquire(t) PROVE TypeOK'
  BY <1>2 DEF Acquire, AcquireAtOnce, AcquireSleep
<1>3. ASSUME NEW t \in Threads, Resume(t) PROVE TypeOK'
  <2>1. CASE AcquireResume(t)
    BY <2>1 DEF AcquireResume
  <2>2. CASE SleepAgain(t) \/ GiveUp(t)
    BY <2>2 DEF SleepAgain, GiveUp
  <2>3. QED BY <1>3, <2>1, <2>2 DEF Resume
<1>4. ASSUME NEW t \in Threads, Notify(t) PROVE TypeOK'
  <2>1. CASE NotifyOne(t)
    BY <2>1 DEF NotifyOne, At
  <2>2. CASE NotifyAll(t)
    BY <2>2 DEF NotifyAll
  <2>3. QED BY <1>4, <2>1, <2>2 DEF Notify
<1>5. ASSUME NEW t \in Threads, NEW update \in Updates, Release(t, update) PROVE TypeOK'
  <2>1. count' \in 0 .. MaxCount
    BY <1>5 DEF Release, Fits
  <2>2. QED BY <1>5, <2>1 DEF Release, Notification
<1>6. ASSUME NEW t \in Threads, SpuriousWakeup(t) \/ Deadline(t) PROVE TypeOK'
  BY <1>6 DEF SpuriousWakeup, Deadline
<1>7. QED BY <1>1, <1>2, <1>3, <1>4, <1>5, <1>6 DEF Next

\* No step loses a wakeup: a unit that arrives while threads sleep brings a
\* notification, and a woken thread that goes back to sleep leaves no unit.
LEMMA WakeupStep == UnitsInv /\ [Next]_vars => NoLostWakeup'
<1> SUFFICES ASSUME TypeOK, NoLostWakeup, [Next]_vars, At("asleep")' # {}
             PROVE  \/ At("notify_all")' # {}
                    \/ count' <= Cardinality(At("woken")') + Cardinality(At("notify_one")')
  BY DEF UnitsInv, NoLostWakeup
<1> DEFINE Awaited == At("notify_all")' # {} \/
                      count' <= Cardinality(At("woken")') + Cardinality(At("notify_one")')
<1>0. /\ Cardinality(At("woken")) \in Nat /\ Cardinality(At("woken")') \in Nat
      /\ Cardinality(At("notify_one")) \in Nat /\ Cardinality(At("notify_one")') \in Nat
      /\ count \in Nat
  BY AtFinite, AtFinitePrime, SemaphoreAssumption DEF TypeOK
<1>1. CASE UNCHANGED vars
  BY <1>1 DEF vars, NoLostWakeup, At
<1>2. ASSUME NEW t \in Threads, Acquire(t) PROVE Awaited
  <2>1. CASE AcquireAtOnce(t)
    BY <1>0, <2>1 DEF AcquireAtOnce, NoLostWakeup, At
  <2>2. CASE \E deadline \in BOOLEAN : AcquireSleep(t, deadline)
    BY <1>0, <2>2 DEF AcquireSleep
  <2>3. QED BY <1>2, <2>1, <2>2 DEF Acquire
<1>3. ASSUME NEW t \in Threads, Resume(t) PROVE Awaited
  <2>1. CASE AcquireResume(t)
    <3>1. CASE pc[t] = "woken"
      BY <1>0, <2>1, <3>1, Move DEF AcquireResume, NoLostWakeup
    <3>2. CASE pc[t] = "expired"
      BY <1>0, <2>1, <3>2, Move DEF AcquireResume, NoLostWakeup
    <3>3. QED BY <2>1, <3>1, <3>2 DEF AcquireResume
  <2>2. CASE SleepAgain(t) \/ GiveUp(t)
    BY <1>0, <2>2 DEF SleepAgain, GiveUp
  <2>3. QED BY <1>3, <2>1, <2>2 DEF Resume
<1>4. ASSUME NEW t \in Threads, NotifyOne(t) PROVE Awaited
  <2>1. CASE At("asleep") = {} /\ Goto(t, "idle")
    BY <1>4, <2>1, Move DEF NotifyOne
  <2>2. ASSUME NEW s \in At("asleep"),
               pc' = [pc EXCEPT ![t] = "idle", ![s] = "woken"]
        PROVE  Awaited
    <3>1. /\ At("notify_one")' = At("notify_one") \ {t} /\ t \in At("notify_one")
          /\ At("woken")' = At("woken") \union {s} /\ s \notin At("woken")
          /\ At("notify_all")' = At("notify_all")
      BY <1>4, <2>2 DEF NotifyOne, At, TypeOK
    <3>2. /\ Cardinality(At("notify_one")') = Cardinality(At("notify_one")) - 1
          /\ Cardinality(At("woken")') = Cardinality(At("woken")) + 1
      BY <3>1, AtFinite, FS_AddElement, FS_RemoveElement
    <3>3. QED BY <1>0, <1>4, <2>2, <3>1, <3>2 DEF NotifyOne, NoLostWakeup
  <2>3. QED BY <1>4, <2>1, <2>2 DEF NotifyOne
<1>5. ASSUME NEW t \in Threads, NotifyAll(t) PROVE Awaited
  BY <1>5 DEF NotifyAll, At, TypeOK
<1>6. ASSUME NEW t \in Threads, NEW update \in Updates, Release(t, update) PROVE Awaited
  <2>1. At("asleep")' = At("asleep")
    BY <1>6, Move DEF Release, Notification
  <2>2. CASE update = 1
    BY <1>0, <1>6, <2>1, <2>2, Move DEF Release, Notification, NoLostWakeup
  <2>3. CASE update # 1
    BY <1>6, <2>3, Move DEF Release, Notification
  <2>4. QED BY <2>2, <2>3
<1>7. ASSUME NEW t \in Threads, SpuriousWakeup(t) \/ Deadline(t) PROVE Awaited
  <2>1. At("asleep") # {}
    BY <1>7 DEF SpuriousWakeup, Deadline, At
  <2>2. CASE SpuriousWakeup(t)
    BY <1>0, <2>1, <2>2, Move DEF SpuriousWakeup, NoLostWakeup
  <2>3. CASE Deadline(t)
    BY <1>0, <2>1, <2>3, Move DEF Deadline, NoLostWakeup
  <2>4. QED BY <1>7, <2>2, <2>3
<1>8. QED BY <1>1, <1>2, <1>3, <1>4, <1>5, <1>6, <1>7 DEF Next, Notify

\* The count of semaphore.hpp stays between zero and max(), and no release
\* strands a sleeper beside its unit, whatever the threads do.
THEOREM UnitsAccounted == Spec => []UnitsInv
<1>1. UnitsInv /\ [Next]_vars => UnitsInv'
  BY TypeStep, WakeupStep DEF UnitsInv
<1>2. QED BY InitUnits, <1>1, PTL DEF Spec
=============================================================================
