------------------------ MODULE ReaderWriterLockProofs ------------------------
(***************************************************************************)
(* ReaderWriterLock is exclusive, counts truthfully, strands nobody and    *)
(* implements the writer-preferring policy, for every finite set of        *)
(* threads.  Over the sets of holders and waiting writers, every step of   *)
(* the monitor is one of seven kinds; counters and policy follow from the  *)
(* kinds, wakeups from the labels.                                         *)
(***************************************************************************)
EXTENDS ReaderWriterLock, FiniteSetTheorems, TLAPS

Readers == At("reading")
Writers == At("writing")

-----------------------------------------------------------------------------
(* The kinds of step.                                                      *)

\* Nothing a reader or a writer holds or awaits changes.
Quiet == UNCHANGED <<monitor, Readers, Writers, Waiting>>

EntersShared(t) ==
    /\ ReaderMayEnter /\ t \notin Readers
    /\ Readers' = Readers \union {t} /\ active_readers' = active_readers + 1
    /\ UNCHANGED <<writer_active, waiting_writers, Writers, Waiting>>

LeavesShared(t) ==
    /\ t \in Readers
    /\ Readers' = Readers \ {t} /\ active_readers' = active_readers - 1
    /\ UNCHANGED <<writer_active, waiting_writers, Writers, Waiting>>

Enters(t) ==
    /\ WriterMayEnter
    /\ Writers' = Writers \union {t} /\ writer_active' = TRUE
    /\ Waiting' = Waiting \ {t}
    /\ waiting_writers' = IF t \in Waiting THEN waiting_writers - 1 ELSE waiting_writers
    /\ UNCHANGED <<active_readers, Readers>>

Leaves(t) ==
    /\ t \in Writers
    /\ Writers' = Writers \ {t} /\ writer_active' = FALSE
    /\ UNCHANGED <<active_readers, waiting_writers, Readers, Waiting>>

Queues(t) ==
    /\ ~ WriterMayEnter /\ t \notin Waiting
    /\ Waiting' = Waiting \union {t} /\ waiting_writers' = waiting_writers + 1
    /\ UNCHANGED <<active_readers, writer_active, Readers, Writers>>

GivesUp(t) ==
    /\ ~ WriterMayEnter /\ t \in Waiting
    /\ Waiting' = Waiting \ {t} /\ waiting_writers' = waiting_writers - 1
    /\ UNCHANGED <<active_readers, writer_active, Readers, Writers>>

OneOfTheKinds ==
    \/ Quiet
    \/ \E t \in Threads : \/ EntersShared(t) \/ LeavesShared(t)
                          \/ Enters(t) \/ Leaves(t) \/ Queues(t) \/ GivesUp(t)

WaitLabels == {"writer_asleep", "writer_woken", "writer_expired"}

\* What one thread's move does to the three sets.
LEMMA Move ==
    ASSUME TypeOK, NEW t \in Threads, NEW label, Goto(t, label)
    PROVE  /\ Readers' = IF label = "reading" THEN Readers \union {t} ELSE Readers \ {t}
           /\ Writers' = IF label = "writing" THEN Writers \union {t} ELSE Writers \ {t}
           /\ Waiting' = IF label \in WaitLabels THEN Waiting \union {t} ELSE Waiting \ {t}
BY DEF TypeOK, Goto, Readers, Writers, Waiting, At, WaitLabels

\* Which of the sets a thread is in.
LEMMA Place ==
    ASSUME TypeOK, NEW t \in Threads
    PROVE  /\ t \in Readers <=> pc[t] = "reading"
           /\ t \in Writers <=> pc[t] = "writing"
           /\ t \in Waiting <=> pc[t] \in WaitLabels
BY DEF TypeOK, Readers, Writers, Waiting, At, WaitLabels

\* Every step of the lock is of one of the kinds.
LEMMA Kinds == TypeOK /\ [Next]_vars => OneOfTheKinds
<1> SUFFICES ASSUME TypeOK, [Next]_vars PROVE OneOfTheKinds
  OBVIOUS
<1> USE DEF monitor, WaitLabels
<1>1. CASE UNCHANGED vars
  BY <1>1 DEF vars, OneOfTheKinds, Quiet, Readers, Writers, Waiting, At
<1>2. ASSUME NEW t \in Threads, LockAtOnce(t) PROVE Enters(t)
  BY <1>2, Move, Place DEF LockAtOnce, Enters
<1>3. ASSUME NEW t \in Threads, LockSharedAtOnce(t) PROVE EntersShared(t)
  BY <1>3, Move, Place DEF LockSharedAtOnce, EntersShared
<1>4. ASSUME NEW t \in Threads, NEW deadline \in BOOLEAN, LockSleep(t, deadline)
      PROVE  Queues(t)
  BY <1>4, Move, Place DEF LockSleep, Queues
<1>5. ASSUME NEW t \in Threads, NEW deadline \in BOOLEAN, LockSharedSleep(t, deadline)
      PROVE  Quiet
  BY <1>5, Move, Place DEF LockSharedSleep, Quiet
<1>6. ASSUME NEW t \in Threads, WriterEnter(t) PROVE Enters(t)
  BY <1>6, Move, Place DEF WriterEnter, Leave, Enters
<1>7. ASSUME NEW t \in Threads, WriterSleepAgain(t) PROVE Quiet
  BY <1>7, Move, Place DEF WriterSleepAgain, Quiet
<1>8. ASSUME NEW t \in Threads, WriterGiveUp(t) PROVE GivesUp(t)
  <2>1. PICK label \in {"notify_readers", "idle"} : Goto(t, label)
    BY <1>8 DEF WriterGiveUp, Leave
  <2>2. QED BY <1>8, <2>1, Move, Place DEF WriterGiveUp, GivesUp
<1>9. ASSUME NEW t \in Threads, ReaderEnter(t) PROVE EntersShared(t)
  BY <1>9, Move, Place DEF ReaderEnter, Leave, EntersShared
<1>10. ASSUME NEW t \in Threads, ReaderSleepAgain(t) \/ ReaderGiveUp(t) PROVE Quiet
  BY <1>10, Move, Place DEF ReaderSleepAgain, ReaderGiveUp, Leave, Quiet
<1>11. ASSUME NEW t \in Threads, Unlock(t) PROVE Leaves(t)
  <2>1. PICK label \in {"notify_readers", "notify_writer"} : Goto(t, label)
    BY <1>11 DEF Unlock
  <2>2. QED BY <1>11, <2>1, Move, Place DEF Unlock, Leaves
<1>12. ASSUME NEW t \in Threads, UnlockShared(t) PROVE LeavesShared(t)
  <2>1. PICK label \in {"idle", "notify_writer"} : Goto(t, label)
    BY <1>12 DEF UnlockShared
  <2>2. QED BY <1>12, <2>1, Move, Place DEF UnlockShared, LeavesShared
<1>13. ASSUME NEW t \in Threads, NotifyWriter(t) PROVE Quiet
  <2>1. CASE Goto(t, "idle")
    BY <1>13, <2>1, Move, Place DEF NotifyWriter, Quiet
  <2>2. ASSUME NEW w \in At("writer_asleep"),
               pc' = [pc EXCEPT ![t] = "idle", ![w] = "writer_woken"]
        PROVE  Quiet
    BY <1>13, <2>2 DEF NotifyWriter, Quiet, TypeOK, Readers, Writers, Waiting, At
  <2>3. QED BY <1>13, <2>1, <2>2 DEF NotifyWriter
<1>14. ASSUME NEW t \in Threads, NotifyReaders(t) PROVE Quiet
  BY <1>14 DEF NotifyReaders, Quiet, TypeOK, Readers, Writers, Waiting, At
<1>15. ASSUME NEW t \in Threads, SpuriousWakeup(t) \/ Deadline(t) PROVE Quiet
  BY <1>15, Move, Place DEF SpuriousWakeup, Deadline, Quiet
<1>16. QED
  BY <1>1, <1>2, <1>3, <1>4, <1>5, <1>6, <1>7, <1>8, <1>9, <1>10, <1>11, <1>12,
     <1>13, <1>14, <1>15
  DEF Next, Acquire, Resume, Release, Notify, OneOfTheKinds

-----------------------------------------------------------------------------
(* Counters and exclusion.                                                 *)

\* The three sets are finite, before a step and after it.
LEMMA SetsFinite ==
    /\ IsFiniteSet(Readers) /\ IsFiniteSet(Writers) /\ IsFiniteSet(Waiting)
    /\ IsFiniteSet(Readers') /\ IsFiniteSet(Writers') /\ IsFiniteSet(Waiting')
<1>1. /\ Readers \in SUBSET Threads /\ Writers \in SUBSET Threads
      /\ Waiting \in SUBSET Threads
      /\ Readers' \in SUBSET Threads /\ Writers' \in SUBSET Threads
      /\ Waiting' \in SUBSET Threads
  BY DEF Readers, Writers, Waiting, At
<1>2. QED BY <1>1, FS_Subset, LockAssumption

\* The predicates of the condition variables, in terms of the sets.
LEMMA PredicatesExact ==
    ASSUME LockInv
    PROVE  /\ WriterMayEnter <=> Readers = {} /\ Writers = {}
           /\ ReaderMayEnter <=> Writers = {} /\ Waiting = {}
BY SetsFinite, FS_EmptySet
   DEF LockInv, CountersExact, TypeOK, WriterMayEnter, ReaderMayEnter, Readers, Writers

\* The constructor establishes the lock's invariant.
LEMMA InitLock == Init => LockInv
<1> SUFFICES ASSUME Init PROVE LockInv
  OBVIOUS
<1>1. TypeOK BY DEF Init, TypeOK, Labels
<1>2. Readers = {} /\ Writers = {} /\ Waiting = {}
  BY DEF Init, Readers, Writers, Waiting, At
<1>3. QED BY <1>1, <1>2, FS_EmptySet
  DEF Init, LockInv, CountersExact, Exclusion, Readers, Writers

\* Every step keeps the threads at labels of their calls.
LEMMA LabelStep ==
    ASSUME TypeOK, [Next]_vars
    PROVE  pc' \in [Threads -> Labels] /\ timed' \in [Threads -> BOOLEAN]
<1> DEFINE Labelled == pc' \in [Threads -> Labels] /\ timed' \in [Threads -> BOOLEAN]
<1> USE DEF TypeOK, Labels, Goto, Leave
<1>1. CASE UNCHANGED vars
  BY <1>1 DEF vars
<1>2. ASSUME NEW t \in Threads, Acquire(t) PROVE Labelled
  BY <1>2 DEF Acquire, LockAtOnce, LockSharedAtOnce, LockSleep, LockSharedSleep
<1>3. ASSUME NEW t \in Threads, Resume(t) PROVE Labelled
  BY <1>3 DEF Resume, WriterEnter, WriterSleepAgain, WriterGiveUp,
              ReaderEnter, ReaderSleepAgain, ReaderGiveUp
<1>4. ASSUME NEW t \in Threads, Release(t) PROVE Labelled
  BY <1>4 DEF Release, Unlock, UnlockShared
<1>5. ASSUME NEW t \in Threads, Notify(t) PROVE Labelled
  BY <1>5 DEF Notify, NotifyWriter, NotifyReaders, At
<1>6. ASSUME NEW t \in Threads, SpuriousWakeup(t) \/ Deadline(t) PROVE Labelled
  BY <1>6 DEF SpuriousWakeup, Deadline
<1>7. QED BY <1>1, <1>2, <1>3, <1>4, <1>5, <1>6 DEF Next

\* Every step keeps the counters truthful and the writers alone.
LEMMA LockStep == LockInv /\ [Next]_vars => LockInv'
<1> SUFFICES ASSUME LockInv, [Next]_vars PROVE LockInv'
  OBVIOUS
<1> DEFINE Counted == /\ active_readers' = Cardinality(Readers')
                      /\ waiting_writers' = Cardinality(Waiting')
           Flagged == writer_active' = (Writers' # {})
           Alone == Writers' # {} => Cardinality(Writers') = 1 /\ Readers' = {}
<1>0. /\ active_readers = Cardinality(Readers) /\ active_readers \in Nat
      /\ waiting_writers = Cardinality(Waiting) /\ waiting_writers \in Nat
      /\ writer_active = (Writers # {})
      /\ Writers # {} => Cardinality(Writers) = 1 /\ Readers = {}
  BY DEF LockInv, CountersExact, Exclusion, TypeOK, Readers, Writers
<1>1. ASSUME Quiet PROVE Counted /\ Flagged /\ Alone
  BY <1>0, <1>1 DEF Quiet, monitor
<1>2. ASSUME NEW t \in Threads, EntersShared(t) PROVE Counted /\ Flagged /\ Alone
  <2>1. Counted
    BY <1>0, <1>2, SetsFinite, FS_AddElement DEF EntersShared
  <2>2. Flagged /\ Alone
    BY <1>0, <1>2, PredicatesExact DEF EntersShared
  <2>3. QED BY <2>1, <2>2
<1>3. ASSUME NEW t \in Threads, LeavesShared(t) PROVE Counted /\ Flagged /\ Alone
  <2>1. Counted
    BY <1>0, <1>3, SetsFinite, FS_RemoveElement DEF LeavesShared
  <2>2. Flagged /\ Alone
    BY <1>0, <1>3 DEF LeavesShared
  <2>3. QED BY <2>1, <2>2
<1>4. ASSUME NEW t \in Threads, Enters(t) PROVE Counted /\ Flagged /\ Alone
  <2>1. Writers' = {t} /\ Readers' = {}
    BY <1>4, PredicatesExact DEF Enters
  <2>2. Counted
    BY <1>0, <1>4, SetsFinite, FS_RemoveElement DEF Enters
  <2>3. Flagged /\ Alone
    BY <1>4, <2>1, FS_Singleton DEF Enters
  <2>4. QED BY <2>2, <2>3
<1>5. ASSUME NEW t \in Threads, Leaves(t) PROVE Counted /\ Flagged /\ Alone
  <2>1. PICK w : Writers = {w}
    BY <1>0, <1>5, SetsFinite, FS_Singleton DEF Leaves
  <2>2. Writers' = {}
    BY <1>5, <2>1 DEF Leaves
  <2>3. QED BY <1>0, <1>5, <2>2 DEF Leaves
<1>6. ASSUME NEW t \in Threads, Queues(t) PROVE Counted /\ Flagged /\ Alone
  <2>1. Counted
    BY <1>0, <1>6, SetsFinite, FS_AddElement DEF Queues
  <2>2. Flagged /\ Alone
    BY <1>0, <1>6 DEF Queues
  <2>3. QED BY <2>1, <2>2
<1>7. ASSUME NEW t \in Threads, GivesUp(t) PROVE Counted /\ Flagged /\ Alone
  <2>1. Counted
    BY <1>0, <1>7, SetsFinite, FS_RemoveElement DEF GivesUp
  <2>2. Flagged /\ Alone
    BY <1>0, <1>7 DEF GivesUp
  <2>3. QED BY <2>1, <2>2
<1>8. OneOfTheKinds BY Kinds DEF LockInv
<1>9. Counted /\ Flagged /\ Alone
  BY <1>1, <1>2, <1>3, <1>4, <1>5, <1>6, <1>7, <1>8 DEF OneOfTheKinds
<1>10. TypeOK'
  <2>1. active_readers' \in Nat /\ waiting_writers' \in Nat
    BY <1>9, SetsFinite, FS_CardinalityType
  <2>2. QED BY <1>9, <2>1, LabelStep DEF LockInv, TypeOK
<1>11. QED BY <1>9, <1>10 DEF LockInv, CountersExact, Exclusion, Readers, Writers

\* Whatever the threads call and whoever times out, reader_writer_lock.hpp
\* admits one writer alone or readers only, and its counters say who is there.
THEOREM LockIsExclusive == Spec => []LockInv
BY InitLock, LockStep, PTL DEF Spec

-----------------------------------------------------------------------------
(* Wakeups.                                                                *)

\* No writer sleeps while waiting_writers is zero.
LEMMA AsleepCounted ==
    ASSUME LockInv, waiting_writers = 0
    PROVE  At("writer_asleep") = {}
<1>1. Waiting = {}
  BY SetsFinite, FS_EmptySet DEF LockInv, CountersExact
<1>2. QED BY <1>1 DEF Waiting

\* No step leaves a writer asleep beside a lock it could take.
LEMMA WriterWakeupStep == LockInv /\ NoneStranded /\ [Next]_vars => NoStrandedWriter'
<1> SUFFICES ASSUME LockInv, NoStrandedWriter, [Next]_vars,
                    WriterMayEnter', NEW s \in Threads, pc'[s] = "writer_asleep"
             PROVE  \E u \in Threads : pc'[u] \in {"writer_woken", "notify_writer"}
  BY DEF NoneStranded, NoStrandedWriter, At
<1> DEFINE Coming == \E u \in Threads : pc'[u] \in {"writer_woken", "notify_writer"}
<1>0. /\ TypeOK
      /\ WriterMayEnter /\ (\E u \in Threads : pc[u] = "writer_asleep") =>
             \E u \in Threads : pc[u] \in {"writer_woken", "notify_writer"}
  BY DEF LockInv, NoStrandedWriter, At
<1> USE DEF Goto, Leave, monitor
<1>1. CASE UNCHANGED vars
  BY <1>0, <1>1 DEF vars, WriterMayEnter
<1>2. ASSUME NEW t \in Threads, LockAtOnce(t) \/ WriterEnter(t) PROVE Coming
  BY <1>2 DEF LockAtOnce, WriterEnter, WriterMayEnter
<1>3. ASSUME NEW t \in Threads, LockSharedAtOnce(t) \/ ReaderEnter(t) PROVE Coming
  BY <1>0, <1>3 DEF LockSharedAtOnce, ReaderEnter, WriterMayEnter, TypeOK
<1>4. ASSUME NEW t \in Threads, NEW deadline \in BOOLEAN,
             LockSleep(t, deadline) \/ WriterSleepAgain(t) \/ WriterGiveUp(t)
      PROVE  Coming
  BY <1>4 DEF LockSleep, WriterSleepAgain, WriterGiveUp, WriterMayEnter
<1>5. ASSUME NEW t \in Threads, NEW deadline \in BOOLEAN,
             LockSharedSleep(t, deadline) \/ ReaderSleepAgain(t) \/ ReaderGiveUp(t)
      PROVE  Coming
  BY <1>0, <1>5
  DEF LockSharedSleep, ReaderSleepAgain, ReaderGiveUp, WriterMayEnter, TypeOK
<1>6. ASSUME NEW t \in Threads, Unlock(t) PROVE Coming
  <2>1. s # t /\ pc[s] = "writer_asleep"
    BY <1>0, <1>6 DEF Unlock, TypeOK
  <2>2. waiting_writers > 0
    BY <1>0, <2>1, AsleepCounted DEF At, TypeOK
  <2>3. QED BY <1>0, <1>6, <2>2 DEF Unlock, TypeOK
<1>7. ASSUME NEW t \in Threads, UnlockShared(t) PROVE Coming
  <2>1. s # t /\ pc[s] = "writer_asleep"
    BY <1>0, <1>7 DEF UnlockShared, TypeOK
  <2>2. waiting_writers > 0
    BY <1>0, <2>1, AsleepCounted DEF At, TypeOK
  <2>3. QED BY <1>0, <1>7, <2>2 DEF UnlockShared, TypeOK, WriterMayEnter
<1>8. ASSUME NEW t \in Threads, NotifyWriter(t) PROVE Coming
  BY <1>0, <1>8 DEF NotifyWriter, TypeOK, At
<1>9. ASSUME NEW t \in Threads, NotifyReaders(t) PROVE Coming
  BY <1>0, <1>9 DEF NotifyReaders, TypeOK, WriterMayEnter
<1>10. ASSUME NEW t \in Threads, SpuriousWakeup(t) PROVE Coming
  BY <1>0, <1>10 DEF SpuriousWakeup, TypeOK, WriterMayEnter
<1>11. ASSUME NEW t \in Threads, Deadline(t) PROVE Coming
  <2>1. PICK u \in Threads : pc[u] \in {"writer_woken", "notify_writer"}
    BY <1>0, <1>11 DEF Deadline, TypeOK, WriterMayEnter
  <2>2. QED BY <1>0, <1>11, <2>1 DEF Deadline, TypeOK
<1>12. QED
  BY <1>1, <1>2, <1>3, <1>4, <1>5, <1>6, <1>7, <1>8, <1>9, <1>10, <1>11
  DEF Next, Acquire, Resume, Release, Notify

\* No step leaves a reader asleep with no writer there and no notify_all due.
LEMMA ReaderWakeupStep == LockInv /\ NoneStranded /\ [Next]_vars => NoStrandedReader'
<1> SUFFICES ASSUME LockInv, NoStrandedReader, [Next]_vars,
                    ReaderMayEnter', NEW s \in Threads, pc'[s] = "reader_asleep"
             PROVE  \E u \in Threads : pc'[u] = "notify_readers"
  BY DEF NoneStranded, NoStrandedReader, At
<1> DEFINE Due == \E u \in Threads : pc'[u] = "notify_readers"
<1>0. /\ TypeOK
      /\ ReaderMayEnter /\ (\E u \in Threads : pc[u] = "reader_asleep") =>
             \E u \in Threads : pc[u] = "notify_readers"
  BY DEF LockInv, NoStrandedReader, At
<1> USE DEF Goto, Leave, monitor
<1>1. CASE UNCHANGED vars
  BY <1>0, <1>1 DEF vars, ReaderMayEnter
<1>2. ASSUME NEW t \in Threads, LockAtOnce(t) \/ WriterEnter(t) PROVE Due
  BY <1>2 DEF LockAtOnce, WriterEnter, ReaderMayEnter
<1>3. ASSUME NEW t \in Threads, LockSharedAtOnce(t) \/ ReaderEnter(t) PROVE Due
  BY <1>0, <1>3 DEF LockSharedAtOnce, ReaderEnter, ReaderMayEnter, TypeOK
<1>4. ASSUME NEW t \in Threads, NEW deadline \in BOOLEAN, LockSleep(t, deadline)
      PROVE  Due
  BY <1>0, <1>4 DEF LockSleep, ReaderMayEnter, TypeOK
<1>5. ASSUME NEW t \in Threads, WriterGiveUp(t) PROVE Due
  BY <1>0, <1>5 DEF WriterGiveUp, ReaderMayEnter, TypeOK
<1>6. ASSUME NEW t \in Threads, NEW deadline \in BOOLEAN,
             \/ LockSharedSleep(t, deadline) \/ ReaderSleepAgain(t) \/ ReaderGiveUp(t)
      PROVE  Due
  BY <1>6 DEF LockSharedSleep, ReaderSleepAgain, ReaderGiveUp, ReaderMayEnter
<1>7. ASSUME NEW t \in Threads, Unlock(t) PROVE Due
  BY <1>0, <1>7 DEF Unlock, ReaderMayEnter, TypeOK
<1>8. ASSUME NEW t \in Threads, UnlockShared(t) \/ WriterSleepAgain(t) PROVE Due
  BY <1>0, <1>8 DEF UnlockShared, WriterSleepAgain, ReaderMayEnter, TypeOK
<1>9. ASSUME NEW t \in Threads, NotifyWriter(t) PROVE Due
  BY <1>0, <1>9 DEF NotifyWriter, ReaderMayEnter, TypeOK, At
<1>10. ASSUME NEW t \in Threads, NotifyReaders(t) PROVE Due
  BY <1>0, <1>10 DEF NotifyReaders, TypeOK
<1>11. ASSUME NEW t \in Threads, SpuriousWakeup(t) \/ Deadline(t) PROVE Due
  <2>1. PICK u \in Threads : pc[u] = "notify_readers"
    BY <1>0, <1>11 DEF SpuriousWakeup, Deadline, TypeOK, ReaderMayEnter
  <2>2. QED BY <1>0, <1>11, <2>1 DEF SpuriousWakeup, Deadline, TypeOK
<1>12. QED
  BY <1>1, <1>2, <1>3, <1>4, <1>5, <1>6, <1>7, <1>8, <1>9, <1>10, <1>11
  DEF Next, Acquire, Resume, Release, Notify

\* unlock(), unlock_shared() and a writer that gives up notify the right side:
\* no thread sleeps through a lock it could take.  NoneStranded is inductive
\* together with LockInv, whose counters decide who is notified.
THEOREM NobodyStranded == Spec => []NoneStranded
<1>1. Init => NoneStranded
  BY DEF Init, NoneStranded, NoStrandedWriter, NoStrandedReader, At
<1>2. LockInv /\ NoneStranded /\ [Next]_vars => NoneStranded'
  BY WriterWakeupStep, ReaderWakeupStep DEF NoneStranded
<1>3. QED BY LockIsExclusive, <1>1, <1>2, PTL DEF Spec

-----------------------------------------------------------------------------
(* The policy.                                                             *)

\* Every step is a step of the writer-preferring policy or changes nothing in it.
LEMMA PolicyStep == LockInv /\ [Next]_vars => [Policy!Next]_(Policy!lockVars)
<1> SUFFICES ASSUME LockInv, [Next]_vars PROVE [Policy!Next]_(Policy!lockVars)
  OBVIOUS
<1> USE DEF Readers, Writers
<1>1. CASE Quiet
  BY <1>1 DEF Quiet, Policy!lockVars
<1>2. ASSUME NEW t \in Threads, EntersShared(t) PROVE Policy!AdmitReader(t)
  BY <1>2, PredicatesExact DEF EntersShared, Policy!AdmitReader
<1>3. ASSUME NEW t \in Threads, LeavesShared(t) PROVE Policy!Release(t)
  <2>1. Writers = {}
    BY <1>3 DEF LeavesShared, LockInv, Exclusion
  <2>2. QED BY <1>3, <2>1 DEF LeavesShared, Policy!Release
<1>4. ASSUME NEW t \in Threads, Enters(t) PROVE Policy!AdmitWriter(t)
  BY <1>4, PredicatesExact DEF Enters, Policy!AdmitWriter, Policy!Free
<1>5. ASSUME NEW t \in Threads, Leaves(t) PROVE Policy!Release(t)
  <2>1. Readers = {}
    BY <1>5 DEF Leaves, LockInv, Exclusion
  <2>2. QED BY <1>5, <2>1 DEF Leaves, Policy!Release
<1>6. ASSUME NEW t \in Threads, Queues(t) PROVE Policy!QueueWriter(t)
  BY <1>6, PredicatesExact DEF Queues, Policy!QueueWriter, Policy!Free
<1>7. ASSUME NEW t \in Threads, GivesUp(t) PROVE Policy!GiveUp(t)
  BY <1>7, PredicatesExact DEF GivesUp, Policy!GiveUp, Policy!Free
<1>8. OneOfTheKinds BY Kinds DEF LockInv
<1>9. QED
  BY <1>1, <1>2, <1>3, <1>4, <1>5, <1>6, <1>7, <1>8 DEF OneOfTheKinds, Policy!Next

\* A new lock is free and nobody waits.
LEMMA InitPolicy == Init => Policy!Init
BY DEF Init, Policy!Init, At, Waiting

\* The monitor of reader_writer_lock.hpp implements ADR-0014's policy over sets
\* of threads: one writer or many readers, no reader admitted past a waiting writer.
THEOREM LockObeysPolicy == Spec => ImplementsPolicy
<1>1. Spec => [][Policy!Next]_(Policy!lockVars)
  BY LockIsExclusive, PolicyStep, PTL DEF Spec
<1>2. QED BY <1>1, InitPolicy, PTL DEF Spec, ImplementsPolicy, Policy!Spec
=============================================================================
