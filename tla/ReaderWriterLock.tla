--------------------------- MODULE ReaderWriterLock ---------------------------
(***************************************************************************)
(* ReaderWriterLock (reader_writer_lock.hpp): a monitor with one mutex and *)
(* one condition variable per side.  Every stretch of code under the mutex *)
(* is one step; a notification made after the mutex is released is a step  *)
(* of its own.  A predicate wait is: test; sleep; be woken by a            *)
(* notification, by nothing (spuriously) or by the deadline; test again.   *)
(* A wait that has timed out returns the predicate's value.                *)
(*                                                                         *)
(* Callers respect the preconditions: no recursive acquisition, and only a *)
(* holder releases.  A try_lock or try_lock_shared that fails changes      *)
(* nothing.                                                                *)
(***************************************************************************)
EXTENDS Naturals, FiniteSets

CONSTANT Threads

ASSUME LockAssumption == IsFiniteSet(Threads)

VARIABLES writer_active, waiting_writers, active_readers,
          pc,       \* where each thread is
          timed     \* timed[t]: t's call in progress has a deadline

monitor == <<writer_active, waiting_writers, active_readers>>
vars == <<monitor, pc, timed>>

Goto(t, label) == pc' = [pc EXCEPT ![t] = label]

\* The thread leaves its call, with or without the lock.
Leave(t, label) ==
    /\ Goto(t, label)
    /\ timed' = [timed EXCEPT ![t] = FALSE]

At(label) == {t \in Threads : pc[t] = label}

\* The predicates of the two condition variables.
WriterMayEnter == ~ writer_active /\ active_readers = 0
ReaderMayEnter == ~ writer_active /\ waiting_writers = 0

Init ==
    /\ writer_active = FALSE
    /\ waiting_writers = 0
    /\ active_readers = 0
    /\ pc = [t \in Threads |-> "idle"]
    /\ timed = [t \in Threads |-> FALSE]

-----------------------------------------------------------------------------
(* The writer side: lock, try_lock_for, try_lock_until *)

\* The whole of lock() and writer_wait() when the predicate holds at once
\* (waiting_writers_ goes up and down again), and of a try_lock that succeeds.
LockAtOnce(t) ==
    /\ pc[t] = "idle"
    /\ WriterMayEnter
    /\ writer_active' = TRUE
    /\ Goto(t, "writing")
    /\ UNCHANGED <<waiting_writers, active_readers, timed>>

LockSleep(t, deadline) ==
    /\ pc[t] = "idle"
    /\ ~ WriterMayEnter
    /\ waiting_writers' = waiting_writers + 1
    /\ timed' = [timed EXCEPT ![t] = deadline]
    /\ Goto(t, "writer_asleep")
    /\ UNCHANGED <<writer_active, active_readers>>

\* A writer that has been woken, or whose deadline has passed, and finds the
\* lock free takes it.
WriterEnter(t) ==
    /\ pc[t] \in {"writer_woken", "writer_expired"}
    /\ WriterMayEnter
    /\ waiting_writers' = waiting_writers - 1
    /\ writer_active' = TRUE
    /\ Leave(t, "writing")
    /\ UNCHANGED active_readers

WriterSleepAgain(t) ==
    /\ pc[t] = "writer_woken"
    /\ ~ WriterMayEnter
    /\ Goto(t, "writer_asleep")
    /\ UNCHANGED <<monitor, timed>>

\* Mutant: a timed writer that gives up leaves the readers asleep.
WriterGiveUpQuietly(t) ==
    /\ pc[t] = "writer_expired"
    /\ ~ WriterMayEnter
    /\ waiting_writers' = waiting_writers - 1
    /\ Leave(t, "idle")
    /\ UNCHANGED <<writer_active, active_readers>>

\* Mutant: a timed writer that gives up is still counted as waiting.
WriterGiveUpUncounted(t) ==
    /\ pc[t] = "writer_expired"
    /\ ~ WriterMayEnter
    /\ Leave(t, "idle")
    /\ UNCHANGED monitor

\* A timed writer that gives up admits the readers it was holding back.
WriterGiveUp(t) ==
    /\ pc[t] = "writer_expired"
    /\ ~ WriterMayEnter
    /\ waiting_writers' = waiting_writers - 1
    /\ Leave(t, IF waiting_writers' = 0 /\ ~ writer_active
                THEN "notify_readers" ELSE "idle")
    /\ UNCHANGED <<writer_active, active_readers>>

\* Mutant: the readers are always the ones notified.
UnlockForReaders(t) ==
    /\ pc[t] = "writing"
    /\ writer_active' = FALSE
    /\ Goto(t, "notify_readers")
    /\ UNCHANGED <<waiting_writers, active_readers, timed>>

Unlock(t) ==
    /\ pc[t] = "writing"
    /\ writer_active' = FALSE
    /\ Goto(t, IF waiting_writers > 0 THEN "notify_writer" ELSE "notify_readers")
    /\ UNCHANGED <<waiting_writers, active_readers, timed>>

-----------------------------------------------------------------------------
(* The reader side: lock_shared, try_lock_shared_for, try_lock_shared_until *)

\* Mutant: only an active writer holds readers back.
LockSharedAtOnceReaderPreferring(t) ==
    /\ pc[t] = "idle"
    /\ ~ writer_active
    /\ active_readers' = active_readers + 1
    /\ Goto(t, "reading")
    /\ UNCHANGED <<writer_active, waiting_writers, timed>>

\* lock_shared and its timed forms when the predicate holds at once, and a
\* try_lock_shared that succeeds.
LockSharedAtOnce(t) ==
    /\ pc[t] = "idle"
    /\ ReaderMayEnter
    /\ active_readers' = active_readers + 1
    /\ Goto(t, "reading")
    /\ UNCHANGED <<writer_active, waiting_writers, timed>>

LockSharedSleep(t, deadline) ==
    /\ pc[t] = "idle"
    /\ ~ ReaderMayEnter
    /\ timed' = [timed EXCEPT ![t] = deadline]
    /\ Goto(t, "reader_asleep")
    /\ UNCHANGED monitor

ReaderEnter(t) ==
    /\ pc[t] \in {"reader_woken", "reader_expired"}
    /\ ReaderMayEnter
    /\ active_readers' = active_readers + 1
    /\ Leave(t, "reading")
    /\ UNCHANGED <<writer_active, waiting_writers>>

ReaderSleepAgain(t) ==
    /\ pc[t] = "reader_woken"
    /\ ~ ReaderMayEnter
    /\ Goto(t, "reader_asleep")
    /\ UNCHANGED <<monitor, timed>>

ReaderGiveUp(t) ==
    /\ pc[t] = "reader_expired"
    /\ ~ ReaderMayEnter
    /\ Leave(t, "idle")
    /\ UNCHANGED monitor

\* The last departing reader hands the lock to a waiting writer.
UnlockShared(t) ==
    /\ pc[t] = "reading"
    /\ active_readers' = active_readers - 1
    /\ Goto(t, IF active_readers' = 0 /\ waiting_writers > 0
               THEN "notify_writer" ELSE "idle")
    /\ UNCHANGED <<writer_active, waiting_writers, timed>>

-----------------------------------------------------------------------------
(* The condition variables *)

\* writer_turn_.notify_one(): one sleeping writer, if there is one.
NotifyWriter(t) ==
    /\ pc[t] = "notify_writer"
    /\ \/ \E w \in At("writer_asleep") :
              pc' = [pc EXCEPT ![t] = "idle", ![w] = "writer_woken"]
       \/ At("writer_asleep") = {} /\ Goto(t, "idle")
    /\ UNCHANGED <<monitor, timed>>

\* readers_allowed_.notify_all().
NotifyReaders(t) ==
    /\ pc[t] = "notify_readers"
    /\ pc' = [u \in Threads |-> IF u = t THEN "idle"
                                ELSE IF pc[u] = "reader_asleep" THEN "reader_woken"
                                ELSE pc[u]]
    /\ UNCHANGED <<monitor, timed>>

SpuriousWakeup(t) ==
    /\ \/ pc[t] = "writer_asleep" /\ Goto(t, "writer_woken")
       \/ pc[t] = "reader_asleep" /\ Goto(t, "reader_woken")
    /\ UNCHANGED <<monitor, timed>>

Deadline(t) ==
    /\ timed[t]
    /\ \/ pc[t] = "writer_asleep" /\ Goto(t, "writer_expired")
       \/ pc[t] = "reader_asleep" /\ Goto(t, "reader_expired")
    /\ UNCHANGED <<monitor, timed>>

-----------------------------------------------------------------------------
Acquire(t) ==
    \/ LockAtOnce(t) \/ LockSharedAtOnce(t)
    \/ \E deadline \in BOOLEAN : LockSleep(t, deadline) \/ LockSharedSleep(t, deadline)

Resume(t) ==
    \/ WriterEnter(t) \/ WriterSleepAgain(t) \/ WriterGiveUp(t)
    \/ ReaderEnter(t) \/ ReaderSleepAgain(t) \/ ReaderGiveUp(t)

Release(t) == Unlock(t) \/ UnlockShared(t)
Notify(t)  == NotifyWriter(t) \/ NotifyReaders(t)

Next ==
    \E t \in Threads : \/ Acquire(t) \/ Resume(t) \/ Release(t) \/ Notify(t)
                       \/ SpuriousWakeup(t) \/ Deadline(t)

Spec == Init /\ [][Next]_vars

\* Holders release and running threads run.  Nobody need ever ask for the lock,
\* no deadline need pass, and no wakeup is spurious by obligation.
Fairness ==
    \A t \in Threads : WF_vars(Resume(t)) /\ WF_vars(Release(t)) /\ WF_vars(Notify(t))

LiveSpec == Spec /\ Fairness

-----------------------------------------------------------------------------
(* Properties *)

Labels == {"idle", "reading", "writing", "notify_writer", "notify_readers",
           "writer_asleep", "writer_woken", "writer_expired",
           "reader_asleep", "reader_woken", "reader_expired"}

\* Types of the monitor's fields and of every thread's place in its call.
TypeOK ==
    /\ writer_active \in BOOLEAN
    /\ waiting_writers \in Nat /\ active_readers \in Nat
    /\ pc \in [Threads -> Labels]
    /\ timed \in [Threads -> BOOLEAN]

Waiting == At("writer_asleep") \union At("writer_woken") \union At("writer_expired")

\* The counters tell the truth: each thread that holds or awaits the lock is
\* counted exactly once, whichever way its call went, timeouts included.
CountersExact ==
    /\ active_readers = Cardinality(At("reading"))
    /\ waiting_writers = Cardinality(Waiting)
    /\ writer_active <=> At("writing") # {}

\* A writer shares the lock with nobody.
Exclusion ==
    At("writing") # {} => /\ Cardinality(At("writing")) = 1
                          /\ At("reading") = {}

\* Every call of every thread, the ones that time out included, leaves the lock
\* with truthful counters, which is what makes it exclusive.
LockInv == TypeOK /\ CountersExact /\ Exclusion

\* No wakeup is lost.  A writer sleeps through a free lock only while another
\* waiting writer is on its way to take it or a notification is under way.
NoStrandedWriter ==
    WriterMayEnter /\ At("writer_asleep") # {} =>
        At("writer_woken") \union At("notify_writer") # {}

\* A reader sleeps while no writer holds or awaits the lock only until a
\* notify_all that is already due.
NoStrandedReader ==
    ReaderMayEnter /\ At("reader_asleep") # {} => At("notify_readers") # {}

\* Nobody sleeps beside a lock it could take, on either condition variable,
\* whoever times out: unlock() and writer_wait() notify the right side.
NoneStranded == NoStrandedWriter /\ NoStrandedReader

\* The lock obeys the writer-preferring policy over sets of threads.
Policy == INSTANCE WriterPreferringLock WITH
    readers <- At("reading"), writers <- At("writing"), queued <- Waiting

ImplementsPolicy == Policy!Spec

\* A continuous stream of readers never starves writers: once a writer waits,
\* some writer runs or all of them give up.
WritersRun == waiting_writers > 0 ~> (writer_active \/ waiting_writers = 0)
=============================================================================
