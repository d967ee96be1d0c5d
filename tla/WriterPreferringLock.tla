------------------------- MODULE WriterPreferringLock -------------------------
(***************************************************************************)
(* What ReaderWriterLock promises (ADR-0014): any number of readers or one *)
(* writer, and no reader is admitted while a writer waits.  It is stated   *)
(* over the sets of threads, not over counters.                            *)
(***************************************************************************)
CONSTANT Threads

VARIABLES readers,   \* the threads holding shared ownership
          writers,   \* the threads holding exclusive ownership
          queued     \* the writers waiting for it

lockVars == <<readers, writers, queued>>

Init == readers = {} /\ writers = {} /\ queued = {}

Free == readers = {} /\ writers = {}

AdmitReader(t) ==
    /\ t \notin readers
    /\ writers = {} /\ queued = {}
    /\ readers' = readers \union {t}
    /\ UNCHANGED <<writers, queued>>

\* A writer that finds the lock taken waits its turn ...
QueueWriter(t) ==
    /\ ~ Free
    /\ t \notin queued
    /\ queued' = queued \union {t}
    /\ UNCHANGED <<readers, writers>>

\* ... and leaves the queue with the lock, or without it if its time is up;
\* one that finds the lock free need not queue, and may overtake.
AdmitWriter(t) ==
    /\ Free
    /\ writers' = {t}
    /\ queued' = queued \ {t}
    /\ UNCHANGED readers

GiveUp(t) ==
    /\ ~ Free
    /\ t \in queued
    /\ queued' = queued \ {t}
    /\ UNCHANGED <<readers, writers>>

Release(t) ==
    /\ t \in readers \union writers
    /\ readers' = readers \ {t}
    /\ writers' = writers \ {t}
    /\ UNCHANGED queued

Next ==
    \E t \in Threads : \/ AdmitReader(t) \/ QueueWriter(t) \/ AdmitWriter(t)
                       \/ GiveUp(t) \/ Release(t)

Spec == Init /\ [][Next]_lockVars
=============================================================================
