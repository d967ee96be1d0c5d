--------------------------- MODULE ThreadPoolProofs ---------------------------
(***************************************************************************)
(* ThreadPool loses no task and no wakeup, starts tasks in order and       *)
(* drains when it shuts down, for every finite set of workers and          *)
(* submitters, all priorities and any number of tasks.                     *)
(*                                                                         *)
(* None of this is inductive alone.  The queue's part rests on the         *)
(* numbering of tasks (Numbered, Unique), the shutdown's part on what a    *)
(* phase of the owner implies for the workers (Phases), the order of       *)
(* starts on what the queue still holds (Ordered).                         *)
(***************************************************************************)
EXTENDS ThreadPool, FiniteSetTheorems, SequenceTheorems, TLAPS

\* Sequence numbers below next_sequence are the ones given out.
Numbered ==
    /\ \A t \in heap : t.sequence < next_sequence
    /\ \A w \in Workers : task[w] # NoTask => task[w].sequence < next_sequence
    /\ \A k \in Sequences : future[k] = "none" <=> k >= next_sequence

\* A sequence number is in one place of the queue and the workers at most.
Unique ==
    /\ \A t, u \in heap : t.sequence = u.sequence => t = u
    /\ \A t \in heap, w \in Workers : task[w] # NoTask => task[w].sequence # t.sequence
    /\ \A v, w \in Workers : v # w /\ task[v] # NoTask /\ task[w] # NoTask =>
                                 task[v].sequence # task[w].sequence

\* Whoever waits for a future is in a get().
Getting ==
    /\ \A w \in Workers : awaits[w] # NoTask => worker[w] = "running_get"
    /\ \A s \in Submitters : awaits[s] # NoTask => submitter[s] = "get"

\* What the owner's progress says about the workers and the queue.
Phases ==
    /\ stopping <=> main \in {"notify", "joining", "down"}
    /\ main = "up" => \A w \in Workers : worker[w] # "unborn"
    /\ main = "down" => \A w \in Workers : worker[w] \in {"unborn", "exited"}
    /\ heap # {} => \E w \in Workers : worker[w] # "unborn"
    /\ \A w \in Workers : worker[w] = "exited" => stopping /\ heap = {}

RunsFirst(t, u) ==
    \/ t.priority > u.priority
    \/ t.priority = u.priority /\ t.sequence < u.sequence

\* A queued task that was there when another started runs later than that one.
Ordered ==
    /\ started \in Seq([task : Tasks, seen : Nat])
    /\ \A i \in 1 .. Len(started) : started[i].seen <= next_sequence
    /\ \A i \in 1 .. Len(started), t \in heap :
           t.sequence < started[i].seen => RunsFirst(started[i].task, t)

\* The part of the invariant about who is where in its calls.
CallsInv == TypeOK /\ Getting

\* The part about the tasks.
QueueInv == NoTaskLost /\ Numbered /\ Unique

-----------------------------------------------------------------------------
(* Kinds of step, as the queue sees them.                                  *)

Rests == UNCHANGED <<heap, next_sequence, task, future, started>>

Enqueues == \E c \in Callers, p \in Priorities : Enqueue(c, p)

Takes(w) ==
    /\ task[w] = NoTask
    /\ \E top \in heap :
          /\ \A other \in heap : ~ runs_later(top, other)
          /\ heap' = heap \ {top}
          /\ task' = [task EXCEPT ![w] = top]
          /\ started' = Append(started, [task |-> top, seen |-> next_sequence])
    /\ UNCHANGED <<next_sequence, future>>

Finishes(w) ==
    /\ task[w] # NoTask
    /\ future' = [future EXCEPT ![task[w].sequence] = "settled"]
    /\ task' = [task EXCEPT ![w] = NoTask]
    /\ UNCHANGED <<heap, next_sequence, started>>

OneOfTheKinds ==
    \/ Rests \/ Enqueues
    \/ \E w \in Workers : Takes(w) \/ Finishes(w)

\* Every step is of one of the kinds.
LEMMA Kinds == TypeOK /\ [Next]_vars => OneOfTheKinds
<1> SUFFICES ASSUME TypeOK, [Next]_vars PROVE OneOfTheKinds
  OBVIOUS
<1> USE DEF pool, getters
<1>1. CASE UNCHANGED vars
  BY <1>1 DEF vars, OneOfTheKinds, Rests
<1>2. ASSUME Constructed \/ ShutdownStart \/ ShutdownNotify \/ ShutdownJoined \/ Gone
      PROVE  Rests
  BY <1>2 DEF Constructed, ShutdownStart, ShutdownNotify, ShutdownJoined, Gone, vars, Rests
<1>3. ASSUME NEW s \in Submitters,
             \/ SubmitterStep(s)
             \/ \E k \in Sequences : SubmitterGets(s, k)
      PROVE  Rests
  BY <1>3 DEF SubmitterStep, NotifySubmitted, SubmitterGot, GetReturn,
              SubmitterGets, GetBegin, Rests
<1>4. ASSUME NEW s \in Submitters, NEW p \in Priorities, Submit(s, p) PROVE Enqueues
  BY <1>4 DEF Submit, Enqueues, Callers
<1>5. ASSUME NEW w \in Workers, NEW p \in Priorities, SubmitNested(w, p) PROVE Enqueues
  BY <1>5 DEF SubmitNested, Enqueues, Callers
<1>6. ASSUME NEW w \in Workers,
             \/ Spawn(w) \/ WorkerSleep(w) \/ WorkerExit(w) \/ NotifyNested(w) \/ TaskGot(w)
             \/ WorkerResultThrows(w) \/ SpuriousWakeup(w)
             \/ \E k \in Sequences : TaskGets(w, k)
      PROVE  Rests
  BY <1>6 DEF Spawn, WorkerSleep, WorkerExit, NotifyNested, TaskGot, GetReturn,
              WorkerResultThrows, SpuriousWakeup, TaskGets, GetBegin, Rests
<1>7. ASSUME NEW w \in Workers, WorkerTake(w) PROVE Takes(w)
  BY <1>7 DEF WorkerTake, Takes, TypeOK
<1>8. ASSUME NEW w \in Workers, WorkerFinish(w) PROVE Finishes(w)
  BY <1>8 DEF WorkerFinish, Finishes, TypeOK
<1>9. QED
  BY <1>1, <1>2, <1>3, <1>4, <1>5, <1>6, <1>7, <1>8
  DEF Next, Shutdown, WorkerStep, OneOfTheKinds

-----------------------------------------------------------------------------
(* Types, and who is in a get().                                           *)

WorkerLabels == {"unborn", "test", "asleep", "woken", "running", "running_notify",
                 "running_get", "exited", "terminated"}

RunningLabels == {"running", "running_notify", "running_get", "terminated"}

\* Facts about the constants and about what TypeOK says.
LEMMA Typed ==
    ASSUME TypeOK
    PROVE  /\ NoTask \notin Tasks /\ NoTask \notin Sequences
           /\ worker \in [Workers -> WorkerLabels]
           /\ \A w \in Workers : task[w] # NoTask <=> worker[w] \in RunningLabels
BY PoolAssumption DEF TypeOK, Tasks, Sequences, WorkerLabels, RunningLabels

\* The constructor's state.
LEMMA InitCalls == Init => CallsInv
<1> SUFFICES ASSUME Init PROVE CallsInv
  OBVIOUS
<1>1. 0 \in 0 .. MaxTasks
  BY PoolAssumption
<1>2. TypeOK
  BY <1>1 DEF Init, TypeOK
<1>3. Getting
  BY DEF Init, Getting, Callers
<1>4. QED BY <1>2, <1>3 DEF CallsInv

\* NotifyOne moves a sleeper to "woken", or nobody, and leaves the rest at labels.
LEMMA NotifyOneMoves ==
    ASSUME NEW labels \in [Workers -> WorkerLabels], NotifyOne(labels)
    PROVE  /\ worker' \in [Workers -> WorkerLabels]
           /\ \A w \in Workers : \/ worker'[w] = labels[w]
                                 \/ worker[w] = "asleep" /\ worker'[w] = "woken"
BY DEF NotifyOne, WorkerAt, WorkerLabels

\* The heap, the numbering, the tasks and the futures keep their types.
LEMMA QueueTypeStep ==
    ASSUME TypeOK, [Next]_vars
    PROVE  /\ heap' \subseteq Tasks
           /\ next_sequence' \in 0 .. MaxTasks
           /\ task' \in [Workers -> Tasks \union {NoTask}]
           /\ future' \in [Sequences -> {"none", "pending", "settled"}]
<1> DEFINE Goal == /\ heap' \subseteq Tasks
                   /\ next_sequence' \in 0 .. MaxTasks
                   /\ task' \in [Workers -> Tasks \union {NoTask}]
                   /\ future' \in [Sequences -> {"none", "pending", "settled"}]
<1> USE DEF TypeOK
<1>1. ASSUME Rests PROVE Goal
  BY <1>1 DEF Rests
<1>2. ASSUME NEW c \in Callers, NEW p \in Priorities, Enqueue(c, p) PROVE Goal
  <2>1. next_sequence \in Sequences /\ next_sequence + 1 \in 0 .. MaxTasks
    BY <1>2, PoolAssumption DEF Enqueue, Sequences
  <2>2. [priority |-> p, sequence |-> next_sequence] \in Tasks
    BY <2>1 DEF Tasks
  <2>3. QED BY <1>2, <2>1, <2>2 DEF Enqueue, NextSequence
<1>3. ASSUME NEW w \in Workers, Takes(w) PROVE Goal
  BY <1>3 DEF Takes
<1>4. ASSUME NEW w \in Workers, Finishes(w) PROVE Goal
  BY <1>4 DEF Finishes
<1>5. QED BY <1>1, <1>2, <1>3, <1>4, Kinds DEF OneOfTheKinds, Enqueues

\* The owner, the submitters and the futures they hold keep their types.
LEMMA CallerTypeStep ==
    ASSUME TypeOK, [Next]_vars
    PROVE  /\ stopping' \in BOOLEAN
           /\ submitter' \in [Submitters -> {"idle", "notify", "get"}]
           /\ main' \in {"constructing", "up", "notify", "joining", "down"}
           /\ holds' \in [Callers -> SUBSET Sequences]
           /\ awaits' \in [Callers -> Sequences \union {NoTask}]
<1> DEFINE Goal == /\ stopping' \in BOOLEAN
                   /\ submitter' \in [Submitters -> {"idle", "notify", "get"}]
                   /\ main' \in {"constructing", "up", "notify", "joining", "down"}
                   /\ holds' \in [Callers -> SUBSET Sequences]
                   /\ awaits' \in [Callers -> Sequences \union {NoTask}]
<1> USE DEF TypeOK, pool, getters
<1>1. CASE UNCHANGED vars \/ Gone
  BY <1>1 DEF vars, Gone
<1>2. ASSUME Constructed \/ ShutdownStart \/ ShutdownNotify \/ ShutdownJoined PROVE Goal
  BY <1>2 DEF Constructed, ShutdownStart, ShutdownNotify, ShutdownJoined
<1>3. ASSUME NEW s \in Submitters, NotifySubmitted(s) \/ SubmitterGot(s) PROVE Goal
  BY <1>3 DEF NotifySubmitted, SubmitterGot, GetReturn
<1>4. ASSUME NEW s \in Submitters, NEW k \in Sequences, SubmitterGets(s, k) PROVE Goal
  BY <1>4 DEF SubmitterGets, GetBegin
<1>5. ASSUME NEW c \in Callers, NEW p \in Priorities, Enqueue(c, p)
      PROVE  holds' \in [Callers -> SUBSET Sequences]
  <2>1. next_sequence \in Sequences
    BY <1>5, PoolAssumption DEF Enqueue, Sequences
  <2>2. QED BY <1>5, <2>1 DEF Enqueue
<1>6. ASSUME NEW s \in Submitters, NEW p \in Priorities, Submit(s, p) PROVE Goal
  <2>1. holds' \in [Callers -> SUBSET Sequences]
    BY <1>5, <1>6 DEF Submit, Callers
  <2>2. QED BY <1>6, <2>1 DEF Submit, Enqueue
<1>7. ASSUME NEW w \in Workers, NEW p \in Priorities, SubmitNested(w, p) PROVE Goal
  <2>1. holds' \in [Callers -> SUBSET Sequences]
    BY <1>5, <1>7 DEF SubmitNested, Callers
  <2>2. QED BY <1>7, <2>1 DEF SubmitNested, Enqueue
<1>8. ASSUME NEW w \in Workers,
             \/ Spawn(w) \/ WorkerSleep(w) \/ WorkerTake(w) \/ WorkerExit(w)
             \/ NotifyNested(w) \/ WorkerResultThrows(w) \/ SpuriousWakeup(w)
      PROVE  Goal
  BY <1>8 DEF Spawn, WorkerSleep, WorkerTake, WorkerExit, NotifyNested,
              WorkerResultThrows, SpuriousWakeup
<1>9. ASSUME NEW w \in Workers, WorkerFinish(w) \/ TaskGot(w) PROVE Goal
  BY <1>9 DEF WorkerFinish, TaskGot, GetReturn
<1>10. ASSUME NEW w \in Workers, NEW k \in Sequences, TaskGets(w, k) PROVE Goal
  BY <1>10 DEF TaskGets, GetBegin
<1>11. QED
  BY <1>1, <1>2, <1>3, <1>4, <1>6, <1>7, <1>8, <1>9, <1>10
  DEF Next, Shutdown, SubmitterStep, WorkerStep

\* A worker has a task exactly while it runs one, and a caller that awaits a
\* future is in a get().
LEMMA RunningStep ==
    ASSUME CallsInv, [Next]_vars
    PROVE  /\ worker' \in [Workers -> WorkerLabels]
           /\ \A w \in Workers : task'[w] # NoTask <=> worker'[w] \in RunningLabels
           /\ Getting'
<1> DEFINE Goal == /\ worker' \in [Workers -> WorkerLabels]
                   /\ \A w \in Workers : task'[w] # NoTask <=> worker'[w] \in RunningLabels
                   /\ Getting'
<1>0. /\ TypeOK /\ Getting
      /\ NoTask \notin Tasks /\ NoTask \notin Sequences
      /\ worker \in [Workers -> WorkerLabels]
      /\ \A w \in Workers : task[w] # NoTask <=> worker[w] \in RunningLabels
      /\ task \in [Workers -> Tasks \union {NoTask}]
      /\ submitter \in [Submitters -> {"idle", "notify", "get"}]
      /\ awaits \in [Callers -> Sequences \union {NoTask}]
      /\ Workers \subseteq Callers /\ Submitters \subseteq Callers
      /\ Workers \intersect Submitters = {}
  BY Typed, PoolAssumption DEF CallsInv, TypeOK, Callers
<1> USE <1>0 DEF pool, getters, WorkerLabels, RunningLabels, Getting, WorkerGoto
<1>1. CASE UNCHANGED vars \/ Gone
  BY <1>1 DEF vars, Gone
<1>2. ASSUME Constructed \/ ShutdownStart \/ ShutdownJoined PROVE Goal
  BY <1>2 DEF Constructed, ShutdownStart, ShutdownJoined
<1>3. ASSUME ShutdownNotify PROVE Goal
  BY <1>3 DEF ShutdownNotify, NotifyAll
<1>4. ASSUME NEW s \in Submitters, NotifySubmitted(s) PROVE Goal
  <2>1. /\ worker' \in [Workers -> WorkerLabels]
        /\ \A w \in Workers : \/ worker'[w] = worker[w]
                              \/ worker[w] = "asleep" /\ worker'[w] = "woken"
    BY <1>4, NotifyOneMoves DEF NotifySubmitted
  <2>2. QED BY <1>4, <2>1 DEF NotifySubmitted
<1>5. ASSUME NEW s \in Submitters, SubmitterGot(s) PROVE Goal
  BY <1>5 DEF SubmitterGot, GetReturn
<1>6. ASSUME NEW s \in Submitters, NEW k \in Sequences, SubmitterGets(s, k) PROVE Goal
  BY <1>6 DEF SubmitterGets, GetBegin
<1>7. ASSUME NEW s \in Submitters, NEW p \in Priorities, Submit(s, p) PROVE Goal
  BY <1>7 DEF Submit, Enqueue
<1>8. ASSUME NEW w \in Workers, NEW p \in Priorities, SubmitNested(w, p) PROVE Goal
  BY <1>8 DEF SubmitNested, Enqueue
<1>9. ASSUME NEW w \in Workers,
             \/ Spawn(w) \/ WorkerSleep(w) \/ WorkerExit(w)
             \/ WorkerResultThrows(w) \/ SpuriousWakeup(w)
      PROVE  Goal
  BY <1>9 DEF Spawn, WorkerSleep, WorkerExit, WorkerResultThrows, SpuriousWakeup
<1>10. ASSUME NEW w \in Workers, NotifyNested(w) PROVE Goal
  <2> DEFINE labels == [worker EXCEPT ![w] = "running"]
  <2>1. /\ worker' \in [Workers -> WorkerLabels]
        /\ \A v \in Workers : \/ worker'[v] = labels[v]
                              \/ worker[v] = "asleep" /\ worker'[v] = "woken"
    <3>1. labels \in [Workers -> WorkerLabels] OBVIOUS
    <3> HIDE DEF labels
    <3>2. QED BY <1>10, <3>1, NotifyOneMoves DEF NotifyNested, labels
  <2>2. QED BY <1>10, <2>1 DEF NotifyNested
<1>11. ASSUME NEW w \in Workers, WorkerTake(w) PROVE Goal
  <2>1. PICK top \in heap : task' = [task EXCEPT ![w] = top]
    BY <1>11 DEF WorkerTake
  <2>2. top \in Tasks
    BY DEF TypeOK
  <2>3. QED BY <1>11, <2>1, <2>2 DEF WorkerTake
<1>12. ASSUME NEW w \in Workers, WorkerFinish(w) PROVE Goal
  BY <1>12 DEF WorkerFinish
<1>13. ASSUME NEW w \in Workers, TaskGot(w) PROVE Goal
  BY <1>13 DEF TaskGot, GetReturn
<1>14. ASSUME NEW w \in Workers, NEW k \in Sequences, TaskGets(w, k) PROVE Goal
  BY <1>14 DEF TaskGets, GetBegin
<1>15. QED
  BY <1>1, <1>2, <1>3, <1>4, <1>5, <1>6, <1>7, <1>8, <1>9, <1>10, <1>11, <1>12,
     <1>13, <1>14
  DEF Next, Shutdown, SubmitterStep, WorkerStep

\* Every step keeps everyone's place in its calls.
LEMMA CallsStep == CallsInv /\ [Next]_vars => CallsInv'
BY QueueTypeStep, CallerTypeStep, RunningStep
   DEF CallsInv, TypeOK, WorkerLabels, RunningLabels, Tasks, Sequences, Callers

-----------------------------------------------------------------------------
(* No task is lost.                                                        *)

\* Nothing is queued, running or promised at first.
LEMMA InitQueue == Init => QueueInv
BY PoolAssumption DEF Init, QueueInv, NoTaskLost, Numbered, Unique, Sequences

\* A task record and its sequence number.
LEMMA TaskFields ==
    ASSUME TypeOK
    PROVE  /\ next_sequence \in Nat
           /\ \A t \in heap : t \in Tasks /\ t.sequence \in Sequences /\ t.sequence \in Nat
           /\ \A w \in Workers : task[w] # NoTask =>
                  task[w] \in Tasks /\ task[w].sequence \in Sequences /\ task[w].sequence \in Nat
BY PoolAssumption DEF TypeOK, Tasks, Sequences

\* submit() queues the task under a number nobody has.
LEMMA EnqueueQueue ==
    ASSUME TypeOK, QueueInv, NEW c \in Callers, NEW p \in Priorities, Enqueue(c, p)
    PROVE  QueueInv'
<1> DEFINE new == [priority |-> p, sequence |-> next_sequence]
<1>1. /\ next_sequence \in Sequences /\ next_sequence \in Nat
      /\ heap' = heap \union {new} /\ new.sequence = next_sequence
      /\ next_sequence' = next_sequence + 1
      /\ future' = [future EXCEPT ![next_sequence] = "pending"]
      /\ task' = task
  BY PoolAssumption DEF Enqueue, NextSequence, Sequences, TypeOK
<1> HIDE DEF new
<1>2. Numbered'
  <2>1. \A t \in heap' : t.sequence < next_sequence'
    BY <1>1, TaskFields DEF QueueInv, Numbered
  <2>2. \A w \in Workers : task'[w] # NoTask => task'[w].sequence < next_sequence'
    BY <1>1, TaskFields DEF QueueInv, Numbered
  <2>3. \A k \in Sequences : future'[k] = "none" <=> k >= next_sequence'
    BY <1>1, PoolAssumption DEF QueueInv, Numbered, TypeOK, Sequences
  <2>4. QED BY <2>1, <2>2, <2>3 DEF Numbered, Sequences
<1>3. Unique'
  <2>1. \A t \in heap : t.sequence # new.sequence
    BY <1>1, TaskFields DEF QueueInv, Numbered
  <2>2. \A w \in Workers : task[w] # NoTask => task[w].sequence # new.sequence
    BY <1>1, TaskFields DEF QueueInv, Numbered
  <2>3. QED BY <1>1, <2>1, <2>2 DEF QueueInv, Unique
<1>4. NoTaskLost'
  BY <1>1 DEF QueueInv, NoTaskLost, TypeOK
<1>5. QED BY <1>2, <1>3, <1>4 DEF QueueInv

\* A worker takes a task out of the queue and runs it.
LEMMA TakeQueue ==
    ASSUME TypeOK, QueueInv, NEW w \in Workers, Takes(w)
    PROVE  QueueInv'
<1>1. PICK top \in heap : heap' = heap \ {top} /\ task' = [task EXCEPT ![w] = top]
  BY DEF Takes
<1>2. UNCHANGED <<next_sequence, future>> /\ task[w] = NoTask
  BY DEF Takes
<1>3. top \in Tasks /\ top # NoTask /\ task \in [Workers -> Tasks \union {NoTask}]
  BY Typed, TaskFields DEF TypeOK
<1>4. Numbered'
  BY <1>1, <1>2, <1>3 DEF QueueInv, Numbered
<1>5. Unique'
  <2>1. \A t, u \in heap' : t.sequence = u.sequence => t = u
    BY <1>1 DEF QueueInv, Unique
  <2>2. \A t \in heap', v \in Workers : task'[v] # NoTask => task'[v].sequence # t.sequence
    BY <1>1, <1>2, <1>3 DEF QueueInv, Unique
  <2>3. \A u, v \in Workers : u # v /\ task'[u] # NoTask /\ task'[v] # NoTask =>
                                  task'[u].sequence # task'[v].sequence
    BY <1>1, <1>2, <1>3 DEF QueueInv, Unique
  <2>4. QED BY <2>1, <2>2, <2>3 DEF Unique
<1>6. NoTaskLost'
  <2> SUFFICES ASSUME NEW k \in Sequences
               PROVE  (\/ \E t \in heap' : t.sequence = k
                       \/ \E v \in Workers : task'[v] # NoTask /\ task'[v].sequence = k)
                      <=> (\/ \E t \in heap : t.sequence = k
                           \/ \E v \in Workers : task[v] # NoTask /\ task[v].sequence = k)
    BY <1>2 DEF QueueInv, NoTaskLost
  <2>1. ASSUME NEW t \in heap, t.sequence = k
        PROVE  \/ \E u \in heap' : u.sequence = k
               \/ \E v \in Workers : task'[v] # NoTask /\ task'[v].sequence = k
    BY <1>1, <1>3, <2>1
  <2>2. ASSUME NEW v \in Workers, task[v] # NoTask, task[v].sequence = k
        PROVE  task'[v] # NoTask /\ task'[v].sequence = k
    BY <1>1, <1>2, <1>3, <2>2
  <2>3. ASSUME NEW v \in Workers, task'[v] # NoTask, task'[v].sequence = k
        PROVE  \/ \E t \in heap : t.sequence = k
               \/ task[v] # NoTask /\ task[v].sequence = k
    BY <1>1, <1>3, <2>3
  <2>4. QED BY <1>1, <2>1, <2>2, <2>3
<1>7. QED BY <1>4, <1>5, <1>6 DEF QueueInv

\* A task that ends settles its own future and no other.
LEMMA FinishQueue ==
    ASSUME TypeOK, QueueInv, NEW w \in Workers, Finishes(w)
    PROVE  QueueInv'
<1> DEFINE mine == task[w].sequence
<1>1. /\ UNCHANGED <<heap, next_sequence>> /\ task[w] # NoTask
      /\ task' = [task EXCEPT ![w] = NoTask]
      /\ future' = [future EXCEPT ![mine] = "settled"]
      /\ mine \in Sequences /\ mine \in Nat /\ mine < next_sequence
      /\ task \in [Workers -> Tasks \union {NoTask}]
  BY TaskFields DEF Finishes, TypeOK, QueueInv, Numbered
<1>2. /\ \A t \in heap : t.sequence # mine
      /\ \A v \in Workers \ {w} : task[v] # NoTask => task[v].sequence # mine
  BY <1>1 DEF QueueInv, Unique
<1> HIDE DEF mine
<1>3. Numbered'
  <2>1. \A k \in Sequences : future'[k] = "none" <=> k >= next_sequence'
    BY <1>1, TaskFields, PoolAssumption DEF QueueInv, Numbered, TypeOK, Sequences
  <2>2. QED BY <1>1, <2>1 DEF QueueInv, Numbered, Sequences
<1>4. Unique'
  BY <1>1 DEF QueueInv, Unique
<1>5. NoTaskLost'
  <2> SUFFICES ASSUME NEW k \in Sequences
               PROVE  future'[k] = "pending" <=>
                          \/ \E t \in heap : t.sequence = k
                          \/ \E v \in Workers : task'[v] # NoTask /\ task'[v].sequence = k
    BY <1>1 DEF NoTaskLost, Sequences
  <2>1. CASE k = mine
    BY <1>1, <1>2, <2>1 DEF TypeOK
  <2>2. CASE k # mine
    <3>1. future'[k] = future[k]
      BY <1>1, <2>2 DEF TypeOK
    <3>2. \A v \in Workers : task'[v] # NoTask /\ task'[v].sequence = k
                                 <=> task[v] # NoTask /\ task[v].sequence = k
      BY <1>1, <2>2 DEF mine
    <3>3. QED BY <3>1, <3>2 DEF QueueInv, NoTaskLost
  <2>3. QED BY <2>1, <2>2
<1>6. QED BY <1>3, <1>4, <1>5 DEF QueueInv

\* Every step keeps every accepted task in one place.
LEMMA QueueStep == TypeOK /\ QueueInv /\ [Next]_vars => QueueInv'
<1> SUFFICES ASSUME TypeOK, QueueInv, [Next]_vars PROVE QueueInv'
  OBVIOUS
<1>1. CASE Rests
  BY <1>1 DEF Rests, QueueInv, NoTaskLost, Numbered, Unique, Sequences
<1>2. CASE Enqueues
  BY <1>2, EnqueueQueue DEF Enqueues
<1>3. QED BY <1>1, <1>2, TakeQueue, FinishQueue, Kinds DEF OneOfTheKinds

-----------------------------------------------------------------------------
(* The order of starts.                                                    *)

\* Nothing has started at first.
LEMMA InitOrder == Init => Ordered /\ StartOrder
BY PoolAssumption DEF Init, Ordered, StartOrder

\* The task a worker takes runs before all that stay queued.
LEMMA TopRunsFirst ==
    ASSUME TypeOK, QueueInv, NEW top \in heap, NEW other \in heap,
           other # top, ~ runs_later(top, other)
    PROVE  RunsFirst(top, other)
<1>1. top.sequence # other.sequence
  BY DEF QueueInv, Unique
<1>2. /\ top.sequence \in Nat /\ other.sequence \in Nat
      /\ top.priority \in Nat /\ other.priority \in Nat
  <2>1. Priorities \subseteq Nat /\ Sequences \subseteq Nat
    BY PoolAssumption DEF Sequences
  <2>2. QED BY <2>1 DEF TypeOK, Tasks
<1>3. QED BY <1>1, <1>2 DEF runs_later, RunsFirst

\* Every step keeps the starts in order.
LEMMA OrderStep ==
    ASSUME TypeOK, QueueInv, Ordered, StartOrder, [Next]_vars
    PROVE  Ordered' /\ StartOrder'
<1> DEFINE Starts == Seq([task : Tasks, seen : Nat])
<1>0. /\ started \in Starts /\ Len(started) \in Nat /\ next_sequence \in Nat
      /\ \A i \in 1 .. Len(started) : /\ started[i] \in [task : Tasks, seen : Nat]
                                      /\ started[i].seen \in Nat
                                      /\ started[i].seen <= next_sequence
  <2>1. started \in Starts
    BY DEF Ordered
  <2>2. Len(started) \in Nat
    BY <2>1, LenProperties
  <2>3. \A i \in 1 .. Len(started) : started[i] \in [task : Tasks, seen : Nat]
    BY <2>1, ElementOfSeq
  <2>4. QED BY <2>1, <2>2, <2>3, TaskFields DEF Ordered
<1>1. CASE Rests \/ \E w \in Workers : Finishes(w)
  <2>1. UNCHANGED <<heap, next_sequence, started>>
    BY <1>1 DEF Rests, Finishes
  <2>2. QED BY <2>1 DEF Ordered, StartOrder, Tasks, Sequences, RunsFirst
<1>2. ASSUME NEW c \in Callers, NEW p \in Priorities, Enqueue(c, p)
      PROVE  Ordered' /\ StartOrder'
  <2> DEFINE new == [priority |-> p, sequence |-> next_sequence]
  <2>1. /\ heap' = heap \union {new} /\ new.sequence = next_sequence
        /\ next_sequence' = next_sequence + 1 /\ started' = started
    BY <1>2 DEF Enqueue, NextSequence
  <2> HIDE DEF new
  <2>2. StartOrder'
    BY <2>1 DEF StartOrder
  <2>3. \A i \in 1 .. Len(started) : ~ (new.sequence < started[i].seen)
    BY <1>0, <2>1
  <2>4. \A i \in 1 .. Len(started), t \in heap' :
            t.sequence < started[i].seen => RunsFirst(started[i].task, t)
    BY <2>1, <2>3 DEF Ordered
  <2>5. QED BY <1>0, <2>1, <2>2, <2>4 DEF Ordered, Tasks, Sequences, RunsFirst
<1>3. ASSUME NEW w \in Workers, Takes(w) PROVE Ordered' /\ StartOrder'
  <2>1. PICK top \in heap :
            /\ \A other \in heap : ~ runs_later(top, other)
            /\ heap' = heap \ {top}
            /\ started' = Append(started, [task |-> top, seen |-> next_sequence])
    BY <1>3 DEF Takes
  <2> DEFINE entry == [task |-> top, seen |-> next_sequence]
             n == Len(started)
  <2>2. next_sequence' = next_sequence
    BY <1>3 DEF Takes
  <2>3. entry \in [task : Tasks, seen : Nat] /\ entry.task = top /\ entry.seen = next_sequence
    BY <1>0 DEF TypeOK
  <2> HIDE DEF entry
  <2>4. /\ started' \in Starts /\ Len(started') = n + 1
        /\ \A i \in 1 .. n : started'[i] = started[i]
        /\ started'[n + 1] = entry
    BY <1>0, <2>1, <2>3, AppendProperties DEF entry
  <2>5. \A i \in 1 .. n + 1 : i \in 1 .. n \/ i = n + 1
    BY <1>0
  <2>6. \A i \in 1 .. n + 1, t \in heap' :
            t.sequence < started'[i].seen => RunsFirst(started'[i].task, t)
    <3>1. \A t \in heap' : RunsFirst(top, t)
      BY <2>1, TopRunsFirst
    <3>2. QED BY <2>1, <2>3, <2>4, <2>5, <3>1 DEF Ordered
  <2>7. Ordered'
    <3>1. \A i \in 1 .. n + 1 : started'[i].seen <= next_sequence
      <4>1. \A i \in 1 .. n : started'[i].seen <= next_sequence
        BY <1>0, <2>4
      <4>2. started'[n + 1].seen <= next_sequence
        BY <1>0, <2>3, <2>4
      <4>3. QED BY <2>5, <4>1, <4>2
    <3>2. QED BY <2>2, <2>4, <2>6, <3>1 DEF Ordered, RunsFirst, Tasks, Sequences
  <2>8. StartOrder'
    <3>0. SUFFICES ASSUME NEW i \in 1 .. Len(started'), NEW j \in 1 .. Len(started'), i < j,
                          started'[j].task.sequence < started'[i].seen
                   PROVE  RunsFirst(started'[i].task, started'[j].task)
      BY DEF StartOrder, RunsFirst
    <3>1. i \in 1 .. n
      BY <1>0, <2>4, <2>5, <3>0
    <3>2. CASE j \in 1 .. n
      BY <2>4, <3>0, <3>1, <3>2 DEF StartOrder, RunsFirst
    <3>3. CASE j = n + 1
      BY <2>3, <2>4, <3>0, <3>1, <3>3 DEF Ordered
    <3>4. QED BY <2>4, <2>5, <3>2, <3>3
  <2>9. QED BY <2>7, <2>8
<1>4. QED BY <1>1, <1>2, <1>3, Kinds DEF OneOfTheKinds, Enqueues

-----------------------------------------------------------------------------
(* Construction and shutdown.                                              *)

\* The phases hold while the constructor has spawned nobody.
LEMMA InitPhases == Init => Phases
BY DEF Init, Phases

\* Every step keeps the phases: no task enters a stopping pool, and a worker
\* exits only from one that is drained.
LEMMA PhasesStep ==
    ASSUME CallsInv, Phases, [Next]_vars
    PROVE  Phases'
<1>0. /\ worker \in [Workers -> WorkerLabels] /\ Workers # {}
      /\ main \in {"constructing", "up", "notify", "joining", "down"}
      /\ stopping \in BOOLEAN
      /\ \A w \in Workers : awaits[w] # NoTask => worker[w] = "running_get"
  BY Typed, PoolAssumption DEF CallsInv, TypeOK, Getting
<1> USE <1>0 DEF Phases, pool, getters, WorkerGoto, WorkerAt, WorkerLabels
<1>1. CASE UNCHANGED vars \/ Gone
  BY <1>1 DEF vars, Gone
<1>2. CASE Constructed
  BY <1>2 DEF Constructed
<1>3. CASE ShutdownStart
  BY <1>3 DEF ShutdownStart
<1>4. CASE ShutdownNotify
  BY <1>4 DEF ShutdownNotify, NotifyAll
<1>5. CASE ShutdownJoined
  BY <1>5 DEF ShutdownJoined
<1>6. ASSUME NEW labels \in [Workers -> WorkerLabels], NotifyOne(labels),
             \A w \in Workers : labels[w] = worker[w] \/ {labels[w], worker[w]} =
                                                             {"running", "running_notify"},
             UNCHANGED <<pool, main>>
      PROVE  Phases'
  <2>1. /\ worker' \in [Workers -> WorkerLabels]
        /\ \A w \in Workers : \/ worker'[w] = labels[w]
                              \/ worker[w] = "asleep" /\ worker'[w] = "woken"
    BY <1>6, NotifyOneMoves
  <2>2. \A w \in Workers : \/ worker'[w] = worker[w]
                           \/ /\ worker[w] \notin {"unborn", "exited"}
                              /\ worker'[w] \notin {"unborn", "exited"}
    BY <1>6, <2>1
  <2>3. QED BY <1>6, <2>1, <2>2
<1>7. ASSUME NEW s \in Submitters, NotifySubmitted(s) PROVE Phases'
  BY <1>6, <1>7 DEF NotifySubmitted
<1>8. ASSUME NEW w \in Workers, NotifyNested(w) PROVE Phases'
  <2> DEFINE labels == [worker EXCEPT ![w] = "running"]
  <2>1. /\ labels \in [Workers -> WorkerLabels]
        /\ \A v \in Workers : labels[v] = worker[v] \/ {labels[v], worker[v]} =
                                                           {"running", "running_notify"}
    BY <1>8 DEF NotifyNested
  <2>2. NotifyOne(labels) /\ UNCHANGED <<pool, main>>
    BY <1>8 DEF NotifyNested
  <2> HIDE DEF labels
  <2>3. QED BY <1>6, <2>1, <2>2
<1>9. ASSUME NEW s \in Submitters,
             SubmitterGot(s) \/ \E k \in Sequences : SubmitterGets(s, k)
      PROVE  Phases'
  BY <1>9 DEF SubmitterGot, GetReturn, SubmitterGets, GetBegin
<1>10. ASSUME NEW s \in Submitters, NEW p \in Priorities, Submit(s, p) PROVE Phases'
  <2>1. main = "up" /\ ~ stopping /\ UNCHANGED <<stopping, main, worker>>
    BY <1>10 DEF Submit, Enqueue
  <2>2. \A w \in Workers : worker[w] \notin {"unborn", "exited"}
    BY <2>1
  <2>3. QED BY <2>1, <2>2
<1>11. ASSUME NEW w \in Workers, NEW p \in Priorities, SubmitNested(w, p) PROVE Phases'
  <2>1. /\ ~ stopping /\ worker[w] = "running" /\ UNCHANGED <<stopping, main>>
        /\ worker' = [worker EXCEPT ![w] = "running_notify"]
    BY <1>11 DEF SubmitNested, Enqueue
  <2>2. \A v \in Workers : worker'[v] # "exited"
    BY <2>1
  <2>3. QED BY <2>1, <2>2
<1>12. ASSUME NEW w \in Workers, Spawn(w) PROVE Phases'
  BY <1>12 DEF Spawn
<1>13. ASSUME NEW w \in Workers, NEW label \in WorkerLabels \ {"unborn", "exited"},
              worker[w] \notin {"unborn", "exited"}, WorkerGoto(w, label),
              UNCHANGED <<stopping, main>>, heap' = heap \/ heap' \subseteq heap
       PROVE  Phases'
  <2>1. main # "down"
    BY <1>13
  <2>2. heap # {} \/ heap' = {}
    BY <1>13
  <2>3. QED BY <1>13, <2>1, <2>2
<1>14. ASSUME NEW w \in Workers,
              WorkerSleep(w) \/ WorkerResultThrows(w) \/ SpuriousWakeup(w) \/ TaskGot(w)
       PROVE  Phases'
  BY <1>13, <1>14 DEF WorkerSleep, WorkerResultThrows, SpuriousWakeup, TaskGot, GetReturn
<1>15. ASSUME NEW w \in Workers,
              WorkerTake(w) \/ WorkerFinish(w) \/ \E k \in Sequences : TaskGets(w, k)
       PROVE  Phases'
  BY <1>13, <1>15 DEF WorkerTake, WorkerFinish, TaskGets, GetBegin
<1>16. ASSUME NEW w \in Workers, WorkerExit(w) PROVE Phases'
  BY <1>16 DEF WorkerExit, WorkerMayGo, Drained
<1>17. QED
  BY <1>1, <1>2, <1>3, <1>4, <1>5, <1>7, <1>8, <1>9, <1>10, <1>11, <1>12,
     <1>14, <1>15, <1>16
  DEF Next, Shutdown, SubmitterStep, WorkerStep

-----------------------------------------------------------------------------
(* Wakeups.                                                                *)

Notifying == {s \in Submitters : submitter[s] = "notify"}

\* Who a queued task can count on.
Coming == Cardinality(WorkerAt("woken")) + Cardinality(WorkerAt("running_notify"))
        + Cardinality(Notifying)

\* The sets of threads are finite, before a step and after it.
LEMMA SetsFinite ==
    /\ \A label : IsFiniteSet(WorkerAt(label)) /\ Cardinality(WorkerAt(label)) \in Nat
    /\ \A label : IsFiniteSet(WorkerAt(label)') /\ Cardinality(WorkerAt(label)') \in Nat
    /\ IsFiniteSet(Notifying) /\ Cardinality(Notifying) \in Nat
    /\ IsFiniteSet(Notifying') /\ Cardinality(Notifying') \in Nat
<1>1. ASSUME NEW label
      PROVE  /\ IsFiniteSet(WorkerAt(label)) /\ Cardinality(WorkerAt(label)) \in Nat
             /\ IsFiniteSet(WorkerAt(label)') /\ Cardinality(WorkerAt(label)') \in Nat
  <2>1. WorkerAt(label) \in SUBSET Workers /\ WorkerAt(label)' \in SUBSET Workers
    BY DEF WorkerAt
  <2>2. QED BY <2>1, FS_Subset, FS_CardinalityType, PoolAssumption
<1>2. Notifying \in SUBSET Submitters /\ Notifying' \in SUBSET Submitters
  BY DEF Notifying
<1>3. QED BY <1>1, <1>2, FS_Subset, FS_CardinalityType, PoolAssumption

\* A worker that moves leaves one label and joins another; it is counted there.
LEMMA WorkerMove ==
    ASSUME TypeOK, NEW w \in Workers, NEW from, NEW label,
           worker[w] = from, from # label, WorkerGoto(w, label)
    PROVE  /\ Cardinality(WorkerAt(label)') = Cardinality(WorkerAt(label)) + 1
           /\ Cardinality(WorkerAt(from)') = Cardinality(WorkerAt(from)) - 1
           /\ \A other : other \notin {from, label} => WorkerAt(other)' = WorkerAt(other)
<1>0. worker \in [Workers -> WorkerLabels]
  BY Typed
<1>1. WorkerAt(label)' = WorkerAt(label) \union {w} /\ w \notin WorkerAt(label)
  BY <1>0 DEF WorkerAt, WorkerGoto
<1>2. WorkerAt(from)' = WorkerAt(from) \ {w} /\ w \in WorkerAt(from)
  BY <1>0 DEF WorkerAt, WorkerGoto
<1>3. ASSUME NEW other, other \notin {from, label}
      PROVE  WorkerAt(other)' = WorkerAt(other)
  BY <1>0, <1>3 DEF WorkerAt, WorkerGoto
<1>4. Cardinality(WorkerAt(label)') = Cardinality(WorkerAt(label)) + 1
  BY <1>1, SetsFinite, FS_AddElement
<1>5. Cardinality(WorkerAt(from)') = Cardinality(WorkerAt(from)) - 1
  BY <1>2, SetsFinite, FS_RemoveElement
<1>6. QED BY <1>3, <1>4, <1>5

\* The same for a submitter that starts or ends its notification.
LEMMA SubmitterMove ==
    ASSUME TypeOK, NEW s \in Submitters, NEW label \in {"idle", "notify", "get"},
           submitter' = [submitter EXCEPT ![s] = label]
    PROVE  Cardinality(Notifying') =
               Cardinality(Notifying)
             + (IF label = "notify" /\ submitter[s] # "notify" THEN 1
                ELSE IF label # "notify" /\ submitter[s] = "notify" THEN -1 ELSE 0)
<1>0. submitter \in [Submitters -> {"idle", "notify", "get"}]
  BY DEF TypeOK
<1>1. CASE label = "notify"
  <2>1. Notifying' = Notifying \union {s} /\ (s \in Notifying <=> submitter[s] = "notify")
    BY <1>0, <1>1 DEF Notifying
  <2>2. QED BY <1>1, <2>1, SetsFinite, FS_AddElement
<1>2. CASE label # "notify"
  <2>1. Notifying' = Notifying \ {s} /\ (s \in Notifying <=> submitter[s] = "notify")
    BY <1>0, <1>2 DEF Notifying
  <2>2. QED BY <1>2, <2>1, SetsFinite, FS_RemoveElement
<1>3. QED BY <1>1, <1>2

\* The queue stays finite.
LEMMA FiniteStep ==
    ASSUME TypeOK, IsFiniteSet(heap), [Next]_vars
    PROVE  IsFiniteSet(heap')
<1>1. CASE Rests \/ \E w \in Workers : Finishes(w)
  BY <1>1 DEF Rests, Finishes
<1>2. CASE Enqueues
  <2>1. PICK new : heap' = heap \union {new}
    BY <1>2 DEF Enqueues, Enqueue
  <2>2. QED BY <2>1, FS_AddElement
<1>3. CASE \E w \in Workers : Takes(w)
  BY <1>3, FS_RemoveElement DEF Takes
<1>4. QED BY <1>1, <1>2, <1>3, Kinds DEF OneOfTheKinds

\* No step loses a wakeup: a task that is queued brings a notification, and a
\* woken worker leaves no task behind unless it takes one.
LEMMA WakeupStep ==
    ASSUME CallsInv, IsFiniteSet(heap), NoLostWakeup, [Next]_vars
    PROVE  NoLostWakeup'
<1> DEFINE Asleep == WorkerAt("asleep")
           Fine == main' = "notify" \/ (~ stopping' /\ Cardinality(heap') <= Coming')
<1> SUFFICES ASSUME Asleep' # {} PROVE Fine
  BY Zenon DEF NoLostWakeup, Coming, Notifying
<1>0. /\ TypeOK /\ Getting /\ worker \in [Workers -> WorkerLabels]
      /\ Cardinality(heap) \in Nat /\ Cardinality(heap') \in Nat
      /\ Cardinality(WorkerAt("woken")) \in Nat /\ Cardinality(WorkerAt("woken")') \in Nat
      /\ Cardinality(WorkerAt("running_notify")) \in Nat
      /\ Cardinality(WorkerAt("running_notify")') \in Nat
      /\ Cardinality(Notifying) \in Nat /\ Cardinality(Notifying') \in Nat
      /\ Coming = Cardinality(WorkerAt("woken")) + Cardinality(WorkerAt("running_notify"))
                + Cardinality(Notifying)
      /\ Coming' = Cardinality(WorkerAt("woken")') + Cardinality(WorkerAt("running_notify")')
                 + Cardinality(Notifying')
      /\ Coming \in Nat /\ Coming' \in Nat
  BY SetsFinite, Typed, FiniteStep, FS_CardinalityType DEF CallsInv, Coming
<1>1. Asleep # {} => main = "notify" \/ (~ stopping /\ Cardinality(heap) <= Coming)
  BY Zenon DEF NoLostWakeup, Coming, Notifying
<1> HIDE DEF Asleep, Fine
<1> USE DEF pool, getters
<1>2. ASSUME Asleep # {}, UNCHANGED <<main, stopping, heap>>, Coming' >= Coming PROVE Fine
  BY <1>0, <1>1, <1>2 DEF Fine
<1>3. ASSUME UNCHANGED <<main, stopping, heap, worker, submitter>> PROVE Fine
  BY <1>0, <1>2, <1>3 DEF Asleep, Coming, WorkerAt, Notifying
<1>4. ASSUME UNCHANGED <<main, stopping, heap, submitter>>,
             NEW w \in Workers, NEW label \in WorkerLabels, WorkerGoto(w, label),
             label # "asleep", worker[w] \notin {"woken", "running_notify", label}
      PROVE  Fine
  <2>1. PICK from : from = worker[w]
    OBVIOUS
  <2>2. Notifying' = Notifying
    BY <1>4 DEF Notifying
  <2>3. /\ Cardinality(WorkerAt(label)') = Cardinality(WorkerAt(label)) + 1
        /\ \A other : other \notin {from, label} => WorkerAt(other)' = WorkerAt(other)
    BY <1>0, <1>4, <2>1, WorkerMove
  <2>4. Coming' >= Coming
    BY <1>0, <1>4, <2>1, <2>2, <2>3, SetsFinite
  <2>5. Asleep # {}
    BY <1>0, <1>4 DEF Asleep, WorkerAt, WorkerGoto
  <2>6. QED BY <1>2, <1>4, <2>4, <2>5
<1>5. CASE UNCHANGED vars \/ Gone
  BY <1>3, <1>5 DEF vars, Gone
<1>6. ASSUME Constructed \/ ShutdownJoined PROVE Fine
  <2>1. UNCHANGED <<stopping, heap, worker, submitter>> /\ main # "notify"
    BY <1>6 DEF Constructed, ShutdownJoined
  <2>2. Asleep' = Asleep /\ Coming' = Coming
    BY <2>1 DEF Asleep, Coming, WorkerAt, Notifying
  <2>3. QED BY <1>0, <1>1, <2>1, <2>2 DEF Fine
<1>7. ASSUME ShutdownStart PROVE Fine
  BY <1>7 DEF ShutdownStart, Fine
<1>8. ASSUME ShutdownNotify PROVE Fine
  <2>1. Asleep' = {}
    BY <1>8 DEF ShutdownNotify, NotifyAll, Asleep, WorkerAt
  <2>2. QED BY <2>1
<1>9. ASSUME NEW s \in Submitters, NotifySubmitted(s) PROVE Fine
  <2>1. Cardinality(Notifying') = Cardinality(Notifying) - 1
    BY <1>0, <1>9, SubmitterMove DEF NotifySubmitted
  <2>2. PICK w \in Asleep : worker' = [worker EXCEPT ![w] = "woken"]
    <3>1. Asleep = {} /\ worker' = worker => Asleep' = {}
      BY DEF Asleep, WorkerAt
    <3>2. QED BY <1>9, <3>1 DEF NotifySubmitted, NotifyOne, Asleep
  <2>3. w \in Workers /\ worker[w] = "asleep" /\ WorkerGoto(w, "woken")
    BY <2>2 DEF Asleep, WorkerAt, WorkerGoto
  <2>4. Coming' = Coming
    BY <1>0, <2>1, <2>3, WorkerMove
  <2>5. QED BY <1>0, <1>2, <1>9, <2>2, <2>4 DEF NotifySubmitted
<1>10. ASSUME NEW s \in Submitters,
              SubmitterGot(s) \/ \E k \in Sequences : SubmitterGets(s, k)
       PROVE  Fine
  <2>1. /\ UNCHANGED <<main, stopping, heap, worker>>
        /\ submitter[s] # "notify"
        /\ \E label \in {"idle", "get"} : submitter' = [submitter EXCEPT ![s] = label]
    BY <1>0, <1>10 DEF SubmitterGot, GetReturn, SubmitterGets, GetBegin, Getting
  <2>2. Cardinality(Notifying') = Cardinality(Notifying)
    <3>1. PICK label \in {"idle", "get"} : submitter' = [submitter EXCEPT ![s] = label]
      BY <2>1
    <3>2. label \in {"idle", "notify", "get"} /\ label # "notify"
      BY <3>1
    <3>3. Cardinality(Notifying') = Cardinality(Notifying) + 0
      BY <1>0, <2>1, <3>1, <3>2, SubmitterMove
    <3>4. QED BY <1>0, <3>3
  <2>3. /\ Asleep' = Asleep /\ WorkerAt("woken")' = WorkerAt("woken")
        /\ WorkerAt("running_notify")' = WorkerAt("running_notify")
    BY <2>1 DEF Asleep, WorkerAt
  <2>4. QED BY <1>0, <1>2, <2>1, <2>2, <2>3
<1>11. ASSUME NEW c \in Callers, NEW p \in Priorities, Enqueue(c, p),
              Coming' = Coming + 1, Asleep # {}
       PROVE  Fine
  <2>1. Cardinality(heap') <= Cardinality(heap) + 1
    <3>1. PICK new : heap' = heap \union {new}
      BY <1>11 DEF Enqueue
    <3>2. Cardinality(heap') = IF new \in heap THEN Cardinality(heap)
                                               ELSE Cardinality(heap) + 1
      BY <3>1, FS_AddElement
    <3>3. QED BY <1>0, <3>2
  <2>2. QED BY <1>0, <1>1, <1>11, <2>1 DEF Enqueue, Fine
<1>12. ASSUME NEW s \in Submitters, NEW p \in Priorities, Submit(s, p) PROVE Fine
  <2>1. Cardinality(Notifying') = Cardinality(Notifying) + 1
    BY <1>0, <1>12, SubmitterMove DEF Submit
  <2>2. /\ Asleep' = Asleep /\ WorkerAt("woken")' = WorkerAt("woken")
        /\ WorkerAt("running_notify")' = WorkerAt("running_notify")
    BY <1>12 DEF Submit, Asleep, WorkerAt
  <2>3. s \in Callers /\ Enqueue(s, p)
    BY <1>12 DEF Submit, Callers
  <2>4. QED BY <1>0, <1>11, <2>1, <2>2, <2>3
<1>13. ASSUME NEW w \in Workers, NEW p \in Priorities, SubmitNested(w, p) PROVE Fine
  <2>1. /\ Cardinality(WorkerAt("running_notify")') =
               Cardinality(WorkerAt("running_notify")) + 1
        /\ WorkerAt("woken")' = WorkerAt("woken") /\ Asleep' = Asleep
    BY <1>0, <1>13, WorkerMove DEF SubmitNested, Asleep
  <2>2. Notifying' = Notifying
    BY <1>13 DEF SubmitNested, Notifying
  <2>3. w \in Callers /\ Enqueue(w, p)
    BY <1>13 DEF SubmitNested, Callers
  <2>4. QED BY <1>0, <1>11, <2>1, <2>2, <2>3
<1>14. ASSUME NEW w \in Workers, NotifyNested(w) PROVE Fine
  <2>1. PICK v \in Asleep : worker' = [worker EXCEPT ![w] = "running", ![v] = "woken"]
    <3>1. Asleep = {} /\ worker' = [worker EXCEPT ![w] = "running"] => Asleep' = {}
      BY <1>0 DEF Asleep, WorkerAt
    <3>2. QED BY <1>14, <3>1 DEF NotifyNested, NotifyOne, Asleep
  <2>2. /\ WorkerAt("woken")' = WorkerAt("woken") \union {v} /\ v \notin WorkerAt("woken")
        /\ WorkerAt("running_notify")' = WorkerAt("running_notify") \ {w}
        /\ w \in WorkerAt("running_notify")
    BY <1>0, <1>14, <2>1 DEF NotifyNested, Asleep, WorkerAt
  <2>3. /\ Cardinality(WorkerAt("woken")') = Cardinality(WorkerAt("woken")) + 1
        /\ Cardinality(WorkerAt("running_notify")') =
               Cardinality(WorkerAt("running_notify")) - 1
    BY <2>2, SetsFinite, FS_AddElement, FS_RemoveElement
  <2>4. Notifying' = Notifying
    BY <1>14 DEF NotifyNested, Notifying
  <2>5. QED BY <1>0, <1>2, <1>14, <2>1, <2>3, <2>4 DEF NotifyNested
<1>15. ASSUME NEW w \in Workers,
              Spawn(w) \/ WorkerResultThrows(w) \/ SpuriousWakeup(w) \/ WorkerFinish(w)
       PROVE  Fine
  BY <1>4, <1>15
  DEF Spawn, WorkerResultThrows, SpuriousWakeup, WorkerFinish, WorkerGoto, WorkerLabels
<1>16. ASSUME NEW w \in Workers,
              TaskGot(w) \/ \E k \in Sequences : TaskGets(w, k)
       PROVE  Fine
  BY <1>0, <1>4, <1>16 DEF TaskGot, GetReturn, TaskGets, GetBegin, Getting, WorkerLabels
<1>17. ASSUME NEW w \in Workers, WorkerSleep(w) PROVE Fine
  <2>1. ~ stopping' /\ heap' = {}
    BY <1>17 DEF WorkerSleep, WorkerMayGo
  <2>2. QED BY <1>0, <2>1, FS_EmptySet DEF Fine
<1>18. ASSUME NEW w \in Workers, WorkerTake(w) PROVE Fine
  <2>1. PICK top \in heap : heap' = heap \ {top}
    BY <1>18 DEF WorkerTake
  <2>2. Cardinality(heap') = Cardinality(heap) - 1
    BY <2>1, FS_RemoveElement
  <2>3. Notifying' = Notifying
    BY <1>18 DEF WorkerTake, Notifying
  <2>4. Coming' >= Coming - 1 /\ Asleep' = Asleep
    <3>1. worker[w] \in {"test", "woken"} /\ WorkerGoto(w, "running")
      BY <1>18 DEF WorkerTake
    <3>2. CASE worker[w] = "test"
      BY <1>0, <2>3, <3>1, <3>2, WorkerMove DEF Asleep
    <3>3. CASE worker[w] = "woken"
      BY <1>0, <2>3, <3>1, <3>3, WorkerMove DEF Asleep
    <3>4. QED BY <3>1, <3>2, <3>3
  <2>5. UNCHANGED <<main, stopping>>
    BY <1>18 DEF WorkerTake
  <2>6. QED BY <1>0, <1>1, <2>2, <2>4, <2>5 DEF Fine
<1>19. ASSUME NEW w \in Workers, WorkerExit(w) PROVE Fine
  <2>1. stopping /\ UNCHANGED main
    BY <1>19 DEF WorkerExit, WorkerMayGo, Drained
  <2>2. Asleep' = Asleep
    <3>1. CASE worker[w] = "test"
      BY <1>0, <1>19, <3>1, WorkerMove DEF WorkerExit, Asleep
    <3>2. CASE worker[w] = "woken"
      BY <1>0, <1>19, <3>2, WorkerMove DEF WorkerExit, Asleep
    <3>3. QED BY <1>19, <3>1, <3>2 DEF WorkerExit
  <2>3. QED BY <1>1, <2>1, <2>2 DEF Fine
<1>20. QED
  BY <1>5, <1>6, <1>7, <1>8, <1>9, <1>10, <1>12, <1>13, <1>14, <1>15, <1>16,
     <1>17, <1>18, <1>19
  DEF Next, Shutdown, SubmitterStep, WorkerStep

-----------------------------------------------------------------------------
(* The theorems.                                                           *)

\* The whole inductive invariant.
PoolIInv ==
    /\ CallsInv /\ QueueInv /\ Phases
    /\ IsFiniteSet(heap) /\ NoLostWakeup
    /\ Ordered /\ StartOrder

\* The inductive invariant holds of every state of the pool.
LEMMA PoolInvariant == Spec => []PoolIInv
<1>1. Init => PoolIInv
  <2>1. Init => IsFiniteSet(heap) /\ NoLostWakeup
    BY FS_EmptySet DEF Init, NoLostWakeup, WorkerAt
  <2>2. QED BY <2>1, InitCalls, InitQueue, InitPhases, InitOrder DEF PoolIInv
<1>2. PoolIInv /\ [Next]_vars => PoolIInv'
  BY CallsStep, QueueStep, PhasesStep, FiniteStep, WakeupStep, OrderStep
  DEF PoolIInv, CallsInv
<1>3. QED BY <1>1, <1>2, PTL DEF Spec

\* thread_pool.hpp loses no task and no wakeup: every accepted task is queued,
\* running or resolved, and no worker sleeps beside a task nobody comes for.
THEOREM PoolIsSound == Spec => []PoolInv
<1>1. PoolIInv => PoolInv
  BY DEF PoolIInv, CallsInv, QueueInv, PoolInv
<1>2. QED BY PoolInvariant, <1>1, PTL

\* runs_later and the sequence numbers order the tasks as workers take them under
\* the mutex: higher priorities first, ties in submission order, among the tasks
\* there are at the time.
THEOREM StartsInOrder == Spec => []StartOrder
<1>1. PoolIInv => StartOrder
  BY DEF PoolIInv
<1>2. QED BY PoolInvariant, <1>1, PTL

\* When shutdown() returns, or the constructor fails, every accepted task has run.
THEOREM ShutdownDrains == Spec => []DrainedWhenDown
<1>1. PoolIInv => DrainedWhenDown
  <2> SUFFICES ASSUME PoolIInv, main = "down"
               PROVE  heap = {} /\ \A k \in Sequences : future[k] # "pending"
    BY DEF DrainedWhenDown
  <2>1. \A w \in Workers : worker[w] \in {"unborn", "exited"}
    BY DEF PoolIInv, Phases
  <2>2. heap = {}
    BY <2>1 DEF PoolIInv, Phases
  <2>3. \A w \in Workers : task[w] = NoTask
    BY <2>1, Typed DEF PoolIInv, CallsInv, RunningLabels
  <2>4. QED BY <2>2, <2>3 DEF PoolIInv, QueueInv, NoTaskLost
<1>2. QED BY PoolInvariant, <1>1, PTL
=============================================================================
