------------------------------ MODULE ThreadPool ------------------------------
(***************************************************************************)
(* ThreadPool (thread_pool.hpp): workers that take tasks from a priority   *)
(* heap under one mutex.  Every stretch of code under the mutex is one     *)
(* step; notifications after it, and user code, are steps of their own.    *)
(*                                                                         *)
(* Submitters are other threads, and the tasks themselves.  Main           *)
(* constructs the pool, and shuts it down (shutdown, the destructor, or a  *)
(* constructor that fails half way).  A submit after shutdown throws and   *)
(* changes nothing (inside a task, it becomes that task's exception).      *)
(*                                                                         *)
(* Whoever submitted a task may get() its TaskFuture, a submitter as well  *)
(* as a running task, which keeps its worker waiting.  A future behaves as *)
(* TaskHandoff.tla says, which TaskFuture.tla implements.                  *)
(***************************************************************************)
EXTENDS Naturals, Sequences, FiniteSets

CONSTANTS Workers, Submitters, NoTask,
          Priorities,      \* the priorities used
          MaxTasks,        \* bound: tasks submitted in all
          MaxWaiting,      \* tasks that may wait for another one at a time
          ResultThrows     \* whether storing a task's result may throw

ASSUME PoolAssumption ==
    /\ IsFiniteSet(Workers) /\ Workers # {}
    /\ IsFiniteSet(Submitters) /\ Workers \intersect Submitters = {}
    /\ Priorities \subseteq Nat
    /\ MaxTasks \in Nat
    /\ MaxWaiting \in Nat
    /\ ResultThrows \in BOOLEAN
    /\ NoTask \notin Nat /\ NoTask \notin [priority : Priorities, sequence : Nat]

VARIABLES heap,           \* heap_: the set of queued tasks
          next_sequence,  \* next_sequence_
          stopping,       \* stopping_
          worker,         \* worker[w]: where worker w is
          task,           \* task[w]: the task worker w runs
          submitter,      \* submitter[s]: "idle", "notify" or "get"
          main,           \* where the pool's owner is
          future,         \* future[k]: whether the task with sequence k has an outcome
          holds,          \* holds[c]: the futures c has and may still get()
          awaits,         \* awaits[c]: the future of the get() c is in
          started         \* history: the tasks in the order they were started

pool == <<heap, next_sequence, stopping>>
getters == <<holds, awaits>>
vars == <<pool, worker, task, submitter, main, future, getters, started>>

\* Callers of submit() and get(): the task a worker runs, or another thread.
Callers == Workers \union Submitters

Sequences == 0 .. MaxTasks - 1

WorkerAt(label) == {w \in Workers : worker[w] = label}
WorkerGoto(w, label) == worker' = [worker EXCEPT ![w] = label]

Init ==
    /\ heap = {} /\ next_sequence = 0 /\ stopping = FALSE
    /\ worker = [w \in Workers |-> "unborn"]
    /\ task = [w \in Workers |-> NoTask]
    /\ submitter = [s \in Submitters |-> "idle"]
    /\ main = "constructing"
    /\ future = [k \in Sequences |-> "none"]
    /\ holds = [c \in Callers |-> {}]
    /\ awaits = [c \in Callers |-> NoTask]
    /\ started = << >>

-----------------------------------------------------------------------------
(* Construction and shutdown *)

Spawn(w) ==
    /\ main = "constructing"
    /\ worker[w] = "unborn"
    /\ WorkerGoto(w, "test")
    /\ UNCHANGED <<pool, task, submitter, main, future, getters, started>>

Constructed ==
    /\ main = "constructing"
    /\ WorkerAt("unborn") = {}
    /\ main' = "up"
    /\ UNCHANGED <<pool, worker, task, submitter, future, getters, started>>

\* A worker fails to spawn: the constructor shuts down and rethrows.  Or the
\* owner calls shutdown() or destroys the pool.
ShutdownStart ==
    /\ \/ main = "constructing" /\ WorkerAt("unborn") # {}
       \/ main = "up"
    /\ stopping' = TRUE
    /\ main' = "notify"
    /\ UNCHANGED <<heap, next_sequence, worker, task, submitter, future, getters, started>>

\* Mutant: submit() notifies no worker.
NotifyNobody(labels) == worker' = labels

\* work_available_.notify_one(), by a thread that leaves the workers at labels.
NotifyOne(labels) ==
    \/ \E w \in WorkerAt("asleep") : worker' = [labels EXCEPT ![w] = "woken"]
    \/ WorkerAt("asleep") = {} /\ worker' = labels

\* Mutant: shutdown() wakes a single worker.
NotifyAnyone == NotifyOne(worker)

\* work_available_.notify_all()
NotifyAll ==
    worker' = [w \in Workers |-> IF worker[w] = "asleep" THEN "woken" ELSE worker[w]]

ShutdownNotify ==
    /\ main = "notify"
    /\ main' = "joining"
    /\ NotifyAll
    /\ UNCHANGED <<pool, task, submitter, future, getters, started>>

ShutdownJoined ==
    /\ main = "joining"
    /\ \A w \in Workers : worker[w] \in {"unborn", "exited"}
    /\ main' = "down"
    /\ UNCHANGED <<pool, worker, task, submitter, future, getters, started>>

-----------------------------------------------------------------------------
(* submit *)

\* Mutant: tasks are not numbered.
Unnumbered == next_sequence

NextSequence == next_sequence + 1

\* submit's critical section; the caller gets the future.
Enqueue(caller, priority) ==
    /\ next_sequence < MaxTasks
    /\ ~ stopping
    /\ heap' = heap \union {[priority |-> priority, sequence |-> next_sequence]}
    /\ next_sequence' = NextSequence
    /\ future' = [future EXCEPT ![next_sequence] = "pending"]
    /\ holds' = [holds EXCEPT ![caller] = @ \union {next_sequence}]
    /\ UNCHANGED <<stopping, awaits, task, main, started>>

\* Threads other than the owner may submit until the pool is gone.
Submit(s, priority) ==
    /\ main # "constructing" /\ submitter[s] = "idle"
    /\ Enqueue(s, priority)
    /\ submitter' = [submitter EXCEPT ![s] = "notify"]
    /\ UNCHANGED worker

\* A running task submits another one.
SubmitNested(w, priority) ==
    /\ worker[w] = "running"
    /\ Enqueue(w, priority)
    /\ WorkerGoto(w, "running_notify")
    /\ UNCHANGED submitter

NotifySubmitted(s) ==
    /\ submitter[s] = "notify"
    /\ NotifyOne(worker)
    /\ submitter' = [submitter EXCEPT ![s] = "idle"]
    /\ UNCHANGED <<pool, task, main, future, getters, started>>

NotifyNested(w) ==
    /\ worker[w] = "running_notify"
    /\ NotifyOne([worker EXCEPT ![w] = "running"])
    /\ UNCHANGED <<pool, task, submitter, main, future, getters, started>>

-----------------------------------------------------------------------------
(* get() on the future submit() returned *)

\* get() takes the future's state and waits in it.
GetBegin(c, k) ==
    /\ k \in holds[c]
    /\ holds' = [holds EXCEPT ![c] = @ \ {k}]
    /\ awaits' = [awaits EXCEPT ![c] = k]
    /\ UNCHANGED <<pool, task, main, future, started>>

\* The outcome is there: get() returns it or throws it.
GetReturn(c) ==
    /\ awaits[c] # NoTask
    /\ future[awaits[c]] = "settled"
    /\ awaits' = [awaits EXCEPT ![c] = NoTask]
    /\ UNCHANGED <<pool, task, main, future, holds, started>>

SubmitterGets(s, k) ==
    /\ submitter[s] = "idle"
    /\ GetBegin(s, k)
    /\ submitter' = [submitter EXCEPT ![s] = "get"]
    /\ UNCHANGED worker

SubmitterGot(s) ==
    /\ GetReturn(s)
    /\ submitter' = [submitter EXCEPT ![s] = "idle"]
    /\ UNCHANGED worker

\* A task waits for one it submitted; that not all workers do so at a time is
\* up to the tasks.
TaskGets(w, k) ==
    /\ worker[w] = "running"
    /\ Cardinality(WorkerAt("running_get")) < MaxWaiting
    /\ GetBegin(w, k)
    /\ WorkerGoto(w, "running_get")
    /\ UNCHANGED submitter

TaskGot(w) ==
    /\ GetReturn(w)
    /\ WorkerGoto(w, "running")
    /\ UNCHANGED submitter

-----------------------------------------------------------------------------
(* worker_loop *)

\* Mutant: ties run last-in first-out.
runs_later_lifo(left, right) ==
    IF left.priority # right.priority
    THEN left.priority < right.priority
    ELSE left.sequence < right.sequence

runs_later(left, right) ==
    IF left.priority # right.priority
    THEN left.priority < right.priority
    ELSE left.sequence > right.sequence

WorkerMayGo == stopping \/ heap # {}

WorkerSleep(w) ==
    /\ worker[w] \in {"test", "woken"}
    /\ ~ WorkerMayGo
    /\ WorkerGoto(w, "asleep")
    /\ UNCHANGED <<pool, task, submitter, main, future, getters, started>>

\* pop_heap with runs_later puts on top a task that runs later than none.
WorkerTake(w) ==
    /\ worker[w] \in {"test", "woken"}
    /\ \E top \in heap :
          /\ \A other \in heap : ~ runs_later(top, other)
          /\ heap' = heap \ {top}
          /\ task' = [task EXCEPT ![w] = top]
          /\ started' = Append(started, [task |-> top, seen |-> next_sequence])
    /\ WorkerGoto(w, "running")
    /\ UNCHANGED <<next_sequence, stopping, submitter, main, future, getters>>

\* Mutant: a stopping worker leaves queued tasks behind.
StoppingIsEnough == stopping

Drained == heap = {}

WorkerExit(w) ==
    /\ worker[w] \in {"test", "woken"}
    /\ WorkerMayGo /\ Drained
    /\ WorkerGoto(w, "exited")
    /\ UNCHANGED <<pool, task, submitter, main, future, getters, started>>

\* The wrapper submit() built: the task returns or throws, and either way its
\* promise is satisfied.  Futures the task still holds die with it.
WorkerFinish(w) ==
    /\ worker[w] = "running"
    /\ future' = [future EXCEPT ![task[w].sequence] = "settled"]
    /\ task' = [task EXCEPT ![w] = NoTask]
    /\ holds' = [holds EXCEPT ![w] = {}]
    /\ WorkerGoto(w, "test")
    /\ UNCHANGED <<pool, submitter, main, awaits, started>>

\* set_value throws while it constructs the result: the state has an outcome
\* (TaskFuture!SetValueThrows), so the set_exception of the handler throws as
\* well, out of the thread's function: std::terminate.
WorkerResultThrows(w) ==
    /\ ResultThrows
    /\ worker[w] = "running"
    /\ WorkerGoto(w, "terminated")
    /\ UNCHANGED <<pool, task, submitter, main, future, getters, started>>

SpuriousWakeup(w) ==
    /\ worker[w] = "asleep"
    /\ WorkerGoto(w, "woken")
    /\ UNCHANGED <<pool, task, submitter, main, future, getters, started>>

-----------------------------------------------------------------------------
Terminated == WorkerAt("terminated") # {}

WorkerStep(w) ==
    \/ WorkerSleep(w) \/ WorkerTake(w) \/ WorkerExit(w)
    \/ WorkerFinish(w) \/ NotifyNested(w) \/ TaskGot(w)

SubmitterStep(s) == NotifySubmitted(s) \/ SubmitterGot(s)

Shutdown == ShutdownNotify \/ ShutdownJoined

\* The pool, or the whole process, is gone; nothing is left to happen.
Gone == (main = "down" \/ Terminated) /\ UNCHANGED vars

Next ==
    \/ /\ ~ Terminated
       /\ \/ Constructed \/ ShutdownStart \/ Shutdown
          \/ \E s \in Submitters : \/ SubmitterStep(s)
                                   \/ \E p \in Priorities : Submit(s, p)
                                   \/ \E k \in Sequences : SubmitterGets(s, k)
          \/ \E w \in Workers : \/ Spawn(w) \/ WorkerStep(w) \/ WorkerResultThrows(w)
                                \/ SpuriousWakeup(w)
                                \/ \E p \in Priorities : SubmitNested(w, p)
                                \/ \E k \in Sequences : TaskGets(w, k)
    \/ Gone

Spec == Init /\ [][Next]_vars

\* Workers and notifiers run, tasks return (the caller's discipline, ADR-0017);
\* nobody need submit or shut down.
Fairness ==
    /\ WF_vars(Shutdown) /\ WF_vars(Constructed)
    /\ \A w \in Workers : WF_vars(WorkerStep(w)) /\ WF_vars(Spawn(w))
    /\ \A s \in Submitters : WF_vars(SubmitterStep(s))

LiveSpec == Spec /\ Fairness

-----------------------------------------------------------------------------
(* Properties *)

Tasks == [priority : Priorities, sequence : Sequences]

\* Types of the pool; a worker has a task exactly while it runs one.
TypeOK ==
    /\ heap \subseteq Tasks
    /\ next_sequence \in 0 .. MaxTasks
    /\ stopping \in BOOLEAN
    /\ worker \in [Workers -> {"unborn", "test", "asleep", "woken", "running",
                               "running_notify", "running_get", "exited", "terminated"}]
    /\ task \in [Workers -> Tasks \union {NoTask}]
    /\ submitter \in [Submitters -> {"idle", "notify", "get"}]
    /\ main \in {"constructing", "up", "notify", "joining", "down"}
    /\ future \in [Sequences -> {"none", "pending", "settled"}]
    /\ \A w \in Workers : task[w] # NoTask <=>
           worker[w] \in {"running", "running_notify", "running_get", "terminated"}
    /\ holds \in [Callers -> SUBSET Sequences]
    /\ awaits \in [Callers -> Sequences \union {NoTask}]

\* Higher priorities are taken first and ties in submission order, whichever
\* workers take the tasks and whatever is submitted meanwhile: a task that was
\* already submitted when another was taken, and is taken after it, runs_later
\* puts behind it.  The order is that of the pops under the mutex; the workers
\* call the tasks after they have let go of it (thread_pool.hpp:207).
StartOrder ==
    \A i, j \in 1 .. Len(started) :
        LET first == started[i].task
            second == started[j].task
        IN  i < j /\ second.sequence < started[i].seen =>
                \/ first.priority > second.priority
                \/ first.priority = second.priority /\ first.sequence < second.sequence

\* Every accepted task is in one place only: queued, running or resolved.
NoTaskLost ==
    \A k \in Sequences :
        future[k] = "pending" <=>
            \/ \E t \in heap : t.sequence = k
            \/ \E w \in Workers : task[w] # NoTask /\ task[w].sequence = k

\* shutdown drains: when it returns, every accepted task has run.
DrainedWhenDown ==
    main = "down" => heap = {} /\ \A k \in Sequences : future[k] # "pending"

\* No wakeup is lost: while a worker sleeps, each queued task has a worker or
\* a notification on its way, and a stopping pool has its notify_all.
NoLostWakeup ==
    WorkerAt("asleep") # {} =>
        \/ main = "notify"
        \/ /\ ~ stopping
           /\ Cardinality(heap) <= Cardinality(WorkerAt("woken"))
                                 + Cardinality(WorkerAt("running_notify"))
                                 + Cardinality({s \in Submitters : submitter[s] = "notify"})

\* The queue, the workers and the futures agree, and nobody sleeps beside a task
\* that no one is coming for, through submissions, shutdown and failed spawns.
PoolInv == TypeOK /\ NoTaskLost /\ NoLostWakeup

\* "a throwing task never kills a worker".
NoWorkerKilled == ~ Terminated

\* Every accepted task's future settles and every get() returns, though tasks
\* wait for tasks queued behind others (task(), thread_pool.hpp:207), as long as
\* one worker at least does not wait and the process goes on.
FuturesSettle ==
    /\ \A k \in Sequences :
           future[k] = "pending" ~> (future[k] = "settled" \/ Terminated)
    /\ \A c \in Callers : awaits[c] # NoTask ~> (awaits[c] = NoTask \/ Terminated)

\* shutdown returns, unless the process ends.
ShutdownReturns == main = "notify" ~> (main = "down" \/ Terminated)
=============================================================================
