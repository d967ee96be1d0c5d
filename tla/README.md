# Formal models of egl-util

TLA+ models of the stateful parts of the egl-util C++ library
(`src/src/main/cpp/it/d4np/util/`, called *util/* below), TLC runs that check
them on small instances, and TLAPS proofs, for instances of any size, of the
safety of every concurrent component, of the socket wrappers, of the file stream,
of the log sinks and of eight of the sequential components. Every definition is
translated from the code; `PROJECT.json` maps each one to the lines it stands for.

## Inventory

| Component | State | Operations | What is hard | What makes it correct |
|---|---|---|---|---|
| `LockFreeQueue` | ring of slots, each with a sequence number and an optional payload; two ticket counters | `try_push`, `try_pop` | lock-free interleavings, relaxed and acquire loads, laps of the ring, full/empty decided by one number | no two threads in a slot, bounded, FIFO, truthful refusals, calls return |
| `ReaderWriterLock` | active readers, active writer, waiting writers, two condition variables | `lock`, `try_lock[_for/_until]`, `unlock`, shared forms | deadlines passing while one holds others back, notify after unlock, writer preference | exclusion, exact counters, nobody stranded, no starvation of writers by readers |
| `Semaphore` | count, one condition variable | `acquire`, try and timed forms, `release(n)` | barging, `notify_one` against `notify_all`, overflow guard | count in range, no lost wakeup |
| `TaskFuture`/`TaskPromise` | shared variant: empty, value, exception | `set_value`, `set_exception`, destruction; `wait`, `wait_for`, `get` | delivery racing abandonment and deadlines, throwing payloads | one outcome, delivered as decided, `get` returns |
| `ThreadPool` | priority queue, sequence counter, stopping flag, workers | constructor, `submit`, worker loop, `get` on the futures, `shutdown` | submissions during shutdown and from tasks, tasks that wait for tasks, failing spawns, lost wakeups | tasks taken in order, nothing lost, drained shutdown, every future settles |
| `Logger` | record queue with flush markers, tickets, level, policy, counters | `log`, `flush`, `set_level`, `shutdown`, pump loop | back-pressure, flush barrier, sinks that throw or log themselves, shutdown with sleepers | what `flush` and `shutdown` promise on return, order, no silent loss, nobody stranded |
| `ConsoleSink`, `FileSink`, `UdpSink` | a stream with a latched failure, a socket | construction, `write`, `flush`; `render_line` | a line torn by a failing write, times before the epoch | whole lines, no flush over a torn one, stamps that name their instant |
| `FileStream` | descriptor, one-direction buffer, error and EOF flags | `open`, `read`, `read_line`, `write`, `flush`, `close` | short reads, partial writes, CR LF across refills, errors reported late | bytes kept in order, success means written, lines exact |
| `TcpSocket`/`TcpServer` | descriptor, error, mode, port | `connect`, waits, `send`, `recv`, `shutdown_write`, `listen`, `accept`, `close`, moves | descriptor reuse, failure paths with an open descriptor, a reader and a writer thread on one socket, `SO_ERROR` cleared by reading, stale errors | one owner per descriptor, results mean what they say, failures are reported |
| `JsonParser` | cursor, stack of frames with three flags, latched error | `next`; `decode_string`, `to_number` | every missing, doubled or swapped separator at every depth, the depth limit, texts cut off; surrogates and the edges of UTF-8 | accepts exactly JSON, events render the text, conversions give what was meant |
| `CliParser` | declared options and positionals, their seen flags, the bound variables | `add_*`, `parse` | values that look like options, clusters, failures half way, parsing again | stores what the command line says, nothing else |
| `CircularBuffer` | ring, head, count | pushes, `pop`, `clear` | indices that wrap | acts as a bounded sequence |
| `ObjectPool` | stack of free slots, handles | `try_acquire`, moves, release | threads between the halves of a move assignment | each object free once or lent once |
| `FlatMap`, `FlatSet` | sorted vector | construction, inserts, erases | positions at the ends, duplicates, equivalent elements that differ, an unstable sort | sorted, act as a map and as a set |
| `BinarySerializer`, `BinaryDeserializer` | cursor, overflow flag | writes, reads | byte orders, gaps after an overflow, truncation | round trip |
| `StackAllocator` | buffer, offset | `allocate`, `allocate_uninitialized`, `mark`, `rewind`, `reset` | alignment at any address, outdated marks, products that wrap | live blocks apart, aligned, inside the buffer |
| `StringSplitter` | cursor, current view, two flags | `begin`, `++`, `==` | empty fields, overlapping delimiters, copies at empty fields | every field once, copies told apart |
| `StringFormatter` | builder, rest of the format string | compile-time check, `format`, `format_to` | two loops that must pair braces alike; an unchecked read behind a brace | accepts the grammar, renders its meaning |
| `Stopwatch` | start, total, running flag | `start`, `stop`, `reset`, `restart`, `elapsed` | intervals over several calls | elapsed is the time it ran |
| `StringBuilder`, `Hash`, `HeapArray`, `UniqueRef`, `StackTrace`, `TypeTraits`, version | none or a wrapper | | arithmetic, OS calls, compile time | not modelled (see below) |

How they interact: `ThreadPool::submit` wraps a task so that a `TaskPromise`
receives its result, and the caller keeps the `TaskFuture`; `Logger` owns its
sinks and calls them from the pump thread only, and a sink may call back into
the logger. The other components call nothing of the library that keeps state.

## Modules

| Module | Models | Correspondence |
|---|---|---|
| `BoundedFifo` | what the queue promises: an atomic bounded FIFO, and the element each popper has in hand | |
| `LockFreeQueue` | `util/lock_free_queue.hpp` | one step per atomic access and per payload access; `pc[t]` is the line a call is at; `pushed` is history |
| `MCLockFreeQueue` | instance, thread symmetry | |
| `WriterPreferringLock` | what the lock promises: exclusion and writer preference | |
| `ReaderWriterLock` | `util/reader_writer_lock.hpp` | one step per critical section and one per notification, which the code sends after unlocking |
| `Semaphore`, `MCSemaphore` | `util/semaphore.hpp` | as above |
| `TaskHandoff` | what a promise and a future promise: one decision, handed over | |
| `TaskFuture` | `util/task_future.hpp` | `index` is `result_.index()`, 3 for a valueless variant |
| `ThreadPool` | `util/thread_pool.hpp`, with the futures of `util/task_future.hpp` it hands out | tasks are a priority and a sequence number; `runs_later` is the heap's order; `get` is called by the submitter and by running tasks |
| `Logger` | `util/logger.hpp`, `util/logger.cpp` | producers, flushers, the owner and the pump are processes; a sink call writes or throws |
| `LogSinks` | the sinks and `render_line` of `util/logger.cpp` | one sink call is one step, as only the pump calls; a line is two symbols, so that it can be torn |
| `JsonParser` | `util/json_parser.hpp` | one call of `next` is one step; a document is a sequence of characters, words being one symbol; the grammar it is compared with is in the same module, recursive |
| `JsonValues` | `decode_string`, `read_hex4`, `append_utf8`, `to_number` of `util/json_parser.hpp` | texts are bytes, spelled from what was meant; one call is one step |
| `CliParser` | `util/cli_parser.hpp` | one declaration, and one turn of `parse`'s loop, is one step; a token is a sequence of characters and names |
| `CircularBuffer`, `ObjectPool`, `FlatMap`, `FlatSet`, `BinarySerializer`, `StackAllocator`, `StringSplitter`, `Stopwatch` | the headers of these names | one operation is one step; a handle's move assignment is two, and a `FlatMap` built by insertion takes one per entry |
| `StringFormatter` | `util/string_formatter.hpp` | `check_format_string` is a function of the text; each `append_segment` is a step |
| `SequentialParts` | instances of `CircularBuffer`, `ObjectPool`, `StackAllocator`, `Stopwatch`, `FileStream`, `StringSplitter`, `LogSinks`, `BinarySerializer`, `FlatMap` and `FlatSet`, whose promises are proved | |
| `MCSequential` | the fourteen components without threads of their own | a behaviour exercises one of them |
| `FileStream` | `util/file_stream.hpp`, `util/file_stream.cpp` | the loops of `read` and `read_line` are steps; `os_write_all` is the set of its outcomes |
| `TcpSocket`, `MCTcpSocket` | `util/tcp_socket.hpp`, `util/tcp_socket.cpp` | objects own descriptors; `call` is a `connect`, `listen` or `accept` between two OS calls, `io` what the reader's and the writer's call on an open socket does next; `kernel` and the network actions are the environment |
| `LockFreeQueueProofs`, `ReaderWriterLockProofs`, `SemaphoreProofs`, `TaskFutureProofs`, `ThreadPoolProofs`, `LoggerProofs`, `TcpSocketProofs` | theorems about the module each is named after | extend it, and add no behaviour |
| `SequentialProofs` | theorems about the components of `SequentialParts` | extends it |

Conventions. A critical section is one action: its guard is the wait's predicate
or the code's condition, and a notification after the unlock is a later action of
the same thread. Condition variables keep the set of sleepers; a notification
wakes one (any) or all of them, and `SpuriousWakeup` and `Deadline` (external)
may wake any sleeper. The sockets have no mutex: there a step is one OS call, or
one store to a member. Counters of 64 bits are naturals. Operators marked
`Mutant:` are plausible errors in the definition that follows them; they are not
part of the models and exist to show that each property can fail
(`PROJECT.json`, "mutants").

## Runs

| Run | Checks | Bounds, and why they are enough |
|---|---|---|
| `queue_relaxed` | `NoSlotRace`, `RingInv` (the inductive invariant), `ImplementsBoundedFifo`; every load possibly stale | 2 threads, 2 slots, 4 pushes: two full laps, so that a stale ticket of an earlier lap meets a reused slot; the proofs cover every other size |
| `queue_calls` | a refusal is truthful, calls return; sequentially consistent loads, so that no refusal is excused by a stale one | as above |
| `queue_one_slot_full` (violation) | `CapacityBound` with one slot | see Findings |
| `rwlock` | counters, exclusion, no stranded thread, policy refinement, writers get in | 4 threads: two writers and two readers at once, or a holder and three waiters of mixed kinds |
| `semaphore` | range, no lost wakeup, sleepers served | 4 threads, updates -1..2, at most 3 units: batches that wake several, barging |
| `future` | `StateInv`, `ImplementsHandoff`, `GetReturns`: one outcome, no lost wakeup, `get` returns | one promise, one future, two values, an error, payloads that throw; all behaviours of the pair |
| `pool` | tasks taken in order, nothing lost, drained shutdown, no lost wakeup; `FuturesSettle`: accepted tasks' futures settle and every `get` returns; shutdown returns | 2 workers, 1 submitter, 3 tasks of two priorities, tasks that submit and wait. `MaxWaiting` = 1: at most one worker waits inside a task, the discipline `docs/adr/0017` leaves to callers; with as many waiting tasks as workers nothing can run |
| `pool_throwing_result` (violation) | `NoWorkerKilled` | see Findings |
| `logger` | `PumpInv` (order, bound, nobody stranded), `WrittenOnReturn` (what `flush` and `shutdown` promise when they return), `NoSilentLoss`, `CallsReturn` | 2 producers, 1 flusher, 2 sinks, 2 slots, 2 records, 1 flush, 1 failing sink call, both policies: a full queue that contains a marker and a blocked producer |
| `logger_flush_in_shutdown` (violation) | `FlushMeansWritten` | see Findings |
| `sequential`: `FileStream` | `WritesKept`: accepted bytes stay in order, success means written; `ReadsExact`: reads and lines are the file's, nullopt means the end | files of up to 3 bytes over {CR, LF, other}, buffers of 1 and 3 bytes, blocks of up to 3, 4 bytes written, 2 failing writes: blocks below, at and above the buffer, CR LF over two refills, retry after a partial flush |
| `sequential`: `JsonParser` | `ParseExact`: verdict and events against the grammar | every text of up to 5 structural symbols, every text of 3 symbols of any kind, objects of up to 11 symbols (two members), numbers of 5 and strings of 5 characters, `\u` escapes; at most 2 levels, so that 3 brackets exceed them |
| `sequential`: `CliParser` | `BoundExact`: the bound variables against the command line | 20 tokens covering each spelling and each failure; a command line of up to 3 tokens, or two in a row of 3 together, so that a second parse meets what the first left |
| `sequential`: `JsonValues` | `DecodeExact`: strings and integers against what was meant | 3 items per string, among them the code units on both sides of every boundary (U+007F, U+07FF, the surrogate ranges, U+FFFF), so that a pair stands between others; 4 malformed ends; numbers of 3 digits for 8-bit types |
| `sequential`: `StringFormatter` | `FormatExact`: verdict and text against the grammar | every format string of up to 5 characters, lists of 2 arguments, one of which reads as a placeholder |
| `sequential`: `StringSplitter` | `SplitExact` | every text of 6 characters over two letters, delimiters of 1 to 3, two of which overlap themselves |
| `sequential`: `StackAllocator` | `BlocksDisjoint` | 6 bytes at addresses aligned to 2 or 4, alignments up to 4 (more than the buffer's), 3 blocks, 2 marks, a size type of 4 bits so that a product wraps |
| `sequential`: `LogSinks` | `SinkLines` | 3 writes per sink, times two seconds before to one after the epoch, on and off the second |
| `sequential`: `Stopwatch` | `ElapsedExact` | 5 calls over 3 ticks |
| `sequential`: containers | `ActsAsSequence`, `EachSlotOnce`, `SortedContainers` (`FlatMap` as a map, `FlatSet` as a set), `RoundTrip` | rings of 1 to 3 slots; 4 handles on 3 slots, so that two move assignments overlap; 3 keys and lists of 3 entries; 3 ranks with 2 equivalent elements each; 3 writes of 1 or 3 bytes into 4, so that one is accepted behind one that was refused, 2 reads of any truncated copy, both byte orders |
| `tcp` | `OwnershipInv`: one owner per open descriptor, modes and ports agree; `ErrorsExplained`: failures have a code; `AnswersTruthful`: ready, closed and nullopt are true, or the error is reported | 2 sockets, 2 servers, 2 descriptors, hosts of 2 addresses, queues of 1: no call touches more than two descriptors (accept, and a move onto an open object), and two are enough to run out of them and to see one reused. `MaxBusy` = 2 threads inside calls at a time: both threads of one socket, or two objects opening; what the objects share is the descriptors, and an object between calls holds its own as well |

Deadlock is checked in every run but `sequential`, where the bounds on parses,
writes, reads and calls end a behaviour: a program that makes no further call stops.

### Fairness

`LiveSpec` adds weak fairness of each thread's own steps: the scheduler runs every
runnable thread and a `std::mutex` is not refused for ever. A call is never forced
to *start*. Strong fairness appears only for the exchange of
`compare_exchange_weak` (it does not fail spuriously for ever). Spurious wakeups,
deadlines, failures of the OS, of sinks and of payloads are never assumed to
happen. The runs `sequential`, `tcp` and `queue_relaxed` check safety only and
state none.

## Proofs

Each theorem holds for every value of the constants that its module's named
assumption admits, not only for the run's. Where a bound of the model appears as a
constant (`MaxTasks`, `MaxRecords`, `MaxQueued`...), the theorem holds for every
natural number in its place.

| Module | Theorem | States | Inductive invariant |
|---|---|---|---|
| `LockFreeQueueProofs` | `RingIsSound` | `RingInv` | itself |
| | `TypesHold`, `SlotsAreRaceFree`, `RingIsBounded` | `TypeOK`, `NoSlotRace`, `CapacityBound` | `RingInv` |
| | `QueueIsFifo` | the ring implements `BoundedFifo` | `RingInv` |
| | `RefusalsAreTrue` | `RefusalsTruthful`, for both memory models | `RingInv`, `TicketsReached` |
| `ReaderWriterLockProofs` | `LockIsExclusive` | `LockInv` | itself |
| | `NobodyStranded` | `NoneStranded` | with `LockInv` |
| | `LockObeysPolicy` | the lock implements `WriterPreferringLock` | `LockInv` |
| `SemaphoreProofs` | `UnitsAccounted` | `UnitsInv` | itself |
| `TaskFutureProofs` | `SharedStateSound` | `StateInv` | itself |
| | `PairHandsOff` | the pair implements `TaskHandoff` | `StateInv` |
| `ThreadPoolProofs` | `PoolIsSound`, `StartsInOrder`, `ShutdownDrains` | `PoolInv`, `StartOrder`, `DrainedWhenDown` | `PoolIInv` |
| `LoggerProofs` | `PumpIsSound`, `ReturnsAreBarriers`, `NothingLostInSilence` | `PumpInv`, `WrittenOnReturn`, `NoSilentLoss` | `LoggerIInv` |
| `TcpSocketProofs` | `DescriptorsOwned`, `FailuresExplained`, `AnswersAreTrue` | `OwnershipInv`, `ErrorsExplained`, `AnswersTruthful` | `SocketsIInv` |
| `SequentialProofs` | `SlotsNeitherSharedNorLost` | `EachSlotOnce` | `PoolIInv` |
| | `BlocksStayApart` | `BlocksDisjoint` | `AllocatorIInv` |
| | `ElapsedIsTimeRun` | `ElapsedExact` | `WatchIInv` |
| | `RingActsAsSequence` | `ActsAsSequence` | `RingIInv` |
| | `WritesAreKept`, `ReadsAreExact` | `WritesKept`, `ReadsExact` | `StreamIInv` |
| | `FieldsAreExact` | `SplitExact` | `SplitIInv` |
| | `LinesAreWhole` | `SinkLines` | `SinkIInv` |
| | `WrittenIsRead` | `RoundTrip` | `BinaryIInv` |
| | `ContainersAct` | `SortedContainers` | `MapIInv`, `SetIInv` |

**The queue**: every set of threads and values, every capacity of at least two
slots, both memory models, no bound on time. `NoSlotRace` and `CapacityBound` are
not inductive: that a claim is safe depends on what the slot's sequence number
says about the ticket a lap before, which depends on where that ticket's holder
is. `RingInv` therefore describes, for each of the next `Capacity` tickets, the
three states its slot can be in (`SlotState`) and what each thread may rely on at
its program counter (`Knows`): before its exchange only that the sequence had
*reached* its ticket, a fact later steps keep because sequences only grow, and
afterwards that the slot stands still. The proof has one lemma per step that
touches the ring (claim, write, take, publish), one for all the private steps
together (`PrivateActions`), and slot arithmetic (`NextLap`, `SameSlot`: tickets
less than a lap apart never share a slot) underneath. The refinement maps the
abstract queue to the window of `pushed` between the two counters; the exchanges
are its push and its pop. That a refusal is truthful
needs one fact more, that the counter has reached the ticket a call carries
(`TicketsReached`); what the slot's number then says of the queue at the load that
refuses follows from `RingInv`. A queue that refuses need not be full or empty: a
consumer may have claimed the element of the slot and not yet released it, a
producer claimed the ticket and not yet published, and with `Relaxed` = `TRUE` the
load may be stale (`StaleRefusal`). The theorem covers both memory models and
names these reasons; the run checks it without stale loads, where the last reason
is none. Assumptions: `QueueAssumption` and
`CapacityAssumption` (at least two slots; with one the algorithm is wrong, see
Findings).

**The reader-writer lock**: any finite set of threads (`LockAssumption`). Seen
through the sets of readers, writers and waiting writers, every action is one of
seven kinds of step (`Kinds`): nothing changes, one thread enters or leaves,
shared or not, queues, or gives up. That the counters are the sizes of these sets,
and that each step is one the policy allows, is shown once per kind. Whether a
sleeper is stranded depends on labels within the kinds, and is shown per action.

**The semaphore**: any finite set of threads, any maximum, any updates
(`SemaphoreAssumption`). The conjunct that matters counts: while somebody sleeps,
each unit of the count has a thread that will see it, an acquirer awake or a
notification not yet sent.

**The future**: any sets of values and errors, payloads that throw or not
(`FutureAssumption`).

**The pool**: any finite sets of workers and submitters, any priorities, any
number of tasks (`PoolAssumption`). `PoolIInv` adds the numbering that makes a
sequence number name one task (`Numbered`, `Unique`), what a phase of the owner
says about the workers (`Phases`: a worker exits only on an empty queue after
`stopping_`, and nothing is queued afterwards), who is inside `get` (`Getting`),
and for the order of starts what each start says about the tasks still queued
(`Ordered`).

**The logger**: any finite set of producers, any flushers, sinks, capacity and
either policy (`LoggerAssumption`). The runs' invariants look at the logger
between two items or when a call has returned; `LoggerIInv` follows a record on
its way. It is in the queue, in the pump's hands, or handed to the sink
(`Covered`), never overtaken (`InOrder`, `DeliveryInOrder`); a flush marker stands
behind every record accepted before the call (`Barrier`); a sink flushed in this
round has settled all that left the queue (`RoundSettled`); an exited pump left
nothing (`ExitSettled`). `NoStrandedProducer` and `NoStrandedWaiter` are kept
alongside from what each step does to the labels and to the free space.

**The sockets**: any sets of sockets and servers, any finite set of descriptors,
hosts with any number of addresses, any network behaviour (`ConstantsFit`).
`SocketsIInv` describes each descriptor, socket and server by itself. An open
descriptor is held by one object or by one call in progress (`FdFits`); a call
holds one exactly between the OS call that opened it and the one that closes it or
hands it over, in the state the call has brought it to (`ConnectFits`,
`ListenFits`, `AcceptFits`); a thread is inside a call only on an open socket
(`SocketFits`, `ServerFits`). A broken connection's error is pending in `SO_ERROR`,
in the hands of a thread that took it, or reported, and what was reported is in
`error_` unless the two threads' calls have overlapped since (`ConnectionFits`).
One owner follows from the first part, the answers from the second. A step touches
one object, or two in a move or an `accept`, and at most two descriptors; the rest
is carried over once (`TouchedKeeps`).

**The sequential components**: `PartsAssumption` collects what each assumes of
its constants (`ConstantsFit`): sizes and addresses are naturals, alignments are
not zero, `Vacant` is no element, no delimiter is empty, a millisecond has at
least one tick and a second at most a thousand milliseconds, keys and ranks are
integers. The object pool takes any handles and capacity; `PoolIInv` adds
that the target of a move assignment half way is empty, and the proof counts:
while a slot is lent the stack of free slots has room, so `release()` stays inside
it. The stack allocator takes any buffer,
address, alignments and sizes; `AllocatorIInv` orders the blocks by number, each
ending where a later one begins at the earliest, and puts what a mark keeps below
that mark, which is why a rewind to an outdated mark reclaims nothing in use. The
stopwatch's `WatchIInv` adds that the recorded calls lie in the past and that the
last one says whether the watch runs; a call then changes nothing about past
ticks unless it zeroes them all. The ring takes any capacity and values;
`RingIInv` says that the places in view hold pushed values, and the proof shows
that the places are distinct and move up by one when the head advances.

* *The file stream*, any files, buffer size, blocks and failures. `StreamIInv`
  says where the descriptor stands in the file (`Position`: behind what is
  buffered), that a call of `read` or `read_line` on its way has served exactly
  the bytes before the cursor (`Served`), and that what `write` accepted is in the
  file or in the buffer, in order, a prefix possibly twice after a failed flush
  (`Intact`). `SuccessMeansWritten` and the parts of `ReadsExact` then hold of
  each answer as it is given.
* *The splitter*, any text and any non-empty delimiter. Each iterator passed
  stands at a field that ends at the first delimiter at or behind its beginning,
  the next one begins at its cursor (`Passed`, `Arrived`), and positions strictly
  increase, which is what tells copies at empty fields apart.
* *The sinks*, any records. A `FileSink`'s output is a prefix of the lines of its
  records, all of them while the stream is good (`FileKept`); a `ConsoleSink`'s is
  ruled by its newlines, each behind the line of its record (`Ruled`), which
  allows for the torn lines the code can leave; a `UdpSink` sends one datagram per
  record. That a stamp names its instant rests on the uniqueness of quotients and
  remainders, before the epoch too.
* *The serializer*, any fields, buffer, byte orders and truncated copy. The bytes
  of each field written stand at its start, reversed or not (`WriterKept`), and
  every read returns the bytes of the copy at its own place, turned the same way
  (`ReaderKept`). Turning twice is the identity.
* *The flat containers*, any keys or ranks, values and lists. The invariant is
  little more than an ordered vector; the work is in the operators. The lower
  bound splits an ordered vector, so an insertion or an erasure there leaves it
  ordered and adds or removes one entry; a stable sort followed by `unique` leaves
  the first of each rank, an unstable one some entry of each; and a construction
  by insertion (`pending`) has kept the first of each key among the entries so
  far. The map is then the set of entries, one per key.

What these arguments need of the naturals and of sequences by induction is
obtained without it: a set of naturals that is not empty has a least element
(`WFMin`, and `AllNumbers` from it), positions are compared instead of filtering,
and `FlattenSeq` is reduced to the appending of one line.

The strengthened invariants of the concurrent components were model-checked before
they were proved (with 306,544 distinct states for the pool's `PoolIInv`, 913,470
for `SocketsIInv`, 2,292,510 for `LoggerIInv`, 8,200 for the kinds of the lock's
steps), and so were `StreamIInv` (317,847), `MapIInv` and `SetIInv` (the
run `sequential`). The attempts also corrected the models. Two `CASE`
expressions of `TcpSocket` (the outcomes of `recv` and of the poll in
`wait_connected`) and one of `Logger` (`FlushComplete`) had guards that can hold
together; the code tests them in order, TLA+ leaves the choice open, and no proof
goes through. They are `IF ... THEN ... ELSE` chains now. `SplitExact` speaks of
the positions of fields and `RoundTrip` of each field, where both compared with a
filtered sequence; the sorts of the flat containers are given by the arrangements
they may leave, and `FlatMap`'s construction by insertion is a step per entry.
`LoggerAssumption` and `PoolAssumption` gained what the arguments turned out to
use: producers and submitters are finite in number, no thread is both a worker and
a submitter, and `NoTask` is not a task.

Only model-checked:

* the liveness properties (`EveryCallReturns`, `WritersRun`, `SleepersServed`,
  `GetReturns`, `FuturesSettle`, `ShutdownReturns`, `CallsReturn`): liveness under
  fairness is beyond the prover;
* `ParseExact` and `FormatExact`, which compare the parser and the formatter with
  recursive grammars, and `BoundExact` and `DecodeExact`, which compare command
  lines and strings with folds over them: what a recursive definition computes for
  every input is an induction over data, which the prover cannot do.

## Findings

* **A one-slot queue overwrites** (`queue_one_slot_full`). With capacity 1, which
  the constructor and the tests accept, "filled" and "vacant for the next lap" are
  the same number. The second `try_push` overwrites the first element. The same
  confusion can make a call spin in the catch-up branch.
* **A result that throws while it is stored ends the process**
  (`pool_throwing_result`). The handler in the task wrapper calls `set_exception`
  on a state that already has an outcome; the `std::logic_error` leaves the worker.
* **`flush()` during `shutdown()` returns early** (`logger_flush_in_shutdown`).
  `stopping_` is set before the pump drains.

Met while modelling, without a run of their own:

* `TaskFuture`: when `emplace<1>` throws, the variant is valueless, which
  `index() == 0` does not see (`util/task_future.hpp:54`, `:74`): nobody is
  notified, the promise dies without marking the state abandoned (`:215` says it
  is marked) and a `get()` already asleep never wakes. The run `future` contains
  these states and states its properties for the others.
* `FileStream`: a flush that fails half way keeps the whole buffer, so the retry
  writes a prefix twice (`util/file_stream.cpp:255-259`); `error_` is never
  reset, so after one failed read the end of the file is reported as an error
  (`:281`, `:315`, against `util/file_stream.hpp:97-98`); a read error inside a
  line drops the bytes already taken.
* `CliParser`: `--help`/`-h` is registered by the constructor, always
  (`util/cli_parser.hpp:219-227`), not "unless the names are already taken"
  (`:213-214`); declaring either name throws.
* `Logger`: a `ConsoleSink` whose `fwrite` or `fputc` fails leaves a torn line
  without its newline, and the next record is glued to it
  (`util/logger.cpp:202-206`), although `util/logger.hpp:120` says "one line per
  record". A `FileSink` latches the failure, so nothing follows a torn line.
  `SinkLines` states what each does.
* `StackAllocator`: `allocate_uninitialized` multiplies in a `size_t`
  (`util/stack_allocator.hpp:70`); a product that wraps gives a block smaller than
  the array asked for. `BlocksDisjoint` states the room for products that fit.
* `StringSplitter`: an empty delimiter is found everywhere and the iterator never
  ends; the model has non-empty delimiters only, as the header asks.
* `JsonParser`: a lone surrogate escape is accepted by `next`
  (`util/json_parser.hpp:429-438`) and refused by `decode_string` (`:217-229`).
* `TcpSocket`: `recv` into an empty span says `closed`
  (`util/tcp_socket.cpp:456`, against `util/tcp_socket.hpp:122`); a resolver
  failure can leave `error()` zero (`:323`, against `hpp:63-64`); `close()` never
  returns `false` (against `hpp:130`); `wait_connected` puts a descriptor of any
  number into an `fd_set` (`util/tcp_socket.cpp:269`), which holds those below
  `FD_SETSIZE`.
* `TcpSocket`, errors read once: `SO_ERROR` is cleared by the call that reads it, so
  a second `wait_connected` on a failed connect, or one beside a `recv` that took
  the error, says `ready` (`util/tcp_socket.cpp:380-384`, against `hpp:105`,
  "`ready` means the socket is usable"), and `recv` on a reset connection says
  `closed` once its error has been taken (`:456`, against `hpp:35`, "the peer
  performed an orderly shutdown"). `AnswersTruthful` states what remains: another
  call has reported the error, or is about to.
* `TcpSocket`, two threads: `hpp:68-69` allows a reader and a writer on one socket,
  but `error_` is a plain `int` both may store to, a data race. When a connection
  breaks under both, the `get_so_error` in `wait_writable` can find the error
  already taken; `error_ = (so != 0) ? so : error_` (`util/tcp_socket.cpp:416-417`)
  then reports an error with `error()` zero, or stores the zero it loaded over the
  code the reader stored in between, against "see `error()`" (`hpp:28`, `:37`).
  `ErrorsExplained` excepts exactly the connections on which the two threads have
  been inside calls at once since they broke.

## Not modelled

Whole components, because there is no state or control in them to check:
`StringBuilder` (appends to a `std::string`), `HeapArray` and `UniqueRef`
(ownership the type system enforces), `TypeTraits`, `version` (compile time),
`StackTrace` (the platform's unwinder), and `Hash`, whose FNV-1a, MurmurHash3 and
SHA-256 are pure arithmetic on 32 and 64 bit words, outside TLC's integers, and
are tested against published vectors.

In the modelled parts: object lifetimes (a semaphore destroyed by the thread it
just released), durations (a deadline may pass at any time), the wording of log
lines beyond their stamp, payload bytes and host names of sockets (a port is zero
or not), floating-point conversions, `CliParser::parse(argc, argv)`, which drops
the program's name and calls the modelled `parse`, help and error texts,
wrap-around of 64-bit counters.

## Plan

1. Done: the concurrent core (queue, locks, semaphore, future, pool with its
   futures, logger with its sinks), file and socket wrappers, every sequential
   component that has state.
2. Done: proofs for every concurrent component, the sockets, the file stream, the
   sinks and the sequential components whose properties need no induction over
   data; every safety property a run checks is proved but four.
3. Left to TLC, as said above: these four (`ParseExact`, `FormatExact`,
   `BoundExact`, `DecodeExact`) and the liveness properties.
