------------------------------- MODULE Logger -------------------------------
(***************************************************************************)
(* Logger (logger.hpp, logger.cpp): producers append records to a bounded  *)
(* queue, one pump thread hands them to every sink.  Every stretch of code *)
(* under mutex_ is one step; notifications after it and sink calls are     *)
(* steps of their own.                                                     *)
(*                                                                         *)
(* A record is its number in the order of acceptance; its text, its time   *)
(* and the rendering are left out, but for the fact that rendering may     *)
(* fail.  A sink is what it was given, what it lost and how much of it was *)
(* flushed; LogSinks.tla has the sinks themselves.  A sink that calls      *)
(* flush(), or log() on a full queue, of its own logger gets an exception, *)
(* which leaves write() as any other does.                                 *)
(***************************************************************************)
EXTENDS Naturals, Sequences, FiniteSets

CONSTANTS Producers, Flushers,
          NumSinks,     \* sinks_.size()
          Capacity,     \* capacity_
          Policies,     \* the overflow policies a logger is constructed with
          MaxRecords,   \* bound: no log() begins once so many were accepted or dropped
          MaxFlushes,   \* bound: flush tickets
          MaxFailures   \* bound: sink calls and renderings that fail

\* The constructor throws on an empty list of sinks and on a zero capacity.
ASSUME LoggerAssumption ==
    /\ IsFiniteSet(Producers)
    /\ NumSinks \in Nat \ {0} /\ Capacity \in Nat \ {0}
    /\ Policies \subseteq {"block", "drop"}
    /\ MaxRecords \in Nat /\ MaxFlushes \in Nat /\ MaxFailures \in Nat

VARIABLES policy,           \* policy_
          min_level,        \* min_level_: "trace", which lets all through, or "off"
          queue,            \* queue_: records and flush markers
          stopping,         \* stopping_
          flush_requested,  \* flush_requested_
          flush_completed,  \* flush_completed_
          dropped,          \* dropped_
          sink_failures,    \* sink_failures_
          accepted,         \* history: how many records enqueue() accepted
          producer,         \* producer[p]: where producer p is
          flusher,          \* flusher[f]: where flusher f is, its ticket and
                            \* the records accepted when it called
          pump,             \* where the pump is
          item,             \* the pump's local item
          sink,             \* the sink the pump calls next
          written,          \* written[s]: the records sink s has written
          flushed,          \* flushed[s]: how many of them before its last flush()
          lost,             \* history: lost[s], the records whose rendering or
                            \* write to s threw
          owner             \* where the thread that shuts down is

monitor == <<policy, queue, stopping, flush_requested, flush_completed>>
outputs == <<written, flushed, lost, sink_failures>>
threads == <<producer, flusher, owner>>
vars == <<monitor, min_level, dropped, accepted, threads, pump, item, sink, outputs>>

Sinks == 1 .. NumSinks
Record(n) == [kind |-> "record", number |-> n]
FlushMarker(ticket) == [kind |-> "marker", number |-> ticket]
NoItem == [kind |-> "none", number |-> 0]
\* The flush after the drain, which completes every ticket.
FinalFlush == [kind |-> "final", number |-> 0]

ProducersAt(label) == {p \in Producers : producer[p] = label}
Full == Len(queue) >= Capacity

Init ==
    /\ policy \in Policies /\ min_level = "trace"
    /\ queue = << >> /\ stopping = FALSE
    /\ flush_requested = 0 /\ flush_completed = 0
    /\ dropped = 0 /\ sink_failures = 0 /\ accepted = 0
    /\ producer = [p \in Producers |-> "idle"]
    /\ flusher = [f \in Flushers |-> [at |-> "idle", ticket |-> 0, goal |-> 0]]
    /\ pump = "test" /\ item = NoItem /\ sink = 1
    /\ written = [s \in Sinks |-> << >>]
    /\ flushed = [s \in Sinks |-> 0]
    /\ lost = [s \in Sinks |-> {}]
    /\ owner = "up"

-----------------------------------------------------------------------------
(* log and enqueue *)

ProducerGoto(p, label) == producer' = [producer EXCEPT ![p] = label]

\* Any thread, at any time.
SetLevel(level) ==
    /\ min_level # level /\ min_level' = level
    /\ UNCHANGED <<monitor, dropped, accepted, threads, pump, item, sink, outputs>>

\* log() of a level the filter lets through; a filtered call returns at once.
Log(p) ==
    /\ producer[p] = "idle" /\ accepted + dropped < MaxRecords
    /\ min_level = "trace"
    /\ ProducerGoto(p, "enqueue")
    /\ UNCHANGED <<min_level, monitor, dropped, accepted, flusher, owner, pump, item, sink, outputs>>

PushRecord ==
    /\ queue' = Append(queue, Record(accepted + 1))
    /\ accepted' = accepted + 1
    /\ UNCHANGED <<policy, stopping, flush_requested, flush_completed>>

\* There is room, at once or after a wait.
Enqueue(p) ==
    /\ producer[p] \in {"enqueue", "woken"}
    /\ ~ stopping /\ ~ Full
    /\ PushRecord
    /\ ProducerGoto(p, "notify")
    /\ UNCHANGED <<min_level, dropped, flusher, owner, pump, item, sink, outputs>>

\* enqueue() throws: shut down before the call, or while it waited.
EnqueueRefused(p) ==
    /\ producer[p] \in {"enqueue", "woken"}
    /\ stopping
    /\ ProducerGoto(p, "idle")
    /\ UNCHANGED <<min_level, monitor, dropped, accepted, flusher, owner, pump, item, sink, outputs>>

EnqueueDropped(p) ==
    /\ producer[p] = "enqueue"
    /\ ~ stopping /\ Full /\ policy = "drop"
    /\ dropped' = dropped + 1
    /\ ProducerGoto(p, "idle")
    /\ UNCHANGED <<min_level, monitor, accepted, flusher, owner, pump, item, sink, outputs>>

EnqueueWaits(p) ==
    /\ producer[p] \in {"enqueue", "woken"}
    /\ ~ stopping /\ Full /\ policy = "block"
    /\ ProducerGoto(p, "asleep")
    /\ UNCHANGED <<min_level, monitor, dropped, accepted, flusher, owner, pump, item, sink, outputs>>

\* Mutant: nobody tells the pump.
WakeNobody == UNCHANGED pump

\* The pump is the only thread that waits for records_available_.
WakePump == pump' = IF pump = "asleep" THEN "woken" ELSE pump

EnqueueNotify(p) ==
    /\ producer[p] = "notify"
    /\ WakePump
    /\ ProducerGoto(p, "idle")
    /\ UNCHANGED <<min_level, monitor, dropped, accepted, flusher, owner, item, sink, outputs>>

-----------------------------------------------------------------------------
(* flush *)

\* Mutant: the marker is not queued behind the records.
QueueMarkerFirst(marker) == <<marker>> \o queue

QueueMarker(marker) == Append(queue, marker)

\* The ticket is new, so the first test of the predicate fails.
FlushRequest(f) ==
    /\ flusher[f].at \in {"idle", "returned", "returned_stopping"}
    /\ ~ stopping /\ flush_requested < MaxFlushes
    /\ flush_requested' = flush_requested + 1
    /\ queue' = QueueMarker(FlushMarker(flush_requested + 1))
    /\ flusher' = [flusher EXCEPT ![f] = [at |-> "asleep", ticket |-> flush_requested + 1,
                                          goal |-> accepted]]
    /\ WakePump
    /\ UNCHANGED <<min_level, policy, stopping, flush_completed, dropped, accepted, producer, owner,
                   item, sink, outputs>>

FlushWhenStopping(f) ==
    /\ flusher[f].at \in {"idle", "returned", "returned_stopping"}
    /\ stopping
    /\ flusher' = [flusher EXCEPT ![f] = [at |-> "returned_stopping", ticket |-> 0,
                                          goal |-> accepted]]
    /\ UNCHANGED <<min_level, monitor, dropped, accepted, producer, owner, pump, item, sink, outputs>>

FlushTest(f) ==
    /\ flusher[f].at = "woken"
    /\ flusher' = [flusher EXCEPT ![f].at =
                      IF flush_completed >= flusher[f].ticket THEN "returned" ELSE "asleep"]
    /\ UNCHANGED <<min_level, monitor, dropped, accepted, producer, owner, pump, item, sink, outputs>>

-----------------------------------------------------------------------------
(* shutdown *)

ShutdownStart ==
    /\ owner = "up"
    /\ stopping' = TRUE
    /\ owner' = "notify_records"
    /\ UNCHANGED <<min_level, policy, queue, flush_requested, flush_completed, dropped, accepted,
                   producer, flusher, pump, item, sink, outputs>>

ShutdownNotifyPump ==
    /\ owner = "notify_records"
    /\ WakePump
    /\ owner' = "notify_space"
    /\ UNCHANGED <<min_level, monitor, dropped, accepted, producer, flusher, item, sink, outputs>>

ShutdownNotifyProducers ==
    /\ owner = "notify_space"
    /\ producer' = [p \in Producers |-> IF producer[p] = "asleep" THEN "woken" ELSE producer[p]]
    /\ owner' = "joining"
    /\ UNCHANGED <<min_level, monitor, dropped, accepted, flusher, pump, item, sink, outputs>>

ShutdownJoined ==
    /\ owner = "joining" /\ pump = "exited"
    /\ owner' = "down"
    /\ UNCHANGED <<min_level, monitor, dropped, accepted, producer, flusher, pump, item, sink, outputs>>

-----------------------------------------------------------------------------
(* pump_loop, deliver, flush_sinks *)

others == <<min_level, dropped, accepted, producer, flusher, owner>>

PumpSleep ==
    /\ pump \in {"test", "woken"}
    /\ ~ stopping /\ queue = << >>
    /\ pump' = "asleep"
    /\ UNCHANGED <<monitor, others, item, sink, outputs>>

PumpTake ==
    /\ pump \in {"test", "woken"}
    /\ queue # << >>
    /\ item' = Head(queue)
    /\ queue' = Tail(queue)
    /\ pump' = "notify_space"
    /\ UNCHANGED <<policy, stopping, flush_requested, flush_completed, others, sink, outputs>>

\* Out of the loop, into the last flush_sinks().
PumpDrained ==
    /\ pump \in {"test", "woken"}
    /\ stopping /\ queue = << >>
    /\ item' = FinalFlush /\ sink' = 1
    /\ pump' = "flush_sinks"
    /\ UNCHANGED <<monitor, others, outputs>>

\* Mutant: a slot freed by a flush marker is not announced.
NotifySpaceOfRecords ==
    \/ \E p \in ProducersAt("asleep") : item.kind = "record" /\ ProducerGoto(p, "woken")
    \/ (ProducersAt("asleep") = {} \/ item.kind # "record") /\ UNCHANGED producer

NotifySpace ==
    \/ \E p \in ProducersAt("asleep") : ProducerGoto(p, "woken")
    \/ ProducersAt("asleep") = {} /\ UNCHANGED producer

\* space_available_.notify_one(), then the branch on the kind of item.
PumpNotifySpace ==
    /\ pump = "notify_space"
    /\ NotifySpace
    /\ pump' = IF item.kind = "marker" THEN "flush_sinks" ELSE "render"
    /\ sink' = 1
    /\ UNCHANGED <<min_level, monitor, dropped, accepted, flusher, owner, item, outputs>>

DeliverRender ==
    /\ pump = "render"
    /\ pump' = "write"
    /\ UNCHANGED <<monitor, others, item, sink, outputs>>

DeliverRenderFails ==
    /\ pump = "render" /\ sink_failures < MaxFailures
    /\ sink_failures' = sink_failures + 1
    /\ lost' = [s \in Sinks |-> lost[s] \union {item.number}]
    /\ pump' = "test" /\ item' = NoItem
    /\ UNCHANGED <<monitor, others, sink, written, flushed>>

\* On to the next sink, or out of the loop over the sinks.
NextSink(after, finished) ==
    IF sink < NumSinks
    THEN sink' = sink + 1 /\ UNCHANGED <<pump, item>>
    ELSE sink' = 1 /\ pump' = after /\ item' = finished

DeliverWrite ==
    /\ pump = "write"
    /\ written' = [written EXCEPT ![sink] = Append(@, item.number)]
    /\ NextSink("test", NoItem)
    /\ UNCHANGED <<monitor, others, flushed, lost, sink_failures>>

\* Mutant: a sink that throws ends the delivery to its siblings.
LeaveDelivery == sink' = 1 /\ pump' = "test" /\ item' = NoItem

\* deliver()'s handler counts the failure and the loop goes on.
GoOnDelivering == NextSink("test", NoItem)

DeliverWriteFails ==
    /\ pump = "write" /\ sink_failures < MaxFailures
    /\ sink_failures' = sink_failures + 1
    /\ lost' = [lost EXCEPT ![sink] = @ \union {item.number}]
    /\ GoOnDelivering
    /\ UNCHANGED <<monitor, others, written, flushed>>

\* A sink logs to its own logger from write(): there is room, or the record is
\* dropped.  (When stopping_, or full under the block policy, it throws.)
ReentrantLog ==
    /\ pump = "write" /\ accepted + dropped < MaxRecords /\ ~ stopping
    /\ min_level = "trace"
    /\ \/ ~ Full /\ PushRecord /\ UNCHANGED dropped
       \/ /\ Full /\ policy = "drop" /\ dropped' = dropped + 1
          /\ UNCHANGED <<monitor, accepted>>
    /\ UNCHANGED <<min_level, threads, pump, item, sink, outputs>>

FlushSink ==
    /\ pump = "flush_sinks"
    /\ flushed' = [flushed EXCEPT ![sink] = Len(written[sink])]
    /\ NextSink("complete", item)
    /\ \/ UNCHANGED sink_failures
       \/ sink_failures < MaxFailures /\ sink_failures' = sink_failures + 1
    /\ UNCHANGED <<monitor, others, written, lost>>

FlushComplete ==
    /\ pump = "complete"
    /\ flush_completed' = IF item.kind = "final" THEN flush_requested
                          ELSE IF item.number > flush_completed THEN item.number
                          ELSE flush_completed
    /\ pump' = "notify_flushed"
    /\ UNCHANGED <<policy, queue, stopping, flush_requested, others, item, sink, outputs>>

FlushNotify ==
    /\ pump = "notify_flushed"
    /\ flusher' = [f \in Flushers |-> IF flusher[f].at = "asleep"
                                      THEN [flusher[f] EXCEPT !.at = "woken"]
                                      ELSE flusher[f]]
    /\ pump' = IF item.kind = "final" THEN "exited" ELSE "test"
    /\ item' = NoItem
    /\ UNCHANGED <<min_level, monitor, dropped, accepted, producer, owner, sink, outputs>>

-----------------------------------------------------------------------------
\* A condition variable may wake a waiter for no reason.
SpuriousWakeup ==
    \/ /\ pump = "asleep" /\ pump' = "woken"
       /\ UNCHANGED <<monitor, others, item, sink, outputs>>
    \/ /\ \E p \in ProducersAt("asleep") : ProducerGoto(p, "woken")
       /\ UNCHANGED <<min_level, monitor, dropped, accepted, flusher, owner, pump, item, sink, outputs>>
    \/ /\ \E f \in Flushers : flusher[f].at = "asleep" /\ flusher' = [flusher EXCEPT ![f].at = "woken"]
       /\ UNCHANGED <<min_level, monitor, dropped, accepted, producer, owner, pump, item, sink, outputs>>

ProducerStep(p) ==
    \/ Enqueue(p) \/ EnqueueRefused(p) \/ EnqueueDropped(p) \/ EnqueueWaits(p) \/ EnqueueNotify(p)

PumpStep ==
    \/ PumpSleep \/ PumpTake \/ PumpDrained \/ PumpNotifySpace
    \/ DeliverRender \/ DeliverRenderFails \/ DeliverWrite \/ DeliverWriteFails
    \/ FlushSink \/ FlushComplete \/ FlushNotify

ShutdownStep == ShutdownNotifyPump \/ ShutdownNotifyProducers \/ ShutdownJoined

Next ==
    \/ \E level \in {"trace", "off"} : SetLevel(level)
    \/ \E p \in Producers : Log(p) \/ ProducerStep(p)
    \/ \E f \in Flushers : FlushRequest(f) \/ FlushWhenStopping(f) \/ FlushTest(f)
    \/ ShutdownStart \/ ShutdownStep
    \/ PumpStep \/ ReentrantLog
    \/ SpuriousWakeup

Spec == Init /\ [][Next]_vars

\* Every thread inside a call runs, and sink calls return; nobody need log,
\* flush, shut down or wake for no reason.
Fairness ==
    /\ WF_vars(PumpStep) /\ WF_vars(ShutdownStep)
    /\ \A p \in Producers : WF_vars(ProducerStep(p))
    /\ \A f \in Flushers : WF_vars(FlushTest(f))

LiveSpec == Spec /\ Fairness

-----------------------------------------------------------------------------
(* Properties *)

Items == [kind : {"record", "marker", "none", "final"}, number : Nat]

\* Types; the pump holds an item exactly between taking it and being done with it.
TypeOK ==
    /\ policy \in Policies /\ min_level \in {"trace", "off"}
    /\ queue \in Seq(Items) /\ stopping \in BOOLEAN
    /\ flush_requested \in 0 .. MaxFlushes /\ flush_completed \in 0 .. flush_requested
    /\ dropped \in Nat /\ accepted \in Nat
    /\ sink_failures \in 0 .. MaxFailures
    /\ producer \in [Producers -> {"idle", "enqueue", "asleep", "woken", "notify"}]
    /\ flusher \in [Flushers -> [at : {"idle", "asleep", "woken", "returned", "returned_stopping"},
                                 ticket : 0 .. MaxFlushes, goal : Nat]]
    /\ pump \in {"test", "asleep", "woken", "notify_space", "render", "write", "flush_sinks",
                 "complete", "notify_flushed", "exited"}
    /\ item \in Items /\ sink \in Sinks
    /\ \A s \in Sinks : /\ written[s] \in Seq(1 .. accepted)
                        /\ flushed[s] \in 0 .. Len(written[s])
                        /\ lost[s] \subseteq 1 .. accepted
    /\ owner \in {"up", "notify_records", "notify_space", "joining", "down"}
    /\ item = NoItem <=> pump \in {"test", "asleep", "woken", "exited"}

\* Records reach a sink in the order they were accepted, each at most once.
DeliveryInOrder ==
    \A s \in Sinks : \A i, j \in 1 .. Len(written[s]) : i < j => written[s][i] < written[s][j]

\* The records in the queue never exceed capacity_, although flush markers do.
RecordsBounded ==
    Cardinality({i \in 1 .. Len(queue) : queue[i].kind = "record"}) <= Capacity

\* Record n was written by sink s and flushed, or the failure was counted.
Settled(s, n) ==
    \/ n \in lost[s]
    \/ \E i \in 1 .. flushed[s] : written[s][i] = n

\* A flush() that waited returns only when every record accepted before the call
\* was written and flushed by every sink that did not fail on it.
FlushBarrier ==
    \A f \in Flushers : flusher[f].at = "returned" =>
        \A s \in Sinks, n \in 1 .. flusher[f].goal : Settled(s, n)

\* The same of every flush(): "Returns immediately after shutdown (the drain
\* already did both)".
FlushMeansWritten ==
    \A f \in Flushers : flusher[f].at \in {"returned", "returned_stopping"} =>
        \A s \in Sinks, n \in 1 .. flusher[f].goal : Settled(s, n)

\* When shutdown() returns, every accepted record was written and flushed by
\* every sink that did not fail on it, and nobody is left in flush().
DrainedWhenDown ==
    owner = "down" =>
        /\ queue = << >>
        /\ \A s \in Sinks, n \in 1 .. accepted : Settled(s, n)
        /\ \A f \in Flushers : flusher[f].at # "asleep"

\* What flush() and shutdown() have returned for is written: the queue is a
\* barrier for the one and drained by the other.
WrittenOnReturn == FlushBarrier /\ DrainedWhenDown

\* Nothing is lost in silence: between two items, every accepted record is in the
\* queue or has been through every sink; one that threw was counted, and cost its
\* siblings nothing.
NoSilentLoss ==
    /\ pump \in {"test", "asleep", "woken", "exited"} =>
           \A s \in Sinks, n \in 1 .. accepted :
               \/ \E i \in 1 .. Len(queue) : queue[i] = Record(n)
               \/ \E i \in 1 .. Len(written[s]) : written[s][i] = n
               \/ n \in lost[s]
    /\ \A s \in Sinks : Cardinality(lost[s]) <= sink_failures

\* No producer sleeps on while there is room: as many of them have been woken,
\* or are about to be, as there are free slots.
NoStrandedProducer ==
    ProducersAt("asleep") # {} =>
        \/ owner \in {"notify_records", "notify_space"}
        \/ /\ ~ stopping
           /\ Capacity <= Len(queue) + Cardinality(ProducersAt("woken"))
                        + (IF pump = "notify_space" THEN 1 ELSE 0)

\* Nobody sleeps in flush() whose ticket has completed, unless it is about to be
\* woken, and the pump never sleeps while there is something for it to do.
NoStrandedWaiter ==
    /\ \A f \in Flushers : flusher[f].at = "asleep" =>
           flush_completed < flusher[f].ticket \/ pump = "notify_flushed"
    /\ pump = "asleep" =>
           \/ queue = << >> /\ ~ stopping
           \/ owner = "notify_records" \/ ProducersAt("notify") # {}

\* The pump hands each sink the accepted records in order, from a queue that
\* back-pressure keeps within its capacity under both overflow policies, and
\* nobody, producer, flusher or pump, sleeps on a condition that already holds:
\* every notification that is due is sent, also when shutdown begins meanwhile.
PumpInv ==
    TypeOK /\ DeliveryInOrder /\ RecordsBounded /\ NoStrandedProducer /\ NoStrandedWaiter

\* Every log() returns or throws: no producer stays in it for ever.
LogReturns == \A p \in Producers : []<>(producer[p] = "idle")

\* Every flush() returns.
FlushReturns == \A f \in Flushers : []<>(flusher[f].at \notin {"asleep", "woken"})

\* A shutdown that has begun returns.
ShutdownReturns == []<>(stopping => owner = "down")

\* No call on the logger hangs: a log() blocked on a full queue, a flush() and a
\* shutdown() all come back, whatever the sinks do.
CallsReturn == LogReturns /\ FlushReturns /\ ShutdownReturns
=============================================================================
