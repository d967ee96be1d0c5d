---------------------------- MODULE LoggerProofs ----------------------------
(***************************************************************************)
(* Logger writes what it accepted, in order and to every sink, before any  *)
(* flush() or shutdown() returns, for every number of producers, flushers, *)
(* sinks and records, every capacity and every interleaving.               *)
(*                                                                         *)
(* The runs' invariants are not inductive: they look at the logger between *)
(* two items, or when a call has returned.  The strengthening follows a    *)
(* record on its way: it is in the queue, in the pump's hands or handed to *)
(* the sink (Covered), never overtaken (InOrder); a flush marker has every *)
(* record accepted before it in front of it (Barrier), and a sink that was *)
(* flushed in this round has settled what left the queue (RoundSettled).   *)
(***************************************************************************)
EXTENDS Logger, FiniteSetTheorems, TLAPS

Resting == {"test", "asleep", "woken", "exited"}

IsRecord(x) == x.kind = "record" /\ x.number \in 1 .. accepted

IsMarker(x) == x.kind = "marker" /\ x.number \in 1 .. flush_requested

\* The queue holds records and flush markers, the pump one of them, or the
\* flush after the drain, as its place in pump_loop says; a delivery starts at
\* the first sink.
Places ==
    /\ \A i \in 1 .. Len(queue) : IsRecord(queue[i]) \/ IsMarker(queue[i])
    /\ pump = "notify_space" => IsRecord(item) \/ IsMarker(item)
    /\ pump \in {"render", "write"} => IsRecord(item)
    /\ pump = "render" => sink = 1
    /\ pump \in {"flush_sinks", "complete", "notify_flushed"} =>
           IsMarker(item) \/ item.kind = "final"

\* Once it is out of the loop the pump has nothing left to take, and nothing
\* is added.
OutOfLoop ==
    /\ item.kind = "final" \/ pump = "exited" => stopping /\ queue = << >>
    /\ pump = "exited" \/ (item.kind = "final" /\ pump = "notify_flushed") =>
           flush_completed = flush_requested

Queued(n) == \E i \in 1 .. Len(queue) : queue[i] = Record(n)

Handled(s, n) == n \in lost[s] \/ \E i \in 1 .. Len(written[s]) : written[s][i] = n

\* Sink s has not been given the pump's record yet.
Due(s) == pump = "write" => sink <= s

\* Every accepted record is in the queue, due to the sink, or handed to it.
Covered ==
    \A s \in Sinks, n \in 1 .. accepted :
        Queued(n) \/ Handled(s, n) \/ (item = Record(n) /\ Due(s))

\* Records leave the queue, and reach each sink, in the order of acceptance.
InOrder ==
    /\ \A i, j \in 1 .. Len(queue) :
           i < j /\ queue[i].kind = "record" /\ queue[j].kind = "record" =>
               queue[i].number < queue[j].number
    /\ \A i \in 1 .. Len(queue) : queue[i].kind = "record" =>
           /\ item.kind = "record" => item.number < queue[i].number
           /\ \A s \in Sinks : \A k \in 1 .. Len(written[s]) : written[s][k] < queue[i].number
    /\ item.kind = "record" =>
           \A s \in Sinks : Due(s) => \A k \in 1 .. Len(written[s]) : written[s][k] < item.number

\* Sink s was flushed in the round under way.
Done(s) == (pump = "flush_sinks" /\ s < sink) \/ pump \in {"complete", "notify_flushed"}

\* What left the queue is settled in the sinks flushed in this round.
RoundSettled ==
    \A s \in Sinks : Done(s) => \A n \in 1 .. accepted : Queued(n) \/ Settled(s, n)

\* No failure goes uncounted.
LossCounted == \A s \in Sinks : Cardinality(lost[s]) <= sink_failures

AllSettled(goal) == \A s \in Sinks, n \in 1 .. goal : Settled(s, n)

\* The records accepted before the call of flusher f are in front of its marker
\* and of every later one, and settled once its ticket has completed.
Barrier(f) ==
    /\ flusher[f].goal <= accepted /\ flusher[f].ticket <= flush_requested
    /\ flusher[f].at = "returned" => AllSettled(flusher[f].goal)
    /\ flusher[f].at \in {"asleep", "woken"} =>
           /\ flush_completed >= flusher[f].ticket => AllSettled(flusher[f].goal)
           /\ \A i, j \in 1 .. Len(queue) :
                  /\ i < j /\ queue[i].kind = "marker" /\ queue[i].number >= flusher[f].ticket
                  /\ queue[j].kind = "record"
                  => queue[j].number > flusher[f].goal
           /\ item.kind = "marker" /\ item.number >= flusher[f].ticket =>
                  \A j \in 1 .. Len(queue) :
                      queue[j].kind = "record" => queue[j].number > flusher[f].goal

\* When the pump has exited, all is settled and nobody sleeps in flush().
ExitSettled ==
    pump = "exited" => AllSettled(accepted) /\ \A f \in Flushers : flusher[f].at # "asleep"

\* Where the thread that shuts down is.
OwnerPlace == (owner = "up" <=> ~ stopping) /\ (owner = "down" => pump = "exited")

\* The part of TypeOK that is about records, markers and sinks, and what it
\* leaves open: the sinks' variables are functions on the sinks.
DataTypes ==
    /\ queue \in Seq(Items) /\ accepted \in Nat
    /\ flush_requested \in 0 .. MaxFlushes /\ flush_completed \in 0 .. flush_requested
    /\ sink_failures \in 0 .. MaxFailures
    /\ pump \in {"test", "asleep", "woken", "notify_space", "render", "write", "flush_sinks",
                 "complete", "notify_flushed", "exited"}
    /\ item \in Items /\ sink \in Sinks
    /\ item = NoItem <=> pump \in Resting
    /\ written \in [Sinks -> Seq(1 .. accepted)]
    /\ flushed \in [Sinks -> Nat] /\ \A s \in Sinks : flushed[s] <= Len(written[s])
    /\ lost \in [Sinks -> SUBSET (1 .. accepted)]

DataInv ==
    /\ DataTypes /\ Places /\ OutOfLoop /\ Covered /\ InOrder /\ DeliveryInOrder
    /\ RoundSettled /\ LossCounted /\ (\A f \in Flushers : Barrier(f)) /\ ExitSettled
    /\ RecordsBounded

LoggerIInv ==
    /\ TypeOK /\ DataInv /\ OwnerPlace /\ NoStrandedProducer /\ NoStrandedWaiter

-----------------------------------------------------------------------------
(* Sequences, index by index.                                              *)

\* An element is added behind the others.
LEMMA Appended ==
    ASSUME NEW S, NEW q \in Seq(S), NEW x \in S
    PROVE  /\ Append(q, x) \in Seq(S) /\ Len(Append(q, x)) = Len(q) + 1 /\ Len(q) \in Nat
           /\ \A i \in 1 .. Len(q) : Append(q, x)[i] = q[i]
           /\ Append(q, x)[Len(q) + 1] = x
OBVIOUS

\* The elements of a sequence are where it says.
LEMMA Elements ==
    ASSUME NEW S, NEW q \in Seq(S)
    PROVE  Len(q) \in Nat /\ \A i \in 1 .. Len(q) : q[i] \in S
OBVIOUS

\* A sequence over a set is one over a larger set.
LEMMA Widened ==
    ASSUME NEW S, NEW T, S \subseteq T, NEW q \in Seq(S)
    PROVE  q \in Seq(T)
OBVIOUS

\* The first element is taken, the others move up.
LEMMA Taken ==
    ASSUME NEW S, NEW q \in Seq(S), q # << >>
    PROVE  /\ Tail(q) \in Seq(S) /\ Len(Tail(q)) = Len(q) - 1 /\ Len(q) \in Nat \ {0}
           /\ Head(q) = q[1] /\ Head(q) \in S
           /\ \A i \in 1 .. Len(q) - 1 : Tail(q)[i] = q[i + 1]
OBVIOUS

-----------------------------------------------------------------------------
(* The steps, as far as records and markers go.                            *)

\* What one flusher may do: wake, sleep again, return, or be turned away.
FlusherMoves(x, y) ==
    \/ y = x
    \/ /\ x.at \in {"asleep", "woken"} /\ y.at \in {"asleep", "woken"}
       /\ y.ticket = x.ticket /\ y.goal = x.goal
       /\ y.at = "asleep" => x.at = "asleep" \/ flush_completed < x.ticket
    \/ /\ x.at = "woken" /\ y.at = "returned" /\ flush_completed >= x.ticket
       /\ y.ticket = x.ticket /\ y.goal = x.goal
    \/ y.at = "returned_stopping" /\ y.ticket = 0 /\ y.goal = accepted

\* Nothing moves that the sinks or the queue could tell.
Rests ==
    /\ UNCHANGED <<queue, accepted, item, sink, outputs, flush_requested, flush_completed>>
    /\ pump' = pump \/ (pump \in {"test", "asleep", "woken"} /\ pump' \in {"test", "asleep", "woken"})
    /\ stopping => stopping'
    /\ \A f \in Flushers : FlusherMoves(flusher[f], flusher'[f])

\* A record is accepted, from a producer or from a sink.
Accepts ==
    /\ PushRecord /\ ~ stopping /\ ~ Full
    /\ UNCHANGED <<flusher, pump, item, sink, outputs>>

\* Every step is a rest, an acceptance, a request of a flush, or the pump's.
LEMMA StepKinds ==
    ASSUME TypeOK, [Next]_vars
    PROVE  \/ Rests \/ Accepts \/ (\E f \in Flushers : FlushRequest(f))
           \/ PumpTake \/ PumpDrained \/ PumpNotifySpace \/ DeliverRender \/ DeliverRenderFails
           \/ DeliverWrite \/ DeliverWriteFails \/ FlushSink \/ FlushComplete \/ FlushNotify
<1>0. flusher \in [Flushers -> [at : {"idle", "asleep", "woken", "returned", "returned_stopping"},
                                ticket : 0 .. MaxFlushes, goal : Nat]]
  BY DEF TypeOK
<1>1. UNCHANGED flusher => \A f \in Flushers : FlusherMoves(flusher[f], flusher'[f])
  BY DEF FlusherMoves
<1>2. CASE UNCHANGED vars
  BY <1>1, <1>2 DEF vars, monitor, threads, Rests, outputs
<1>3. ASSUME NEW level, SetLevel(level) PROVE Rests
  BY <1>1, <1>3 DEF SetLevel, monitor, threads, Rests
<1>4. ASSUME NEW p \in Producers, Log(p) \/ ProducerStep(p) PROVE Rests \/ Accepts
  <2>1. CASE Log(p) \/ EnqueueRefused(p) \/ EnqueueDropped(p) \/ EnqueueWaits(p)
    BY <1>1, <2>1 DEF Log, EnqueueRefused, EnqueueDropped, EnqueueWaits, monitor, Rests
  <2>2. CASE Enqueue(p)
    BY <2>2 DEF Enqueue, Accepts
  <2>3. CASE EnqueueNotify(p)
    BY <1>1, <2>3 DEF EnqueueNotify, WakePump, monitor, Rests
  <2>4. QED BY <1>4, <2>1, <2>2, <2>3 DEF ProducerStep
<1>5. ASSUME NEW f \in Flushers, FlushWhenStopping(f) \/ FlushTest(f) PROVE Rests
  <2>1. UNCHANGED <<queue, accepted, item, sink, outputs, flush_requested, flush_completed, pump, stopping>>
    BY <1>5 DEF FlushWhenStopping, FlushTest, monitor
  <2>2. \A g \in Flushers : FlusherMoves(flusher[g], flusher'[g])
    <3>1. CASE FlushWhenStopping(f)
      BY <1>0, <3>1 DEF FlushWhenStopping, FlusherMoves
    <3>2. CASE FlushTest(f) /\ flush_completed >= flusher[f].ticket
      BY <1>0, <3>2 DEF FlushTest, FlusherMoves
    <3>3. CASE FlushTest(f) /\ ~ (flush_completed >= flusher[f].ticket)
      <4>1. flush_completed < flusher[f].ticket
        BY <1>0, <3>3 DEF TypeOK
      <4>2. QED BY <1>0, <3>3, <4>1 DEF FlushTest, FlusherMoves
    <3>4. QED BY <1>5, <3>1, <3>2, <3>3
  <2>3. QED BY <2>1, <2>2 DEF Rests
<1>6. CASE ShutdownStart \/ ShutdownStep
  BY <1>1, <1>6 DEF ShutdownStart, ShutdownStep, ShutdownNotifyPump, ShutdownNotifyProducers,
                    ShutdownJoined, WakePump, monitor, Rests
<1>7. CASE PumpSleep
  BY <1>1, <1>7 DEF PumpSleep, monitor, others, Rests
<1>8. CASE ReentrantLog
  <2>1. CASE ~ Full /\ PushRecord
    BY <1>8, <2>1 DEF ReentrantLog, threads, Accepts
  <2>2. CASE UNCHANGED <<monitor, accepted>>
    BY <1>1, <1>8, <2>2 DEF ReentrantLog, monitor, threads, Rests
  <2>3. QED BY <1>8, <2>1, <2>2 DEF ReentrantLog
<1>9. CASE SpuriousWakeup
  <2>1. CASE pump = "asleep" /\ pump' = "woken" /\ UNCHANGED <<monitor, others, item, sink, outputs>>
    BY <1>1, <2>1 DEF monitor, others, Rests
  <2>2. CASE UNCHANGED <<monitor, accepted, flusher, pump, item, sink, outputs>>
    BY <1>1, <2>2 DEF monitor, Rests
  <2>3. ASSUME NEW f \in Flushers, flusher[f].at = "asleep",
               flusher' = [flusher EXCEPT ![f].at = "woken"],
               UNCHANGED <<monitor, accepted, pump, item, sink, outputs>>
        PROVE  Rests
    <3>1. \A g \in Flushers : FlusherMoves(flusher[g], flusher'[g])
      BY <1>0, <2>3 DEF FlusherMoves
    <3>2. QED BY <2>3, <3>1 DEF monitor, Rests
  <2>4. QED BY <1>9, <2>1, <2>2, <2>3 DEF SpuriousWakeup
<1>10. QED BY <1>2, <1>3, <1>4, <1>5, <1>6, <1>7, <1>8, <1>9 DEF Next, PumpStep

-----------------------------------------------------------------------------
(* Types.                                                                  *)

FlusherRecords ==
    [at : {"idle", "asleep", "woken", "returned", "returned_stopping"},
     ticket : 0 .. MaxFlushes, goal : Nat]

\* The threads' own variables keep their types.
LEMMA ThreadsTyped ==
    ASSUME TypeOK, [Next]_vars
    PROVE  /\ policy' \in Policies /\ min_level' \in {"trace", "off"} /\ stopping' \in BOOLEAN
           /\ dropped' \in Nat
           /\ producer' \in [Producers -> {"idle", "enqueue", "asleep", "woken", "notify"}]
           /\ flusher' \in [Flushers -> FlusherRecords]
           /\ owner' \in {"up", "notify_records", "notify_space", "joining", "down"}
<1> DEFINE Labels == {"idle", "enqueue", "asleep", "woken", "notify"}
           Fine  == /\ policy' \in Policies /\ min_level' \in {"trace", "off"}
                    /\ stopping' \in BOOLEAN /\ dropped' \in Nat
                    /\ producer' \in [Producers -> Labels]
                    /\ flusher' \in [Flushers -> FlusherRecords]
                    /\ owner' \in {"up", "notify_records", "notify_space", "joining", "down"}
<1>0. /\ policy \in Policies /\ min_level \in {"trace", "off"} /\ stopping \in BOOLEAN
      /\ dropped \in Nat /\ producer \in [Producers -> Labels]
      /\ flusher \in [Flushers -> FlusherRecords]
      /\ owner \in {"up", "notify_records", "notify_space", "joining", "down"}
      /\ accepted \in Nat /\ flush_requested \in 0 .. MaxFlushes
  BY DEF TypeOK, FlusherRecords
<1>1. CASE UNCHANGED vars
  BY <1>0, <1>1 DEF vars, monitor, threads
<1>2. ASSUME NEW level \in {"trace", "off"}, SetLevel(level) PROVE Fine
  BY <1>0, <1>2 DEF SetLevel, monitor, threads
<1>3. ASSUME NEW p \in Producers, Log(p) \/ ProducerStep(p) PROVE Fine
  <2>1. \A label \in Labels : ProducerGoto(p, label) => producer' \in [Producers -> Labels]
    BY <1>0 DEF ProducerGoto
  <2>2. producer' \in [Producers -> Labels]
    BY <1>3, <2>1 DEF Log, ProducerStep, Enqueue, EnqueueRefused, EnqueueDropped, EnqueueWaits,
                      EnqueueNotify
  <2>3. UNCHANGED <<policy, min_level, stopping, flusher, owner>>
    BY <1>3 DEF Log, ProducerStep, Enqueue, EnqueueRefused, EnqueueDropped, EnqueueWaits,
                EnqueueNotify, PushRecord, monitor
  <2>4. dropped' \in Nat
    BY <1>0, <1>3 DEF Log, ProducerStep, Enqueue, EnqueueRefused, EnqueueDropped, EnqueueWaits,
                      EnqueueNotify
  <2>5. QED BY <1>0, <2>2, <2>3, <2>4
<1>4. ASSUME NEW f \in Flushers, FlushRequest(f) \/ FlushWhenStopping(f) \/ FlushTest(f)
      PROVE  Fine
  <2>1. UNCHANGED <<policy, min_level, stopping, dropped, producer, owner>>
    BY <1>4 DEF FlushRequest, FlushWhenStopping, FlushTest, monitor
  <2>2. flusher' \in [Flushers -> FlusherRecords]
    <3>1. CASE FlushRequest(f)
      <4>1. flush_requested + 1 \in 0 .. MaxFlushes
        BY <1>0, <3>1, LoggerAssumption DEF FlushRequest
      <4>2. QED BY <1>0, <3>1, <4>1 DEF FlushRequest, FlusherRecords
    <3>2. CASE FlushWhenStopping(f)
      <4>1. 0 \in 0 .. MaxFlushes
        BY LoggerAssumption
      <4>2. QED BY <1>0, <3>2, <4>1 DEF FlushWhenStopping, FlusherRecords
    <3>3. CASE FlushTest(f)
      BY <1>0, <3>3 DEF FlushTest, FlusherRecords
    <3>4. QED BY <1>4, <3>1, <3>2, <3>3
  <2>3. QED BY <1>0, <2>1, <2>2
<1>5. CASE ShutdownStart \/ ShutdownStep
  BY <1>0, <1>5 DEF ShutdownStart, ShutdownStep, ShutdownNotifyPump, ShutdownNotifyProducers,
                    ShutdownJoined, monitor
<1>6. CASE PumpStep
  <2>1. UNCHANGED <<policy, min_level, stopping, dropped, owner>>
    BY <1>6 DEF PumpStep, PumpSleep, PumpTake, PumpDrained, PumpNotifySpace, DeliverRender,
                DeliverRenderFails, DeliverWrite, DeliverWriteFails, FlushSink, FlushComplete,
                FlushNotify, monitor, others
  <2>2. CASE PumpNotifySpace
    <3>1. UNCHANGED flusher /\ NotifySpace
      BY <2>2 DEF PumpNotifySpace
    <3>2. producer' \in [Producers -> Labels]
      BY <1>0, <3>1 DEF NotifySpace, ProducersAt, ProducerGoto
    <3>3. QED BY <1>0, <2>1, <3>1, <3>2
  <2>3. CASE FlushNotify
    <3>1. UNCHANGED producer /\ flusher' \in [Flushers -> FlusherRecords]
      BY <1>0, <2>3 DEF FlushNotify, FlusherRecords
    <3>2. QED BY <1>0, <2>1, <3>1
  <2>4. CASE ~ PumpNotifySpace /\ ~ FlushNotify
    <3>1. UNCHANGED <<producer, flusher>>
      BY <1>6, <2>4 DEF PumpStep, PumpSleep, PumpTake, PumpDrained, DeliverRender,
                        DeliverRenderFails, DeliverWrite, DeliverWriteFails, FlushSink,
                        FlushComplete, others
    <3>2. QED BY <1>0, <2>1, <3>1
  <2>5. QED BY <2>2, <2>3, <2>4
<1>7. CASE ReentrantLog
  BY <1>0, <1>7 DEF ReentrantLog, PushRecord, monitor, threads
<1>8. CASE SpuriousWakeup
  <2>1. UNCHANGED <<policy, min_level, stopping, dropped, owner>>
    BY <1>8 DEF SpuriousWakeup, monitor, others
  <2>2. producer' \in [Producers -> Labels]
    BY <1>0, <1>8 DEF SpuriousWakeup, others, ProducersAt, ProducerGoto
  <2>3. flusher' \in [Flushers -> FlusherRecords]
    BY <1>0, <1>8 DEF SpuriousWakeup, others, FlusherRecords
  <2>4. QED BY <1>0, <2>1, <2>2, <2>3
<1>9. QED BY <1>1, <1>2, <1>3, <1>4, <1>5, <1>6, <1>7, <1>8 DEF Next

-----------------------------------------------------------------------------
(* Records and markers, one kind of step at a time.                        *)

\* Arithmetic facts the steps share.
LEMMA Numbers ==
    ASSUME DataInv
    PROVE  /\ accepted \in Nat /\ Len(queue) \in Nat /\ sink \in Nat /\ NumSinks \in Nat \ {0}
           /\ \A s \in Sinks : s \in Nat /\ Len(written[s]) \in Nat /\ flushed[s] \in 0 .. Len(written[s])
           /\ \A s \in Sinks : \A k \in 1 .. Len(written[s]) : written[s][k] \in 1 .. accepted
           /\ \A i \in 1 .. Len(queue) : queue[i] \in Items /\ queue[i].number \in Nat
<1>1. DataTypes
  BY DEF DataInv
<1>2. accepted \in Nat /\ Len(queue) \in Nat /\ NumSinks \in Nat \ {0}
  BY <1>1, LoggerAssumption DEF DataTypes
<1>3. sink \in Nat /\ \A s \in Sinks : s \in Nat
  BY <1>1, <1>2 DEF DataTypes, Sinks
<1>4. \A s \in Sinks : written[s] \in Seq(1 .. accepted) /\ flushed[s] \in Nat /\ flushed[s] <= Len(written[s])
  BY <1>1 DEF DataTypes
<1>5. \A s \in Sinks : \A k \in 1 .. Len(written[s]) : written[s][k] \in 1 .. accepted
  BY <1>4, Elements
<1>6. \A s \in Sinks : Len(written[s]) \in Nat /\ flushed[s] \in 0 .. Len(written[s])
  BY <1>4
<1>7. \A i \in 1 .. Len(queue) : queue[i] \in Items /\ queue[i].number \in Nat
  <2>1. \A i \in 1 .. Len(queue) : queue[i] \in Items
    BY <1>1, Elements DEF DataTypes
  <2>2. QED BY <2>1 DEF Items
<1>8. QED BY <1>2, <1>3, <1>5, <1>6, <1>7

\* What is settled stays settled: sinks only write on, and flush.
LEMMA SettledKept ==
    ASSUME NEW s, NEW n, Settled(s, n), lost[s] \subseteq lost'[s],
           flushed[s] \in Nat, flushed'[s] \in Nat, flushed[s] <= flushed'[s],
           \A i \in 1 .. flushed[s] : written'[s][i] = written[s][i]
    PROVE  Settled(s, n)'
BY DEF Settled

\* Steps that do not touch the sinks keep what is settled.
LEMMA OutputsKept ==
    ASSUME UNCHANGED <<written, flushed, lost>>
    PROVE  /\ \A s, n : Settled(s, n)' <=> Settled(s, n)
           /\ \A s, n : Handled(s, n)' <=> Handled(s, n)
BY DEF Settled, Handled

\* A step that only moves threads.
LEMMA RestsKeep ==
    ASSUME DataInv, flusher \in [Flushers -> FlusherRecords], Rests
    PROVE  DataInv'
<1>1. UNCHANGED <<queue, accepted, item, sink, written, flushed, lost, sink_failures,
                  flush_requested, flush_completed>>
  BY DEF Rests, outputs
<1>2. pump' # pump => /\ pump \in {"test", "asleep", "woken"} /\ pump' \in {"test", "asleep", "woken"}
                      /\ item.kind = "none"
  BY DEF Rests, DataInv, DataTypes, NoItem, Resting
<1>3. DataTypes'
  BY <1>1, <1>2 DEF DataInv, DataTypes, Resting, Items, Sinks
<1>4. Places' /\ OutOfLoop'
  BY <1>1, <1>2 DEF DataInv, Places, OutOfLoop, Rests, IsRecord, IsMarker
<1>5. Covered'
  <2>1. \A s : Due(s)' <=> Due(s)
    BY <1>1, <1>2 DEF Due
  <2>2. QED BY <1>1, <2>1, OutputsKept DEF DataInv, Covered, Queued, Sinks
<1>6. InOrder' /\ DeliveryInOrder' /\ LossCounted' /\ RecordsBounded'
  BY <1>1, <1>2 DEF DataInv, InOrder, DeliveryInOrder, LossCounted, RecordsBounded, Due, Sinks
<1>7. RoundSettled'
  <2>1. \A s : Done(s)' <=> Done(s)
    BY <1>1, <1>2 DEF Done
  <2>2. QED BY <1>1, <2>1, OutputsKept DEF DataInv, RoundSettled, Queued, Sinks
<1>8. \A goal : AllSettled(goal)' <=> AllSettled(goal)
  BY <1>1, OutputsKept DEF AllSettled, Sinks
<1>9. ASSUME NEW f \in Flushers PROVE Barrier(f)'
  <2>1. Barrier(f) /\ FlusherMoves(flusher[f], flusher'[f]) /\ flusher[f] \in FlusherRecords
    BY DEF DataInv, Rests
  <2>2. CASE flusher'[f] = flusher[f]
    BY <1>1, <1>8, <2>1, <2>2 DEF Barrier
  <2>3. CASE /\ flusher[f].at \in {"asleep", "woken"} /\ flusher'[f].at \in {"asleep", "woken"}
             /\ flusher'[f].ticket = flusher[f].ticket /\ flusher'[f].goal = flusher[f].goal
    BY <1>1, <1>8, <2>1, <2>3 DEF Barrier
  <2>4. CASE /\ flusher[f].at = "woken" /\ flusher'[f].at = "returned"
             /\ flush_completed >= flusher[f].ticket
             /\ flusher'[f].ticket = flusher[f].ticket /\ flusher'[f].goal = flusher[f].goal
    BY <1>1, <1>8, <2>1, <2>4 DEF Barrier
  <2>5. CASE flusher'[f].at = "returned_stopping" /\ flusher'[f].ticket = 0 /\ flusher'[f].goal = accepted
    BY <1>1, <2>5 DEF Barrier, DataInv, DataTypes
  <2>6. QED BY <2>1, <2>2, <2>3, <2>4, <2>5 DEF FlusherMoves
<1>10. ExitSettled'
  <2> SUFFICES ASSUME pump' = "exited"
               PROVE  AllSettled(accepted)' /\ \A f \in Flushers : flusher'[f].at # "asleep"
    BY <1>1, <1>8 DEF ExitSettled
  <2>1. pump = "exited"
    BY <1>2
  <2>2. AllSettled(accepted) /\ \A f \in Flushers : flusher[f].at # "asleep"
    BY <2>1 DEF DataInv, ExitSettled
  <2>3. flush_completed = flush_requested
    BY <2>1 DEF DataInv, OutOfLoop
  <2>4. ASSUME NEW f \in Flushers PROVE flusher'[f].at # "asleep"
    <3>1. Barrier(f) /\ FlusherMoves(flusher[f], flusher'[f]) /\ flusher[f] \in FlusherRecords
      BY DEF DataInv, Rests
    <3>2. flusher[f].ticket <= flush_completed /\ flusher[f].ticket \in Nat /\ flush_completed \in Nat
      BY <2>3, <3>1 DEF Barrier, FlusherRecords, DataInv, DataTypes
    <3>3. ~ (flush_completed < flusher[f].ticket)
      BY <3>2
    <3>4. QED BY <2>2, <3>1, <3>3 DEF FlusherMoves
  <2>5. AllSettled(accepted)'
    BY <1>1, <1>8, <2>2
  <2>6. QED BY <2>4, <2>5
<1>11. QED BY <1>3, <1>4, <1>5, <1>6, <1>7, <1>9, <1>10 DEF DataInv

\* What an element added to the queue means for the indices.
LEMMA QueueGrows ==
    ASSUME DataInv, NEW x \in Items, queue' = Append(queue, x)
    PROVE  /\ queue' \in Seq(Items) /\ Len(queue') = Len(queue) + 1 /\ Len(queue) \in Nat
           /\ \A i \in 1 .. Len(queue) : queue'[i] = queue[i]
           /\ queue'[Len(queue) + 1] = x
           /\ \A i \in 1 .. Len(queue') : i \in 1 .. Len(queue) \/ i = Len(queue) + 1
           /\ \A n : Queued(n) => Queued(n)'
<1>1. queue \in Seq(Items)
  BY DEF DataInv, DataTypes
<1>2. /\ queue' \in Seq(Items) /\ Len(queue') = Len(queue) + 1 /\ Len(queue) \in Nat
      /\ \A i \in 1 .. Len(queue) : queue'[i] = queue[i]
      /\ queue'[Len(queue) + 1] = x
  BY <1>1, Appended
<1>3. \A i \in 1 .. Len(queue') : i \in 1 .. Len(queue) \/ i = Len(queue) + 1
  BY <1>2
<1>4. \A n : Queued(n) => Queued(n)'
  <2> SUFFICES ASSUME NEW n, NEW i \in 1 .. Len(queue), queue[i] = Record(n)
               PROVE  \E j \in 1 .. Len(queue') : queue'[j] = Record(n)
    BY DEF Queued, Record
  <2>1. i \in 1 .. Len(queue') /\ queue'[i] = Record(n)
    BY <1>2
  <2>2. QED BY <2>1
<1>5. QED BY <1>2, <1>3, <1>4

\* A record is accepted: it is behind every other, and behind every marker.
LEMMA AcceptsKeep ==
    ASSUME DataInv, flusher \in [Flushers -> FlusherRecords], Accepts
    PROVE  DataInv'
<1>a. PICK total, x, last : total = accepted /\ x = Record(accepted + 1) /\ last = Len(queue) + 1
  OBVIOUS
<1>0. /\ accepted \in Nat /\ accepted' = accepted + 1 /\ queue' = Append(queue, x)
      /\ UNCHANGED <<flusher, pump, item, sink, written, flushed, lost, sink_failures,
                     flush_requested, flush_completed, stopping>>
      /\ ~ stopping /\ Len(queue) < Capacity
  BY <1>a, LoggerAssumption DEF Accepts, PushRecord, outputs, Full, DataInv, DataTypes
<1>1. x \in Items /\ x.kind = "record" /\ x.number = accepted + 1
  BY <1>0, <1>a DEF Record, Items
<1>2. /\ queue' \in Seq(Items) /\ Len(queue') = last /\ Len(queue) \in Nat
      /\ \A i \in 1 .. Len(queue) : queue'[i] = queue[i]
      /\ queue'[last] = x
      /\ \A i \in 1 .. Len(queue') : i \in 1 .. Len(queue) \/ i = last
      /\ \A n : Queued(n) => Queued(n)'
  BY <1>0, <1>1, <1>a, QueueGrows
<1>3. /\ \A n \in 1 .. accepted' : n \in 1 .. accepted \/ n = total + 1
      /\ \A n \in 1 .. accepted : n \in 1 .. accepted'
      /\ Queued(total + 1)' /\ last \in 1 .. Len(queue')
  <2>1. last \in 1 .. Len(queue')
    BY <1>2, <1>a
  <2>2. queue'[last] = Record(total + 1)
    BY <1>2, <1>a
  <2>3. Queued(total + 1)'
    BY <2>1, <2>2 DEF Queued, Record
  <2>4. QED BY <1>0, <1>a, <2>1, <2>3
<1>4. DataTypes'
  <2>1. written' \in [Sinks -> Seq(1 .. accepted')]
    <3>1. \A s \in Sinks : written[s] \in Seq(1 .. accepted)
      BY DEF DataInv, DataTypes
    <3>2. \A s \in Sinks : written[s] \in Seq(1 .. accepted')
      BY <1>3, <3>1, Widened
    <3>3. QED BY <1>0, <3>2 DEF DataInv, DataTypes
  <2>2. lost' \in [Sinks -> SUBSET (1 .. accepted')]
    BY <1>0, <1>3 DEF DataInv, DataTypes
  <2>3. QED BY <1>0, <1>2, <2>1, <2>2 DEF DataInv, DataTypes, Sinks, Items
<1>5. Places'
  <2>1. \A y : (IsRecord(y) => IsRecord(y)') /\ (IsMarker(y) => IsMarker(y)')
    BY <1>0, <1>3 DEF IsRecord, IsMarker
  <2>2. IsRecord(x)'
    BY <1>0, <1>1 DEF IsRecord
  <2>3. (\A i \in 1 .. Len(queue) : IsRecord(queue[i]) \/ IsMarker(queue[i]))'
    <3> SUFFICES ASSUME NEW i \in 1 .. Len(queue') PROVE (IsRecord(queue[i]) \/ IsMarker(queue[i]))'
      OBVIOUS
    <3>1. CASE i = last
      BY <1>2, <2>2, <3>1 DEF IsRecord
    <3>2. CASE i \in 1 .. Len(queue)
      BY <1>0, <1>2, <1>3, <3>2 DEF DataInv, Places, IsRecord, IsMarker
    <3>3. QED BY <1>2, <3>1, <3>2
  <2>4. QED BY <1>0, <1>3, <2>3 DEF DataInv, Places, IsRecord, IsMarker
<1>6. OutOfLoop' /\ ExitSettled' /\ LossCounted' /\ DeliveryInOrder'
  BY <1>0 DEF DataInv, OutOfLoop, ExitSettled, LossCounted, DeliveryInOrder, Sinks
<1>7. Covered'
  <2>1. \A s : Due(s)' <=> Due(s)
    BY <1>0 DEF Due
  <2>2. ASSUME NEW s \in Sinks, NEW n \in 1 .. accepted'
        PROVE  Queued(n)' \/ Handled(s, n)' \/ (item' = Record(n) /\ Due(s)')
    <3>1. CASE n = total + 1
      BY <1>3, <3>1
    <3>2. CASE n \in 1 .. accepted
      <4>1. Queued(n) \/ Handled(s, n) \/ (item = Record(n) /\ Due(s))
        BY <3>2 DEF DataInv, Covered
      <4>2. Handled(s, n) => Handled(s, n)'
        BY <1>0, OutputsKept
      <4>3. QED BY <1>0, <1>2, <2>1, <4>1, <4>2
    <3>3. QED BY <1>3, <3>1, <3>2
  <2>3. QED BY <2>2 DEF Covered, Sinks, Record
<1>8. InOrder'
  <2>1. \A i \in 1 .. Len(queue) : queue[i].kind = "record" => queue[i].number \in 1 .. accepted
    BY DEF DataInv, Places, IsRecord, IsMarker
  <2>2. item.kind = "record" => item.number \in 1 .. accepted
    BY DEF DataInv, Places, IsRecord, IsMarker, DataTypes, NoItem, Resting
  <2>3. \A s \in Sinks : \A k \in 1 .. Len(written[s]) : written[s][k] \in 1 .. accepted
    BY Numbers
  <2>4. \A i, j \in 1 .. Len(queue') :
           i < j /\ queue'[i].kind = "record" /\ queue'[j].kind = "record" =>
               queue'[i].number < queue'[j].number
    <3> SUFFICES ASSUME NEW i \in 1 .. Len(queue'), NEW j \in 1 .. Len(queue'), i < j,
                        queue'[i].kind = "record", queue'[j].kind = "record"
                 PROVE  queue'[i].number < queue'[j].number
      OBVIOUS
    <3>1. i \in 1 .. Len(queue)
      BY <1>2, <1>a
    <3>2. CASE j = last
      BY <1>0, <1>1, <1>2, <2>1, <3>1, <3>2
    <3>3. CASE j \in 1 .. Len(queue)
      BY <1>2, <3>1, <3>3 DEF DataInv, InOrder
    <3>4. QED BY <1>2, <3>2, <3>3
  <2>5. ASSUME NEW i \in 1 .. Len(queue'), queue'[i].kind = "record"
        PROVE  /\ item'.kind = "record" => item'.number < queue'[i].number
               /\ \A s \in Sinks : \A k \in 1 .. Len(written'[s]) : written'[s][k] < queue'[i].number
    <3>1. CASE i = last
      BY <1>0, <1>1, <1>2, <2>2, <2>3, <3>1
    <3>2. CASE i \in 1 .. Len(queue)
      BY <1>0, <1>2, <2>5, <3>2 DEF DataInv, InOrder
    <3>3. QED BY <1>2, <3>1, <3>2
  <2>6. (item.kind = "record" =>
           \A s \in Sinks : Due(s) => \A k \in 1 .. Len(written[s]) : written[s][k] < item.number)'
    BY <1>0 DEF DataInv, InOrder, Due, Sinks
  <2>7. QED BY <2>4, <2>5, <2>6 DEF InOrder, Sinks
<1>9. RoundSettled'
  <2>1. \A s : Done(s)' <=> Done(s)
    BY <1>0 DEF Done
  <2>2. ASSUME NEW s \in Sinks, Done(s)', NEW n \in 1 .. accepted'
        PROVE  Queued(n)' \/ Settled(s, n)'
    <3>1. CASE n = total + 1
      BY <1>3, <3>1
    <3>2. CASE n \in 1 .. accepted
      <4>1. Queued(n) \/ Settled(s, n)
        BY <2>1, <2>2, <3>2 DEF DataInv, RoundSettled
      <4>2. Settled(s, n) => Settled(s, n)'
        BY <1>0, OutputsKept
      <4>3. QED BY <1>2, <4>1, <4>2
    <3>3. QED BY <1>3, <3>1, <3>2
  <2>3. QED BY <2>2 DEF RoundSettled, Sinks
<1>10. ASSUME NEW f \in Flushers PROVE Barrier(f)'
  <2>0. Barrier(f) /\ flusher[f] \in FlusherRecords /\ flusher'[f] = flusher[f]
    BY <1>0 DEF DataInv
  <2>1. flusher[f].goal \in Nat /\ flusher[f].goal <= accepted
    BY <2>0 DEF Barrier, FlusherRecords
  <2>2. \A goal : AllSettled(goal)' <=> AllSettled(goal)
    BY <1>0, OutputsKept DEF AllSettled, Sinks
  <2>3. x.number > flusher[f].goal /\ flusher[f].goal <= accepted'
    BY <1>0, <1>1, <2>1
  <2>4. ASSUME flusher[f].at \in {"asleep", "woken"},
               NEW i \in 1 .. Len(queue'), NEW j \in 1 .. Len(queue'), i < j,
               queue'[i].kind = "marker", queue'[i].number >= flusher[f].ticket,
               queue'[j].kind = "record"
        PROVE  queue'[j].number > flusher[f].goal
    <3>1. CASE j = last
      BY <1>2, <2>3, <3>1
    <3>2. CASE j \in 1 .. Len(queue)
      <4>1. i \in 1 .. Len(queue)
        BY <1>2, <1>a, <2>4, <3>2
      <4>2. QED BY <1>2, <2>0, <2>4, <3>2, <4>1 DEF Barrier
    <3>3. QED BY <1>2, <3>1, <3>2
  <2>5. ASSUME flusher[f].at \in {"asleep", "woken"},
               item.kind = "marker", item.number >= flusher[f].ticket,
               NEW j \in 1 .. Len(queue'), queue'[j].kind = "record"
        PROVE  queue'[j].number > flusher[f].goal
    <3>1. CASE j = last
      BY <1>2, <2>3, <3>1
    <3>2. CASE j \in 1 .. Len(queue)
      BY <1>2, <2>0, <2>5, <3>2 DEF Barrier
    <3>3. QED BY <1>2, <3>1, <3>2
  <2>6. QED BY <1>0, <2>0, <2>2, <2>3, <2>4, <2>5 DEF Barrier
<1>11. RecordsBounded'
  <2> DEFINE R == {i \in 1 .. Len(queue') : queue'[i].kind = "record"}
  <2>1. Len(queue') \in Nat /\ Len(queue') <= Capacity
    BY <1>0, <1>2, <1>a, LoggerAssumption
  <2>2. IsFiniteSet(1 .. Len(queue')) /\ Cardinality(1 .. Len(queue')) = Len(queue')
    <3>1. 1 \in Int /\ Len(queue') \in Int /\ ~ (1 > Len(queue')) /\ Len(queue') - 1 + 1 = Len(queue')
      BY <1>2, <1>a
    <3>2. QED BY <3>1, FS_Interval
  <2>3. R \subseteq 1 .. Len(queue')
    OBVIOUS
  <2> HIDE DEF R
  <2>4. Cardinality(R) <= Len(queue') /\ Cardinality(R) \in Nat
    BY <2>2, <2>3, FS_Subset, FS_CardinalityType
  <2>5. Cardinality(R) <= Capacity
    BY <2>1, <2>4, LoggerAssumption
  <2>6. QED BY <2>5 DEF RecordsBounded, R
<1>12. QED BY <1>4, <1>5, <1>6, <1>7, <1>8, <1>9, <1>10, <1>11 DEF DataInv

\* A flush is requested: its marker is behind every record accepted so far.
LEMMA FlushRequestKeeps ==
    ASSUME DataInv, flusher \in [Flushers -> FlusherRecords], NEW f \in Flushers, FlushRequest(f)
    PROVE  DataInv'
<1>a. PICK x, last : x = FlushMarker(flush_requested + 1) /\ last = Len(queue) + 1
  OBVIOUS
<1>0. /\ queue' = Append(queue, x) /\ flush_requested' = flush_requested + 1
      /\ UNCHANGED <<accepted, item, sink, written, flushed, lost, sink_failures,
                     flush_completed, stopping>>
      /\ ~ stopping /\ flush_requested < MaxFlushes
      /\ pump' = IF pump = "asleep" THEN "woken" ELSE pump
  BY <1>a DEF FlushRequest, QueueMarker, WakePump, outputs
<1>1. flush_requested \in Nat /\ flush_completed \in Nat /\ flush_completed <= flush_requested
  BY LoggerAssumption DEF DataInv, DataTypes
<1>2. x \in Items /\ x.kind = "marker" /\ x.number = flush_requested + 1
  BY <1>1, <1>a DEF FlushMarker, Items
<1>3. /\ queue' \in Seq(Items) /\ Len(queue') = last /\ Len(queue) \in Nat
      /\ \A i \in 1 .. Len(queue) : queue'[i] = queue[i]
      /\ queue'[last] = x
      /\ \A i \in 1 .. Len(queue') : i \in 1 .. Len(queue) \/ i = last
      /\ \A n : Queued(n) => Queued(n)'
  BY <1>0, <1>2, <1>a, QueueGrows
<1>4. \A i \in 1 .. Len(queue') : queue'[i].kind = "record" => i \in 1 .. Len(queue)
  BY <1>2, <1>3
<1>5. DataTypes'
  <2>1. flush_requested' \in 0 .. MaxFlushes /\ flush_completed' \in 0 .. flush_requested'
    BY <1>0, <1>1, LoggerAssumption
  <2>2. pump' \in {"test", "asleep", "woken", "notify_space", "render", "write", "flush_sinks",
                   "complete", "notify_flushed", "exited"}
    BY <1>0 DEF DataInv, DataTypes
  <2>3. (item = NoItem <=> pump \in Resting)'
    BY <1>0 DEF DataInv, DataTypes, Resting, NoItem
  <2>4. QED BY <1>0, <1>3, <2>1, <2>2, <2>3 DEF DataInv, DataTypes, Sinks, Items
<1>6. Places'
  <2>1. \A i \in 1 .. flush_requested : i \in 1 .. flush_requested'
    BY <1>0, <1>1
  <2>2. (\A i \in 1 .. Len(queue) : IsRecord(queue[i]) \/ IsMarker(queue[i]))'
    <3> SUFFICES ASSUME NEW i \in 1 .. Len(queue') PROVE (IsRecord(queue[i]) \/ IsMarker(queue[i]))'
      OBVIOUS
    <3>1. CASE i = last
      BY <1>0, <1>1, <1>2, <1>3, <3>1 DEF IsMarker
    <3>2. CASE i \in 1 .. Len(queue)
      BY <1>0, <1>3, <2>1, <3>2 DEF DataInv, Places, IsRecord, IsMarker
    <3>3. QED BY <1>3, <3>1, <3>2
  <2>3. QED BY <1>0, <2>1, <2>2 DEF DataInv, Places, IsRecord, IsMarker
<1>7. ~ (pump = "exited") /\ item.kind # "final"
  BY <1>0 DEF DataInv, OutOfLoop
<1>8. OutOfLoop' /\ ExitSettled'
  BY <1>0, <1>7 DEF OutOfLoop, ExitSettled
<1>9. LossCounted' /\ DeliveryInOrder'
  BY <1>0 DEF DataInv, LossCounted, DeliveryInOrder, Sinks
<1>10. Covered'
  <2>1. \A s : Due(s)' <=> Due(s)
    BY <1>0 DEF Due
  <2>2. QED BY <1>0, <1>3, <2>1, OutputsKept DEF DataInv, Covered, Sinks, Record
<1>11. InOrder'
  <2>1. \A i, j \in 1 .. Len(queue') :
           i < j /\ queue'[i].kind = "record" /\ queue'[j].kind = "record" =>
               queue'[i].number < queue'[j].number
    BY <1>3, <1>4 DEF DataInv, InOrder
  <2>2. \A i \in 1 .. Len(queue') : queue'[i].kind = "record" =>
               /\ item'.kind = "record" => item'.number < queue'[i].number
               /\ \A s \in Sinks : \A k \in 1 .. Len(written'[s]) : written'[s][k] < queue'[i].number
    BY <1>0, <1>3, <1>4 DEF DataInv, InOrder
  <2>3. (item.kind = "record" =>
           \A s \in Sinks : Due(s) => \A k \in 1 .. Len(written[s]) : written[s][k] < item.number)'
    BY <1>0 DEF DataInv, InOrder, Due, Sinks
  <2>4. QED BY <2>1, <2>2, <2>3 DEF InOrder, Sinks
<1>12. RoundSettled'
  <2>1. \A s : Done(s)' <=> Done(s)
    BY <1>0 DEF Done
  <2>2. QED BY <1>0, <1>3, <2>1, OutputsKept DEF DataInv, RoundSettled, Sinks
<1>13. ASSUME NEW g \in Flushers PROVE Barrier(g)'
  <2>0. Barrier(g) /\ flusher[g] \in FlusherRecords
    BY DEF DataInv
  <2>1. \A goal : AllSettled(goal)' <=> AllSettled(goal)
    BY <1>0, OutputsKept DEF AllSettled, Sinks
  <2>2. CASE g = f
    <3>1. /\ flusher'[g].at = "asleep" /\ flusher'[g].ticket = flush_requested + 1
          /\ flusher'[g].goal = accepted
      BY <2>2 DEF FlushRequest
    <3>2. ~ (flush_completed' >= flusher'[g].ticket) /\ flusher'[g].ticket <= flush_requested'
      BY <1>0, <1>1, <3>1
    <3>3. flusher'[g].goal <= accepted'
      BY <1>0, <3>1 DEF DataInv, DataTypes
    <3>4. ASSUME NEW i \in 1 .. Len(queue'), NEW j \in 1 .. Len(queue'), i < j,
                 queue'[i].kind = "marker", queue'[i].number >= flusher'[g].ticket
          PROVE  FALSE
      <4>1. i \in 1 .. Len(queue)
        BY <1>3, <1>a, <3>4
      <4>2. queue[i].number \in 1 .. flush_requested
        BY <1>3, <3>4, <4>1 DEF DataInv, Places, IsRecord, IsMarker
      <4>3. QED BY <1>1, <1>3, <3>1, <3>4, <4>1, <4>2
    <3>5. ~ (item'.kind = "marker" /\ item'.number >= flusher'[g].ticket)
      <4>1. item.kind = "marker" => item.number \in 1 .. flush_requested
        BY DEF DataInv, Places, IsRecord, IsMarker, DataTypes, NoItem, Resting
      <4>2. QED BY <1>0, <1>1, <3>1, <4>1
    <3>6. QED BY <3>1, <3>2, <3>3, <3>4, <3>5 DEF Barrier
  <2>3. CASE g # f
    <3>1. flusher'[g] = flusher[g]
      BY <2>3 DEF FlushRequest
    <3>2. flusher'[g].ticket <= flush_requested'
      BY <1>0, <1>1, <2>0, <3>1 DEF Barrier, FlusherRecords
    <3>3. ASSUME flusher[g].at \in {"asleep", "woken"},
                 NEW i \in 1 .. Len(queue'), NEW j \in 1 .. Len(queue'), i < j,
                 queue'[i].kind = "marker", queue'[i].number >= flusher[g].ticket,
                 queue'[j].kind = "record"
          PROVE  queue'[j].number > flusher[g].goal
      <4>1. j \in 1 .. Len(queue) /\ i \in 1 .. Len(queue)
        BY <1>3, <1>4, <1>a, <3>3
      <4>2. QED BY <1>3, <2>0, <3>3, <4>1 DEF Barrier
    <3>4. ASSUME flusher[g].at \in {"asleep", "woken"},
                 item.kind = "marker", item.number >= flusher[g].ticket,
                 NEW j \in 1 .. Len(queue'), queue'[j].kind = "record"
          PROVE  queue'[j].number > flusher[g].goal
      BY <1>3, <1>4, <2>0, <3>4 DEF Barrier
    <3>5. QED BY <1>0, <2>0, <2>1, <3>1, <3>2, <3>3, <3>4 DEF Barrier
  <2>4. QED BY <2>2, <2>3
<1>14. RecordsBounded'
  <2>1. {i \in 1 .. Len(queue') : queue'[i].kind = "record"}
          = {i \in 1 .. Len(queue) : queue[i].kind = "record"}
    <3>1. \A i \in 1 .. Len(queue) : i \in 1 .. Len(queue')
      BY <1>3, <1>a
    <3>2. QED BY <1>3, <1>4, <3>1
  <2>2. QED BY <2>1 DEF DataInv, RecordsBounded
<1>15. QED BY <1>5, <1>6, <1>8, <1>9, <1>10, <1>11, <1>12, <1>13, <1>14 DEF DataInv

\* An element left the queue: its records are no more than before.
LEMMA QueueShrinks ==
    ASSUME DataInv, queue # << >>, queue' = Tail(queue)
    PROVE  RecordsBounded'
<1> DEFINE R == {i \in 1 .. Len(queue) : queue[i].kind = "record"}
           S == {i \in 1 .. Len(queue') : queue'[i].kind = "record"}
           up == [i \in S |-> i + 1]
<1>1. /\ Len(queue') = Len(queue) - 1 /\ Len(queue) \in Nat \ {0}
      /\ \A i \in 1 .. Len(queue) - 1 : queue'[i] = queue[i + 1]
  BY Taken DEF DataInv, DataTypes
<1>2. \A i \in S : up[i] = i + 1 /\ up[i] \in R /\ i \in Nat
  BY <1>1
<1>3. up \in Injection(S, R)
  <2>1. up \in [S -> R]
    BY <1>2
  <2>2. \A i, j \in S : up[i] = up[j] => i = j
    BY <1>2
  <2>3. QED BY <2>1, <2>2 DEF Injection, IsInjective
<1>4. IsFiniteSet(R)
  <2>1. IsFiniteSet(1 .. Len(queue))
    BY <1>1, FS_Interval
  <2>2. R \subseteq 1 .. Len(queue)
    OBVIOUS
  <2>3. QED BY <2>1, <2>2, FS_Subset
<1>5. Cardinality(R) <= Capacity
  BY DEF DataInv, RecordsBounded
<1>6. Cardinality(S) <= Capacity
  <2> HIDE DEF R, S, up
  <2>1. IsFiniteSet(S) /\ Cardinality(S) <= Cardinality(R)
    BY <1>3, <1>4, FS_Injection
  <2>2. Cardinality(S) \in Nat /\ Cardinality(R) \in Nat
    BY <1>4, <2>1, FS_CardinalityType
  <2>3. QED BY <1>5, <2>1, <2>2, LoggerAssumption
<1>7. QED BY <1>6 DEF RecordsBounded

\* The pump takes the first item: it has been in front of all that is left.
LEMMA PumpTakeKeeps ==
    ASSUME DataInv, flusher \in [Flushers -> FlusherRecords], PumpTake
    PROVE  DataInv'
<1>0. /\ queue # << >> /\ queue' = Tail(queue) /\ item' = Head(queue)
      /\ pump \in {"test", "woken"} /\ pump' = "notify_space" /\ item = NoItem
      /\ UNCHANGED <<accepted, sink, written, flushed, lost, sink_failures,
                     flush_requested, flush_completed, stopping, flusher>>
  BY DEF PumpTake, outputs, others, DataInv, DataTypes, Resting
<1>1. /\ queue' \in Seq(Items) /\ Len(queue') = Len(queue) - 1 /\ Len(queue) \in Nat \ {0}
      /\ item' = queue[1] /\ item' \in Items
      /\ \A i \in 1 .. Len(queue) - 1 : queue'[i] = queue[i + 1]
  BY <1>0, Taken DEF DataInv, DataTypes
<1>2. /\ 1 \in 1 .. Len(queue)
      /\ \A i \in 1 .. Len(queue') : i + 1 \in 1 .. Len(queue) /\ 1 < i + 1 /\ queue'[i] = queue[i + 1]
      /\ \A i \in 1 .. Len(queue) : i = 1 \/ (i - 1 \in 1 .. Len(queue') /\ queue'[i - 1] = queue[i])
      /\ \A i, j \in 1 .. Len(queue') : i < j => i + 1 < j + 1
  BY <1>1
<1>3. \A n : Queued(n) => Queued(n)' \/ item' = Record(n)
  BY <1>1, <1>2 DEF Queued, Record
<1>4. Places'
  <2>1. IsRecord(item)' \/ IsMarker(item)'
    BY <1>0, <1>1, <1>2 DEF DataInv, Places, IsRecord, IsMarker
  <2>2. (\A i \in 1 .. Len(queue) : IsRecord(queue[i]) \/ IsMarker(queue[i]))'
    BY <1>0, <1>2 DEF DataInv, Places, IsRecord, IsMarker
  <2>3. QED BY <1>0, <2>1, <2>2 DEF Places
<1>5. item'.kind \in {"record", "marker"}
  BY <1>1, <1>2 DEF DataInv, Places, IsRecord, IsMarker
<1>6. DataTypes'
  BY <1>0, <1>1, <1>5 DEF DataInv, DataTypes, Sinks, Items, Resting, NoItem
<1>7. OutOfLoop' /\ ExitSettled' /\ RoundSettled'
  BY <1>0, <1>5 DEF OutOfLoop, ExitSettled, RoundSettled, Done
<1>8. LossCounted' /\ DeliveryInOrder'
  BY <1>0 DEF DataInv, LossCounted, DeliveryInOrder, Sinks
<1>9. Covered'
  <2>1. \A s : Due(s)'
    BY <1>0 DEF Due
  <2>2. \A n : item # Record(n)
    BY <1>0 DEF NoItem, Record
  <2>3. QED BY <1>0, <1>3, <2>1, <2>2, OutputsKept DEF DataInv, Covered, Sinks, Record
<1>10. InOrder'
  <2>1. \A i, j \in 1 .. Len(queue') :
           i < j /\ queue'[i].kind = "record" /\ queue'[j].kind = "record" =>
               queue'[i].number < queue'[j].number
    BY <1>2 DEF DataInv, InOrder
  <2>2. \A i \in 1 .. Len(queue') : queue'[i].kind = "record" =>
               /\ item'.kind = "record" => item'.number < queue'[i].number
               /\ \A s \in Sinks : \A k \in 1 .. Len(written'[s]) : written'[s][k] < queue'[i].number
    BY <1>0, <1>1, <1>2 DEF DataInv, InOrder
  <2>3. item'.kind = "record" =>
           \A s \in Sinks : \A k \in 1 .. Len(written'[s]) : written'[s][k] < item'.number
    BY <1>0, <1>1, <1>2 DEF DataInv, InOrder
  <2>4. QED BY <2>1, <2>2, <2>3 DEF InOrder, Sinks
<1>11. ASSUME NEW f \in Flushers PROVE Barrier(f)'
  <2>0. Barrier(f) /\ flusher'[f] = flusher[f]
    BY <1>0 DEF DataInv
  <2>1. \A goal : AllSettled(goal)' <=> AllSettled(goal)
    BY <1>0, OutputsKept DEF AllSettled, Sinks
  <2>2. ASSUME flusher[f].at \in {"asleep", "woken"},
               NEW i \in 1 .. Len(queue'), NEW j \in 1 .. Len(queue'), i < j,
               queue'[i].kind = "marker", queue'[i].number >= flusher[f].ticket,
               queue'[j].kind = "record"
        PROVE  queue'[j].number > flusher[f].goal
    BY <1>2, <2>0, <2>2 DEF Barrier
  <2>3. ASSUME flusher[f].at \in {"asleep", "woken"},
               item'.kind = "marker", item'.number >= flusher[f].ticket,
               NEW j \in 1 .. Len(queue'), queue'[j].kind = "record"
        PROVE  queue'[j].number > flusher[f].goal
    BY <1>1, <1>2, <2>0, <2>3 DEF Barrier
  <2>4. QED BY <1>0, <2>0, <2>1, <2>2, <2>3 DEF Barrier
<1>12. RecordsBounded'
  BY <1>0, QueueShrinks
<1>13. QED BY <1>4, <1>6, <1>7, <1>8, <1>9, <1>10, <1>11, <1>12 DEF DataInv

\* Steps of the pump that leave the queue, the sinks and the flushers alone keep
\* what depends on nothing else.
LEMMA QueueAndSinksKept ==
    ASSUME DataInv,
           UNCHANGED <<queue, accepted, written, flushed, lost, sink_failures,
                       flush_requested, flush_completed, stopping, flusher>>,
           item' = item \/ item'.kind = "final"
    PROVE  /\ DeliveryInOrder' /\ LossCounted' /\ RecordsBounded'
           /\ \A f \in Flushers : Barrier(f)'
           /\ \A n : Queued(n)' <=> Queued(n)
<1>1. DeliveryInOrder' /\ LossCounted' /\ RecordsBounded'
  BY DEF DataInv, DeliveryInOrder, LossCounted, RecordsBounded, Sinks
<1>2. \A goal : AllSettled(goal)' <=> AllSettled(goal)
  BY OutputsKept DEF AllSettled, Sinks
<1>3. \A f \in Flushers : Barrier(f)'
  BY <1>2 DEF DataInv, Barrier
<1>4. QED BY <1>1, <1>3 DEF Queued

\* The pump leaves the loop.
LEMMA PumpDrainedKeeps ==
    ASSUME DataInv, PumpDrained
    PROVE  DataInv'
<1>0. /\ queue = << >> /\ item' = FinalFlush /\ sink' = 1 /\ stopping
      /\ pump \in {"test", "woken"} /\ pump' = "flush_sinks" /\ item = NoItem
      /\ UNCHANGED <<queue, accepted, written, flushed, lost, sink_failures,
                     flush_requested, flush_completed, stopping, flusher>>
  BY DEF PumpDrained, monitor, outputs, others, DataInv, DataTypes, Resting
<1>1. item'.kind = "final" /\ item' \in Items
  BY <1>0 DEF FinalFlush, Items
<1>2. /\ DeliveryInOrder' /\ LossCounted' /\ RecordsBounded'
      /\ \A f \in Flushers : Barrier(f)'
      /\ \A n : Queued(n)' <=> Queued(n)
  BY <1>0, <1>1, QueueAndSinksKept
<1>3. sink' \in Sinks /\ \A s \in Sinks : ~ (s < sink')
  BY <1>0, LoggerAssumption DEF Sinks
<1>4. DataTypes'
  BY <1>0, <1>1, <1>3 DEF DataInv, DataTypes, Sinks, Items, Resting, NoItem
<1>5. Places' /\ OutOfLoop' /\ ExitSettled'
  BY <1>0, <1>1 DEF DataInv, Places, OutOfLoop, ExitSettled, IsRecord, IsMarker
<1>6. Covered'
  <2>1. \A n : item # Record(n)
    BY <1>0 DEF NoItem, Record
  <2>2. QED BY <1>0, <1>2, <2>1, OutputsKept DEF DataInv, Covered, Sinks
<1>7. InOrder' /\ RoundSettled'
  BY <1>0, <1>1, <1>3 DEF DataInv, InOrder, RoundSettled, Done, Sinks
<1>8. QED BY <1>2, <1>4, <1>5, <1>6, <1>7 DEF DataInv

\* The pump turns to what it took.
LEMMA PumpNotifySpaceKeeps ==
    ASSUME DataInv, PumpNotifySpace
    PROVE  DataInv'
<1>0. /\ pump = "notify_space" /\ sink' = 1
      /\ pump' = IF item.kind = "marker" THEN "flush_sinks" ELSE "render"
      /\ UNCHANGED <<queue, item, accepted, written, flushed, lost, sink_failures,
                     flush_requested, flush_completed, stopping, flusher>>
  BY DEF PumpNotifySpace, monitor, outputs
<1>1. /\ item.kind \in {"record", "marker"} /\ item # NoItem
      /\ item.kind # "marker" => IsRecord(item)
      /\ item.kind = "marker" => IsMarker(item)
  BY <1>0 DEF DataInv, Places, IsRecord, IsMarker, NoItem
<1>2. /\ DeliveryInOrder' /\ LossCounted' /\ RecordsBounded'
      /\ \A f \in Flushers : Barrier(f)'
      /\ \A n : Queued(n)' <=> Queued(n)
  BY <1>0, QueueAndSinksKept
<1>3. sink' \in Sinks /\ \A s \in Sinks : ~ (s < sink')
  BY <1>0, LoggerAssumption DEF Sinks
<1>4. DataTypes'
  BY <1>0, <1>1, <1>3 DEF DataInv, DataTypes, Sinks, Items, Resting, NoItem
<1>5. Places' /\ OutOfLoop' /\ ExitSettled'
  BY <1>0, <1>1 DEF DataInv, Places, OutOfLoop, ExitSettled, IsRecord, IsMarker
<1>6. Covered' /\ InOrder'
  <2>1. \A s : Due(s) /\ Due(s)'
    BY <1>0 DEF Due
  <2>2. QED BY <1>0, <1>2, <2>1, OutputsKept DEF DataInv, Covered, InOrder, Sinks, Record
<1>7. RoundSettled'
  BY <1>0, <1>3 DEF RoundSettled, Done, Sinks
<1>8. QED BY <1>2, <1>4, <1>5, <1>6, <1>7 DEF DataInv

\* The record is rendered; every sink is due.
LEMMA DeliverRenderKeeps ==
    ASSUME DataInv, DeliverRender
    PROVE  DataInv'
<1>0. /\ pump = "render" /\ pump' = "write" /\ sink = 1
      /\ UNCHANGED <<queue, item, sink, accepted, written, flushed, lost, sink_failures,
                     flush_requested, flush_completed, stopping, flusher>>
  BY DEF DeliverRender, monitor, outputs, others, DataInv, Places
<1>1. IsRecord(item) /\ item # NoItem
  BY <1>0 DEF DataInv, Places, IsRecord, NoItem
<1>2. /\ DeliveryInOrder' /\ LossCounted' /\ RecordsBounded'
      /\ \A f \in Flushers : Barrier(f)'
      /\ \A n : Queued(n)' <=> Queued(n)
  BY <1>0, QueueAndSinksKept
<1>3. \A s \in Sinks : sink' <= s
  BY <1>0, LoggerAssumption DEF Sinks
<1>4. DataTypes'
  BY <1>0, <1>1 DEF DataInv, DataTypes, Sinks, Items, Resting, NoItem
<1>5. Places' /\ OutOfLoop' /\ ExitSettled'
  BY <1>0, <1>1 DEF DataInv, Places, OutOfLoop, ExitSettled, IsRecord, IsMarker
<1>6. Covered' /\ InOrder'
  <2>1. \A s \in Sinks : Due(s) /\ Due(s)'
    BY <1>0, <1>3 DEF Due
  <2>2. QED BY <1>0, <1>2, <2>1, OutputsKept DEF DataInv, Covered, InOrder, Sinks, Record
<1>7. RoundSettled'
  BY <1>0 DEF RoundSettled, Done, Sinks
<1>8. QED BY <1>2, <1>4, <1>5, <1>6, <1>7 DEF DataInv

\* Steps of the pump that only add to what the sinks wrote, flushed or lost keep
\* what is settled, and so what flushers rely on.
LEMMA SinksGrow ==
    ASSUME DataInv,
           UNCHANGED <<queue, accepted, flush_requested, flush_completed, stopping, flusher>>,
           item' = item \/ item' = NoItem,
           \A s \in Sinks : /\ lost[s] \subseteq lost'[s]
                            /\ flushed'[s] \in Nat /\ flushed[s] <= flushed'[s]
                            /\ \A i \in 1 .. Len(written[s]) : written'[s][i] = written[s][i]
    PROVE  /\ RecordsBounded' /\ (\A f \in Flushers : Barrier(f)')
           /\ \A n : Queued(n)' <=> Queued(n)
           /\ \A s \in Sinks : \A n : Settled(s, n) => Settled(s, n)'
<1>1. RecordsBounded' /\ \A n : Queued(n)' <=> Queued(n)
  BY DEF DataInv, RecordsBounded, Queued
<1>2. \A s \in Sinks : \A n : Settled(s, n) => Settled(s, n)'
  <2> SUFFICES ASSUME NEW s \in Sinks, NEW n, Settled(s, n) PROVE Settled(s, n)'
    OBVIOUS
  <2>1. flushed[s] \in 0 .. Len(written[s]) /\ Len(written[s]) \in Nat
    BY Numbers
  <2>2. \A i \in 1 .. flushed[s] : written'[s][i] = written[s][i]
    BY <2>1
  <2>3. flushed[s] \in Nat
    BY <2>1
  <2>4. QED BY <2>2, <2>3, SettledKept
<1>3. \A goal : AllSettled(goal) => AllSettled(goal)'
  BY <1>2 DEF AllSettled, Sinks
<1>4. item'.kind = "marker" => item' = item
  BY DEF NoItem
<1>5. ASSUME NEW f \in Flushers PROVE Barrier(f)'
  BY <1>3, <1>4 DEF DataInv, Barrier
<1>6. QED BY <1>1, <1>2, <1>5

\* A set of numbers gains at most one.
LEMMA OneMoreLost ==
    ASSUME NEW n \in Nat, NEW L \in SUBSET (1 .. n), NEW x
    PROVE  /\ Cardinality(L) \in Nat /\ Cardinality(L \union {x}) \in Nat
           /\ Cardinality(L \union {x}) <= Cardinality(L) + 1
<1>1. IsFiniteSet(L)
  <2>1. IsFiniteSet(1 .. n)
    BY FS_Interval
  <2>2. QED BY <2>1, FS_Subset
<1>2. /\ IsFiniteSet(L \union {x})
      /\ Cardinality(L \union {x}) = IF x \in L THEN Cardinality(L) ELSE Cardinality(L) + 1
  BY <1>1, FS_AddElement
<1>3. Cardinality(L) \in Nat
  BY <1>1, FS_CardinalityType
<1>4. QED BY <1>2, <1>3

\* The rendering throws: the record is lost to every sink, and counted.
LEMMA DeliverRenderFailsKeeps ==
    ASSUME DataInv, DeliverRenderFails
    PROVE  DataInv'
<1>0. /\ pump = "render" /\ pump' = "test" /\ item' = NoItem
      /\ sink_failures < MaxFailures /\ sink_failures' = sink_failures + 1
      /\ lost' = [s \in Sinks |-> lost[s] \union {item.number}]
      /\ UNCHANGED <<queue, sink, accepted, written, flushed, flush_requested, flush_completed,
                     stopping, flusher>>
  BY DEF DeliverRenderFails, monitor, others
<1>1. IsRecord(item) /\ item'.kind = "none" /\ item' \in Items
  BY <1>0 DEF DataInv, Places, NoItem, Items
<1>2. /\ \A s \in Sinks : lost[s] \subseteq lost'[s] /\ item.number \in lost'[s]
      /\ lost' \in [Sinks -> SUBSET (1 .. accepted)]
  BY <1>0, <1>1 DEF DataInv, DataTypes, IsRecord
<1>3. \A s \in Sinks : flushed[s] \in Nat
  BY DEF DataInv, DataTypes
<1>4. /\ RecordsBounded' /\ (\A f \in Flushers : Barrier(f)')
      /\ \A n : Queued(n)' <=> Queued(n)
  BY <1>0, <1>2, <1>3, SinksGrow
<1>5. DataTypes'
  <2>1. sink_failures' \in 0 .. MaxFailures
    BY <1>0, LoggerAssumption DEF DataInv, DataTypes
  <2>2. QED BY <1>0, <1>1, <1>2, <2>1 DEF DataInv, DataTypes, Sinks, Resting
<1>6. Places' /\ OutOfLoop' /\ ExitSettled' /\ DeliveryInOrder' /\ RoundSettled'
  BY <1>0, <1>1 DEF DataInv, Places, OutOfLoop, ExitSettled, DeliveryInOrder, RoundSettled, Done,
                    IsRecord, IsMarker, Sinks
<1>7. Covered'
  <2> SUFFICES ASSUME NEW s \in Sinks, NEW n \in 1 .. accepted
               PROVE  Queued(n)' \/ Handled(s, n)'
    BY <1>0 DEF Covered, Sinks
  <2>1. Queued(n) \/ Handled(s, n) \/ item = Record(n)
    BY DEF DataInv, Covered
  <2>2. item = Record(n) => item.number = n
    BY DEF Record
  <2>3. QED BY <1>0, <1>2, <1>4, <2>1, <2>2 DEF Handled
<1>8. InOrder'
  BY <1>0, <1>1 DEF DataInv, InOrder, Sinks
<1>9. LossCounted'
  <2> SUFFICES ASSUME NEW s \in Sinks PROVE Cardinality(lost'[s]) <= sink_failures'
    BY DEF LossCounted, Sinks
  <2>1. lost'[s] = lost[s] \union {item.number}
    BY <1>0
  <2>2. accepted \in Nat /\ lost[s] \in SUBSET (1 .. accepted) /\ sink_failures \in Nat
    BY LoggerAssumption DEF DataInv, DataTypes
  <2>3. Cardinality(lost[s]) <= sink_failures
    BY DEF DataInv, LossCounted
  <2>4. /\ Cardinality(lost[s]) \in Nat /\ Cardinality(lost[s] \union {item.number}) \in Nat
        /\ Cardinality(lost[s] \union {item.number}) <= Cardinality(lost[s]) + 1
    BY <2>2, OneMoreLost
  <2>5. QED BY <1>0, <2>1, <2>2, <2>3, <2>4
<1>10. QED BY <1>4, <1>5, <1>6, <1>7, <1>8, <1>9 DEF DataInv

\* From one sink to the next: the sinks behind are still due the record.
LEMMA DeliveryGoesOn ==
    ASSUME DataInv, pump = "write", NextSink("test", NoItem), UNCHANGED <<queue, accepted>>
    PROVE  /\ IsRecord(item) /\ item.kind # "final" /\ sink \in Sinks
           /\ sink' \in Sinks /\ pump' \in {"write", "test"} /\ item' \in Items
           /\ item' = item \/ item' = NoItem
           /\ item' = NoItem <=> pump' = "test"
           /\ \A s \in Sinks : Due(s) => s = sink \/ (item' = item /\ Due(s)')
           /\ \A s \in Sinks : item' = item /\ Due(s)' => Due(s) /\ s # sink
<1>1. IsRecord(item) /\ item.kind = "record" /\ item # NoItem /\ sink \in Sinks /\ item \in Items
  BY DEF DataInv, Places, IsRecord, DataTypes, NoItem
<1>2. NoItem \in Items
  BY DEF NoItem, Items
<1>3. sink \in Nat /\ NumSinks \in Nat \ {0} /\ \A s \in Sinks : s \in Nat /\ s <= NumSinks
  BY Numbers DEF Sinks
<1>4. CASE sink < NumSinks
  <2>1. sink' = sink + 1 /\ pump' = pump /\ item' = item
    BY <1>4 DEF NextSink
  <2>2. sink' \in Sinks
    BY <1>3, <1>4, <2>1 DEF Sinks
  <2>3. \A s \in Sinks : Due(s) => s = sink \/ Due(s)'
    BY <1>3, <2>1 DEF Due
  <2>4. \A s \in Sinks : Due(s)' => Due(s) /\ s # sink
    BY <1>3, <2>1 DEF Due
  <2>5. QED BY <1>1, <2>1, <2>2, <2>3, <2>4
<1>5. CASE ~ (sink < NumSinks)
  <2>1. sink' = 1 /\ pump' = "test" /\ item' = NoItem
    BY <1>5 DEF NextSink
  <2>2. sink' \in Sinks
    BY <1>3, <2>1 DEF Sinks
  <2>3. \A s \in Sinks : Due(s) => s = sink
    BY <1>1, <1>3, <1>5 DEF Due, Sinks
  <2>4. QED BY <1>1, <1>2, <2>1, <2>2, <2>3
<1>6. QED BY <1>4, <1>5

\* A sink writes the record: it had not been given it, nor a later one.
LEMMA DeliverWriteKeeps ==
    ASSUME DataInv, DeliverWrite
    PROVE  DataInv'
<1>0. /\ pump = "write" /\ NextSink("test", NoItem)
      /\ written' = [written EXCEPT ![sink] = Append(@, item.number)]
      /\ UNCHANGED <<queue, accepted, lost, flushed, sink_failures, flush_requested, flush_completed,
                     stopping, flusher>>
  BY DEF DeliverWrite, monitor, others
<1>1. /\ IsRecord(item) /\ item.kind # "final" /\ sink \in Sinks
      /\ sink' \in Sinks /\ pump' \in {"write", "test"} /\ item' \in Items
      /\ item' = item \/ item' = NoItem
      /\ item' = NoItem <=> pump' = "test"
      /\ \A s \in Sinks : Due(s) => s = sink \/ (item' = item /\ Due(s)')
      /\ \A s \in Sinks : item' = item /\ Due(s)' => Due(s) /\ s # sink
  BY <1>0, DeliveryGoesOn
<1>2. item.number \in 1 .. accepted /\ item.kind = "record" /\ NoItem.kind = "none"
  BY <1>1 DEF IsRecord, NoItem
<1>3. \A s \in Sinks : written[s] \in Seq(1 .. accepted) /\ Len(written[s]) \in Nat
  BY Numbers DEF DataInv, DataTypes
<1>4. /\ written'[sink] \in Seq(1 .. accepted) /\ Len(written'[sink]) = Len(written[sink]) + 1
      /\ \A i \in 1 .. Len(written[sink]) : written'[sink][i] = written[sink][i]
      /\ written'[sink][Len(written[sink]) + 1] = item.number
  <2>1. written'[sink] = Append(written[sink], item.number)
    BY <1>0, <1>1 DEF DataInv, DataTypes
  <2>2. QED BY <1>1, <1>2, <1>3, <2>1, Appended
<1>5. \A s \in Sinks : s # sink => written'[s] = written[s]
  BY <1>0 DEF DataInv, DataTypes
<1>6. \A s \in Sinks : \A i \in 1 .. Len(written'[s]) :
         (i \in 1 .. Len(written[s]) /\ written'[s][i] = written[s][i])
         \/ (s = sink /\ i = Len(written[sink]) + 1 /\ written'[s][i] = item.number)
  BY <1>3, <1>4, <1>5
<1>7. \A s \in Sinks : \A i \in 1 .. Len(written[s]) :
         i \in 1 .. Len(written'[s]) /\ written'[s][i] = written[s][i]
  BY <1>3, <1>4, <1>5
<1>8. \A s \in Sinks : flushed[s] \in Nat /\ flushed[s] <= Len(written[s])
  BY DEF DataInv, DataTypes
<1>9. /\ RecordsBounded' /\ (\A f \in Flushers : Barrier(f)')
      /\ \A n : Queued(n)' <=> Queued(n)
  BY <1>0, <1>1, <1>7, <1>8, SinksGrow
<1>10. DataTypes'
  <2>1. written' \in [Sinks -> Seq(1 .. accepted)]
    BY <1>0, <1>3, <1>4, <1>5 DEF DataInv, DataTypes
  <2>2. \A s \in Sinks : flushed[s] <= Len(written'[s])
    BY <1>3, <1>4, <1>5, <1>8
  <2>3. pump' \in Resting <=> pump' = "test"
    BY <1>1 DEF Resting
  <2>4. QED BY <1>0, <1>1, <2>1, <2>2, <2>3 DEF DataInv, DataTypes, Sinks, Items, NoItem, Resting
<1>11. Places' /\ OutOfLoop' /\ ExitSettled' /\ RoundSettled' /\ LossCounted'
  <2>1. Places' /\ OutOfLoop' /\ ExitSettled'
    BY <1>0, <1>1, <1>2 DEF DataInv, Places, OutOfLoop, ExitSettled, IsRecord, IsMarker
  <2>2. RoundSettled' /\ LossCounted'
    BY <1>0, <1>1 DEF DataInv, RoundSettled, Done, LossCounted, Sinks
  <2>3. QED BY <2>1, <2>2
<1>12. Covered'
  <2> SUFFICES ASSUME NEW s \in Sinks, NEW n \in 1 .. accepted
               PROVE  Queued(n)' \/ Handled(s, n)' \/ (item' = Record(n) /\ Due(s)')
    BY <1>0 DEF Covered, Sinks, Record
  <2>1. Queued(n) \/ Handled(s, n) \/ (item = Record(n) /\ Due(s))
    BY DEF DataInv, Covered
  <2>2. Handled(s, n) => Handled(s, n)'
    BY <1>0, <1>7 DEF Handled
  <2>3. item = Record(n) => item.number = n
    BY DEF Record
  <2>4. item = Record(n) /\ s = sink => Handled(s, n)'
    <3>1. Len(written[sink]) + 1 \in 1 .. Len(written'[sink])
      BY <1>1, <1>3, <1>4
    <3>2. QED BY <1>4, <2>3, <3>1 DEF Handled
  <2>5. QED BY <1>1, <1>9, <2>1, <2>2, <2>4
<1>13. InOrder'
  <2>1. \A i, j \in 1 .. Len(queue') :
           i < j /\ queue'[i].kind = "record" /\ queue'[j].kind = "record" =>
               queue'[i].number < queue'[j].number
    BY <1>0 DEF DataInv, InOrder
  <2>2. ASSUME NEW i \in 1 .. Len(queue'), queue'[i].kind = "record"
        PROVE  /\ item'.kind = "record" => item'.number < queue'[i].number
               /\ \A s \in Sinks : \A k \in 1 .. Len(written'[s]) : written'[s][k] < queue'[i].number
    <3>1. /\ item.number < queue'[i].number
          /\ \A s \in Sinks : \A k \in 1 .. Len(written[s]) : written[s][k] < queue'[i].number
      BY <1>0, <1>2, <2>2 DEF DataInv, InOrder
    <3>2. QED BY <1>1, <1>2, <1>6, <3>1
  <2>3. ASSUME item'.kind = "record", NEW s \in Sinks, Due(s)', NEW k \in 1 .. Len(written'[s])
        PROVE  written'[s][k] < item'.number
    <3>1. item' = item /\ Due(s) /\ s # sink
      BY <1>1, <1>2, <2>3
    <3>2. k \in 1 .. Len(written[s]) /\ written'[s][k] = written[s][k]
      BY <1>5, <3>1
    <3>3. QED BY <1>2, <3>1, <3>2 DEF DataInv, InOrder
  <2>4. QED BY <2>1, <2>2, <2>3 DEF InOrder, Sinks
<1>14. DeliveryInOrder'
  <2> SUFFICES ASSUME NEW s \in Sinks, NEW i \in 1 .. Len(written'[s]), NEW j \in 1 .. Len(written'[s]),
                      i < j
               PROVE  written'[s][i] < written'[s][j]
    BY DEF DeliveryInOrder, Sinks
  <2>1. i \in 1 .. Len(written[s]) /\ written'[s][i] = written[s][i]
    BY <1>3, <1>4, <1>5, <1>6
  <2>2. CASE j \in 1 .. Len(written[s])
    BY <1>7, <2>1, <2>2 DEF DataInv, DeliveryInOrder
  <2>3. CASE s = sink /\ written'[s][j] = item.number
    <3>1. Due(s)
      BY <1>1, <2>3, Numbers DEF Due
    <3>2. written[s][i] < item.number
      BY <1>2, <2>1, <3>1 DEF DataInv, InOrder
    <3>3. QED BY <2>1, <2>3, <3>2
  <2>4. QED BY <1>6, <2>2, <2>3
<1>15. QED BY <1>9, <1>10, <1>11, <1>12, <1>13, <1>14 DEF DataInv

\* A sink throws: the record is lost to it alone, and counted.
LEMMA DeliverWriteFailsKeeps ==
    ASSUME DataInv, DeliverWriteFails
    PROVE  DataInv'
<1>0. /\ pump = "write" /\ NextSink("test", NoItem)
      /\ sink_failures < MaxFailures /\ sink_failures' = sink_failures + 1
      /\ lost' = [lost EXCEPT ![sink] = @ \union {item.number}]
      /\ UNCHANGED <<queue, accepted, written, flushed, flush_requested, flush_completed,
                     stopping, flusher>>
  BY DEF DeliverWriteFails, GoOnDelivering, monitor, others
<1>1. /\ IsRecord(item) /\ item.kind # "final" /\ sink \in Sinks
      /\ sink' \in Sinks /\ pump' \in {"write", "test"} /\ item' \in Items
      /\ item' = item \/ item' = NoItem
      /\ item' = NoItem <=> pump' = "test"
      /\ \A s \in Sinks : Due(s) => s = sink \/ (item' = item /\ Due(s)')
      /\ \A s \in Sinks : item' = item /\ Due(s)' => Due(s) /\ s # sink
  BY <1>0, DeliveryGoesOn
<1>2. item.number \in 1 .. accepted /\ item.kind = "record" /\ NoItem.kind = "none"
  BY <1>1 DEF IsRecord, NoItem
<1>3. /\ \A s \in Sinks : lost[s] \subseteq lost'[s]
      /\ item.number \in lost'[sink] /\ lost'[sink] = lost[sink] \union {item.number}
      /\ \A s \in Sinks : s # sink => lost'[s] = lost[s]
      /\ lost' \in [Sinks -> SUBSET (1 .. accepted)]
  BY <1>0, <1>1, <1>2 DEF DataInv, DataTypes
<1>4. \A s \in Sinks : flushed[s] \in Nat /\ flushed[s] <= flushed[s]
  BY DEF DataInv, DataTypes
<1>5. /\ RecordsBounded' /\ (\A f \in Flushers : Barrier(f)')
      /\ \A n : Queued(n)' <=> Queued(n)
  BY <1>0, <1>1, <1>3, <1>4, SinksGrow
<1>6. DataTypes'
  <2>1. sink_failures' \in 0 .. MaxFailures
    BY <1>0, LoggerAssumption DEF DataInv, DataTypes
  <2>2. pump' \in Resting <=> pump' = "test"
    BY <1>1 DEF Resting
  <2>3. QED BY <1>0, <1>1, <1>3, <2>1, <2>2 DEF DataInv, DataTypes, Sinks, Items, NoItem, Resting
<1>7. Places' /\ OutOfLoop' /\ ExitSettled'
  BY <1>0, <1>1, <1>2 DEF DataInv, Places, OutOfLoop, ExitSettled, IsRecord, IsMarker
<1>8. RoundSettled' /\ DeliveryInOrder'
  BY <1>0, <1>1 DEF DataInv, RoundSettled, Done, DeliveryInOrder, Sinks
<1>9. Covered'
  <2> SUFFICES ASSUME NEW s \in Sinks, NEW n \in 1 .. accepted
               PROVE  Queued(n)' \/ Handled(s, n)' \/ (item' = Record(n) /\ Due(s)')
    BY <1>0 DEF Covered, Sinks, Record
  <2>1. Queued(n) \/ Handled(s, n) \/ (item = Record(n) /\ Due(s))
    BY DEF DataInv, Covered
  <2>2. item = Record(n) => item.number = n
    BY DEF Record
  <2>3. (Handled(s, n) \/ (item = Record(n) /\ s = sink)) => Handled(s, n)'
    BY <1>0, <1>3, <2>2 DEF Handled
  <2>4. QED BY <1>1, <1>5, <2>1, <2>3
<1>10. InOrder'
  <2>1. item'.kind = "record" => item' = item
    BY <1>1, <1>2
  <2>2. QED BY <1>0, <1>1, <2>1 DEF DataInv, InOrder, Sinks
<1>11. LossCounted'
  <2> SUFFICES ASSUME NEW s \in Sinks PROVE Cardinality(lost'[s]) <= sink_failures'
    BY DEF LossCounted, Sinks
  <2>1. lost'[s] = lost[s] \/ lost'[s] = lost[s] \union {item.number}
    BY <1>3
  <2>2. accepted \in Nat /\ lost[s] \in SUBSET (1 .. accepted) /\ sink_failures \in Nat
    BY LoggerAssumption DEF DataInv, DataTypes
  <2>3. Cardinality(lost[s]) <= sink_failures
    BY DEF DataInv, LossCounted
  <2>4. /\ Cardinality(lost[s]) \in Nat /\ Cardinality(lost[s] \union {item.number}) \in Nat
        /\ Cardinality(lost[s] \union {item.number}) <= Cardinality(lost[s]) + 1
    BY <2>2, OneMoreLost
  <2>5. QED BY <1>0, <2>1, <2>2, <2>3, <2>4
<1>12. QED BY <1>5, <1>6, <1>7, <1>8, <1>9, <1>10, <1>11 DEF DataInv

\* A sink is flushed: what left the queue has been handed to it, and is settled.
LEMMA FlushSinkKeeps ==
    ASSUME DataInv, FlushSink
    PROVE  DataInv'
<1>0. /\ pump = "flush_sinks" /\ NextSink("complete", item)
      /\ flushed' = [flushed EXCEPT ![sink] = Len(written[sink])]
      /\ sink_failures' = sink_failures \/ (sink_failures < MaxFailures /\ sink_failures' = sink_failures + 1)
      /\ UNCHANGED <<queue, accepted, written, lost, flush_requested, flush_completed,
                     stopping, flusher>>
  BY DEF FlushSink, monitor, others
<1>1. /\ IsMarker(item) \/ item.kind = "final"
      /\ item.kind \notin {"record", "none"} /\ item # NoItem /\ sink \in Sinks
  BY <1>0 DEF DataInv, Places, IsMarker, DataTypes, NoItem
<1>2. sink \in Nat /\ NumSinks \in Nat \ {0} /\ \A s \in Sinks : s \in Nat /\ s <= NumSinks
  BY Numbers DEF Sinks
<1>3. /\ item' = item /\ sink' \in Sinks /\ pump' \in {"flush_sinks", "complete"}
      /\ \A s \in Sinks : Done(s)' => Done(s) \/ s = sink
  <2>1. CASE sink < NumSinks
    <3>1. sink' = sink + 1 /\ pump' = pump /\ item' = item
      BY <1>0, <2>1 DEF NextSink
    <3>2. sink' \in Sinks
      BY <1>2, <2>1, <3>1 DEF Sinks
    <3>3. ASSUME NEW s \in Sinks, s < sink' PROVE s < sink \/ s = sink
      <4>1. s \in Nat
        BY <1>2
      <4>2. QED BY <1>2, <3>1, <3>3, <4>1
    <3>4. \A s \in Sinks : Done(s)' => Done(s) \/ s = sink
      <4> SUFFICES ASSUME NEW s \in Sinks, Done(s)' PROVE Done(s) \/ s = sink
        OBVIOUS
      <4>1. pump' = "flush_sinks"
        BY <1>0, <3>1
      <4>2. s < sink'
        BY <4>1 DEF Done
      <4>3. QED BY <1>0, <3>3, <4>2 DEF Done
    <3>5. QED BY <1>0, <3>1, <3>2, <3>4
  <2>2. CASE ~ (sink < NumSinks)
    <3>1. sink' = 1 /\ pump' = "complete" /\ item' = item
      BY <1>0, <2>2 DEF NextSink
    <3>2. sink' \in Sinks
      BY <1>2, <3>1 DEF Sinks
    <3>3. ASSUME NEW s \in Sinks PROVE s < sink \/ s = sink
      <4>1. s \in Nat /\ s <= NumSinks
        BY <1>2
      <4>2. QED BY <1>2, <2>2, <4>1
    <3>4. \A s \in Sinks : Done(s) \/ s = sink
      BY <1>0, <3>3 DEF Done
    <3>5. QED BY <1>0, <3>1, <3>2, <3>4
  <2>3. QED BY <2>1, <2>2
<1>4. /\ \A s \in Sinks : /\ flushed'[s] \in Nat /\ flushed[s] <= flushed'[s]
                          /\ flushed'[s] <= Len(written[s])
      /\ flushed' \in [Sinks -> Nat] /\ flushed'[sink] = Len(written[sink])
  <2>1. \A s \in Sinks : Len(written[s]) \in Nat /\ flushed[s] \in 0 .. Len(written[s])
    BY Numbers
  <2>2. flushed \in [Sinks -> Nat]
    BY DEF DataInv, DataTypes
  <2>3. flushed'[sink] = Len(written[sink]) /\ \A s \in Sinks : s # sink => flushed'[s] = flushed[s]
    BY <1>0, <1>1, <2>2
  <2>4. flushed' \in [Sinks -> Nat]
    BY <1>0, <1>1, <2>1, <2>2
  <2>5. \A s \in Sinks : flushed'[s] \in Nat /\ flushed[s] <= flushed'[s] /\ flushed'[s] <= Len(written[s])
    BY <2>1, <2>3
  <2>6. QED BY <2>3, <2>4, <2>5
<1>5. /\ RecordsBounded' /\ (\A f \in Flushers : Barrier(f)')
      /\ \A n : Queued(n)' <=> Queued(n)
      /\ \A s \in Sinks : \A n : Settled(s, n) => Settled(s, n)'
  BY <1>0, <1>3, <1>4, SinksGrow
<1>6. DataTypes'
  <2>1. sink_failures' \in 0 .. MaxFailures
    BY <1>0, LoggerAssumption DEF DataInv, DataTypes
  <2>2. pump' \notin Resting
    BY <1>3 DEF Resting
  <2>3. QED BY <1>0, <1>1, <1>3, <1>4, <2>1, <2>2 DEF DataInv, DataTypes, Sinks, Items, NoItem, Resting
<1>7. Places' /\ OutOfLoop' /\ ExitSettled'
  BY <1>0, <1>1, <1>3 DEF DataInv, Places, OutOfLoop, ExitSettled, IsRecord, IsMarker
<1>8. DeliveryInOrder' /\ InOrder'
  BY <1>0, <1>1, <1>3 DEF DataInv, DeliveryInOrder, InOrder, Sinks
<1>9. LossCounted'
  <2> SUFFICES ASSUME NEW s \in Sinks PROVE Cardinality(lost'[s]) <= sink_failures'
    BY DEF LossCounted, Sinks
  <2>1. accepted \in Nat /\ lost[s] \in SUBSET (1 .. accepted) /\ sink_failures \in Nat
    BY LoggerAssumption DEF DataInv, DataTypes
  <2>2. Cardinality(lost[s]) <= sink_failures
    BY DEF DataInv, LossCounted
  <2>3. Cardinality(lost[s]) \in Nat
    BY <2>1, OneMoreLost
  <2>4. QED BY <1>0, <2>1, <2>2, <2>3
<1>10. \A n : item # Record(n)
  BY <1>1 DEF Record
<1>11. \A s \in Sinks, n \in 1 .. accepted : Queued(n) \/ Handled(s, n)
  BY <1>10 DEF DataInv, Covered
<1>12. Covered'
  BY <1>0, <1>5, <1>11 DEF Covered, Handled, Sinks
<1>13. RoundSettled'
  <2> SUFFICES ASSUME NEW s \in Sinks, Done(s)', NEW n \in 1 .. accepted
               PROVE  Queued(n)' \/ Settled(s, n)'
    BY <1>0 DEF RoundSettled, Sinks
  <2>1. CASE Done(s)
    BY <1>5, <2>1 DEF DataInv, RoundSettled
  <2>2. CASE s = sink
    <3>1. Handled(s, n) => Settled(s, n)'
      BY <1>0, <1>4, <2>2 DEF Handled, Settled
    <3>2. QED BY <1>5, <1>11, <3>1
  <2>3. QED BY <1>3, <2>1, <2>2
<1>14. QED BY <1>5, <1>6, <1>7, <1>8, <1>9, <1>12, <1>13 DEF DataInv

\* A round of flushing is announced: it settled all that its tickets ask for.
LEMMA FlushCompleteKeeps ==
    ASSUME DataInv, flusher \in [Flushers -> FlusherRecords], FlushComplete
    PROVE  DataInv'
<1>0. /\ pump = "complete" /\ pump' = "notify_flushed"
      /\ flush_completed' = IF item.kind = "final" THEN flush_requested
                            ELSE IF item.number > flush_completed THEN item.number
                            ELSE flush_completed
      /\ UNCHANGED <<queue, item, sink, accepted, written, flushed, lost, sink_failures,
                     flush_requested, stopping, flusher>>
  BY DEF FlushComplete, outputs, others
<1>1. /\ \/ item.kind = "marker" /\ item.number \in 1 .. flush_requested
         \/ item.kind = "final"
      /\ item # NoItem
  BY <1>0 DEF DataInv, Places, IsMarker, NoItem
<1>2. flush_completed' \in 0 .. flush_requested
  BY <1>0, <1>1 DEF DataInv, DataTypes
<1>3. DataTypes'
  BY <1>0, <1>1, <1>2 DEF DataInv, DataTypes, Sinks, Items, NoItem, Resting
<1>4. Places' /\ OutOfLoop' /\ ExitSettled'
  BY <1>0, <1>1 DEF DataInv, Places, OutOfLoop, ExitSettled, IsRecord, IsMarker
<1>5. DeliveryInOrder' /\ LossCounted' /\ RecordsBounded'
  BY <1>0 DEF DataInv, DeliveryInOrder, LossCounted, RecordsBounded, Sinks
<1>6. Covered' /\ InOrder'
  <2>1. \A s : Due(s)' <=> Due(s)
    BY <1>0 DEF Due
  <2>2. QED BY <1>0, <2>1, OutputsKept DEF DataInv, Covered, InOrder, Queued, Sinks
<1>7. \A s \in Sinks, n \in 1 .. accepted : Queued(n) \/ Settled(s, n)
  BY <1>0 DEF DataInv, RoundSettled, Done
<1>8. RoundSettled'
  BY <1>0, <1>7, OutputsKept DEF RoundSettled, Queued, Sinks
<1>9. ASSUME NEW f \in Flushers PROVE Barrier(f)'
  <2>0. Barrier(f) /\ flusher[f] \in FlusherRecords /\ flusher'[f] = flusher[f]
    BY <1>0 DEF DataInv
  <2>1. \A goal : AllSettled(goal)' <=> AllSettled(goal)
    BY <1>0, OutputsKept DEF AllSettled, Sinks
  <2>2. ASSUME flusher[f].at \in {"asleep", "woken"}, flush_completed' >= flusher[f].ticket
        PROVE  AllSettled(flusher[f].goal)
    <3>0. CASE flush_completed >= flusher[f].ticket
      BY <2>0, <2>2, <3>0 DEF Barrier
    <3>1. CASE ~ (flush_completed >= flusher[f].ticket)
      <4>1. item.kind = "final" \/ (item.kind = "marker" /\ item.number >= flusher[f].ticket)
        BY <1>0, <1>1, <2>2, <3>1
      <4>2. \A j \in 1 .. Len(queue) : queue[j].kind = "record" => queue[j].number > flusher[f].goal
        <5>1. CASE item.kind = "final"
          BY <5>1 DEF DataInv, OutOfLoop
        <5>2. CASE item.kind = "marker" /\ item.number >= flusher[f].ticket
          BY <2>0, <2>2, <5>2 DEF Barrier
        <5>3. QED BY <4>1, <5>1, <5>2
      <4>3. flusher[f].goal \in Nat /\ flusher[f].goal <= accepted /\ accepted \in Nat
        BY <2>0 DEF Barrier, FlusherRecords, DataInv, DataTypes
      <4>4. ASSUME NEW n \in 1 .. flusher[f].goal PROVE ~ Queued(n) /\ n \in 1 .. accepted
        <5>1. n \in 1 .. accepted /\ ~ (n > flusher[f].goal)
          BY <4>3
        <5>2. Record(n).kind = "record" /\ Record(n).number = n
          BY DEF Record
        <5>3. QED BY <4>2, <5>1, <5>2 DEF Queued
      <4>5. QED BY <1>7, <4>4 DEF AllSettled
    <3>2. QED BY <3>0, <3>1
  <2>3. QED BY <1>0, <2>0, <2>1, <2>2 DEF Barrier
<1>10. QED BY <1>3, <1>4, <1>5, <1>6, <1>8, <1>9 DEF DataInv

\* Everybody in flush() is woken; after the drain the pump exits.
LEMMA FlushNotifyKeeps ==
    ASSUME DataInv, flusher \in [Flushers -> FlusherRecords], FlushNotify
    PROVE  DataInv'
<1>0. /\ pump = "notify_flushed" /\ item' = NoItem
      /\ pump' = IF item.kind = "final" THEN "exited" ELSE "test"
      /\ flusher' = [f \in Flushers |-> IF flusher[f].at = "asleep"
                                        THEN [flusher[f] EXCEPT !.at = "woken"]
                                        ELSE flusher[f]]
      /\ UNCHANGED <<queue, sink, accepted, written, flushed, lost, sink_failures,
                     flush_requested, flush_completed, stopping>>
  BY DEF FlushNotify, monitor, outputs
<1>1. item.kind \in {"marker", "final"} /\ item'.kind = "none" /\ item' \in Items
  BY <1>0 DEF DataInv, Places, IsMarker, NoItem, Items
<1>2. DataTypes'
  BY <1>0, <1>1 DEF DataInv, DataTypes, Sinks, Items, NoItem, Resting
<1>3. Places' /\ OutOfLoop'
  BY <1>0, <1>1 DEF DataInv, Places, OutOfLoop, IsRecord, IsMarker
<1>4. DeliveryInOrder' /\ LossCounted' /\ RecordsBounded'
  BY <1>0 DEF DataInv, DeliveryInOrder, LossCounted, RecordsBounded, Sinks
<1>5. InOrder'
  BY <1>0, <1>1 DEF DataInv, InOrder, Sinks
<1>6. Covered'
  <2>1. \A n : item # Record(n)
    BY <1>1 DEF Record
  <2>2. QED BY <1>0, <2>1, OutputsKept DEF DataInv, Covered, Queued, Sinks
<1>7. RoundSettled'
  BY <1>0 DEF RoundSettled, Done
<1>8. \A goal : AllSettled(goal)' <=> AllSettled(goal)
  BY <1>0, OutputsKept DEF AllSettled, Sinks
<1>9. \A f \in Flushers :
         /\ flusher'[f].ticket = flusher[f].ticket /\ flusher'[f].goal = flusher[f].goal
         /\ flusher'[f].at = IF flusher[f].at = "asleep" THEN "woken" ELSE flusher[f].at
  <2>1. \A f \in Flushers : flusher[f] \in FlusherRecords
    OBVIOUS
  <2>2. QED BY <1>0, <2>1 DEF FlusherRecords
<1>10. ASSUME NEW f \in Flushers PROVE Barrier(f)'
  <2>1. Barrier(f)
    BY DEF DataInv
  <2>2. flusher'[f].at \in {"asleep", "woken"} => flusher[f].at \in {"asleep", "woken"}
    BY <1>9
  <2>3. flusher'[f].at = "returned" => flusher[f].at = "returned"
    BY <1>9
  <2>4. QED BY <1>0, <1>1, <1>8, <1>9, <2>1, <2>2, <2>3 DEF Barrier
<1>11. ExitSettled'
  <2> SUFFICES ASSUME pump' = "exited"
               PROVE  AllSettled(accepted)' /\ \A f \in Flushers : flusher'[f].at # "asleep"
    BY DEF ExitSettled
  <2>1. queue = << >>
    BY <1>0 DEF DataInv, OutOfLoop
  <2>2. AllSettled(accepted)
    BY <1>0, <2>1 DEF DataInv, RoundSettled, Done, Queued, AllSettled
  <2>3. QED BY <1>0, <1>8, <1>9, <2>2
<1>12. QED BY <1>2, <1>3, <1>4, <1>5, <1>6, <1>7, <1>10, <1>11 DEF DataInv

\* The logger starts with nothing accepted.
LEMMA DataInit ==
    ASSUME Init
    PROVE  DataInv
<1>1. /\ queue = << >> /\ Len(queue) = 0 /\ accepted = 0 /\ flush_requested = 0 /\ flush_completed = 0
      /\ sink_failures = 0 /\ pump = "test" /\ item = NoItem /\ item.kind = "none" /\ sink = 1
      /\ written = [s \in Sinks |-> << >>] /\ flushed = [s \in Sinks |-> 0]
      /\ lost = [s \in Sinks |-> {}]
      /\ \A f \in Flushers : /\ flusher[f].at = "idle" /\ flusher[f].ticket = 0
                             /\ flusher[f].goal = 0
  BY DEF Init, NoItem
<1>2. \A i \in 1 .. 0 : FALSE
  OBVIOUS
<1>3. DataTypes
  <2>1. item \in Items
    BY <1>1 DEF NoItem, Items
  <2>2. sink \in Sinks /\ 0 \in 0 .. MaxFailures /\ 0 \in 0 .. MaxFlushes /\ 0 \in 0 .. 0
    BY <1>1, LoggerAssumption DEF Sinks
  <2>3. written \in [Sinks -> Seq(1 .. accepted)] /\ \A s \in Sinks : Len(written[s]) = 0
    BY <1>1
  <2>4. QED BY <1>1, <2>1, <2>2, <2>3 DEF DataTypes, Resting
<1>4. Places /\ OutOfLoop /\ ExitSettled
  BY <1>1, <1>2 DEF Places, OutOfLoop, ExitSettled
<1>5. Covered /\ RoundSettled
  BY <1>1, <1>2 DEF Covered, RoundSettled, Done
<1>6. InOrder /\ DeliveryInOrder
  BY <1>1, <1>2 DEF InOrder, DeliveryInOrder
<1>7. LossCounted
  <2>1. \A s \in Sinks : lost[s] = {}
    BY <1>1
  <2>2. QED BY <1>1, <2>1, FS_EmptySet DEF LossCounted
<1>8. RecordsBounded
  <2>1. {i \in 1 .. Len(queue) : queue[i].kind = "record"} = {}
    BY <1>1, <1>2
  <2>2. Cardinality({}) = 0 /\ 0 <= Capacity
    BY FS_EmptySet, LoggerAssumption
  <2>3. QED BY <2>1, <2>2 DEF RecordsBounded
<1>9. \A f \in Flushers : Barrier(f)
  BY <1>1 DEF Barrier
<1>10. QED BY <1>3, <1>4, <1>5, <1>6, <1>7, <1>8, <1>9 DEF DataInv

\* Records and markers are where they should be after every step.
LEMMA DataStep ==
    ASSUME TypeOK, DataInv, [Next]_vars
    PROVE  DataInv'
<1>1. flusher \in [Flushers -> FlusherRecords]
  BY DEF TypeOK, FlusherRecords
<1>2. QED
  BY <1>1, StepKinds, RestsKeep, AcceptsKeep, FlushRequestKeeps, PumpTakeKeeps, PumpDrainedKeeps,
     PumpNotifySpaceKeeps, DeliverRenderKeeps, DeliverRenderFailsKeeps, DeliverWriteKeeps,
     DeliverWriteFailsKeeps, FlushSinkKeeps, FlushCompleteKeeps, FlushNotifyKeeps

\* The part of TypeOK that is about the threads.
ThreadTypes ==
    /\ policy \in Policies /\ min_level \in {"trace", "off"} /\ stopping \in BOOLEAN
    /\ dropped \in Nat
    /\ producer \in [Producers -> {"idle", "enqueue", "asleep", "woken", "notify"}]
    /\ flusher \in [Flushers -> FlusherRecords]
    /\ owner \in {"up", "notify_records", "notify_space", "joining", "down"}

\* The two parts make up TypeOK.
LEMMA TypesFollow == DataTypes /\ ThreadTypes => TypeOK
<1> SUFFICES ASSUME DataTypes, ThreadTypes PROVE TypeOK
  OBVIOUS
<1>1. \A s \in Sinks : /\ written[s] \in Seq(1 .. accepted) /\ flushed[s] \in 0 .. Len(written[s])
                       /\ lost[s] \subseteq 1 .. accepted
  <2> SUFFICES ASSUME NEW s \in Sinks
               PROVE  /\ written[s] \in Seq(1 .. accepted) /\ flushed[s] \in 0 .. Len(written[s])
                      /\ lost[s] \subseteq 1 .. accepted
    OBVIOUS
  <2>1. written[s] \in Seq(1 .. accepted) /\ lost[s] \subseteq 1 .. accepted
    BY DEF DataTypes
  <2>2. Len(written[s]) \in Nat
    BY <2>1
  <2>3. flushed[s] \in Nat /\ flushed[s] <= Len(written[s])
    BY DEF DataTypes
  <2>4. QED BY <2>1, <2>2, <2>3
<1>2. QED BY <1>1 DEF DataTypes, ThreadTypes, FlusherRecords, TypeOK, Resting

-----------------------------------------------------------------------------
(* Who waits for whom.                                                     *)

Labels == {"idle", "enqueue", "asleep", "woken", "notify"}

\* The slots that are taken or have been announced to a producer.
Spoken == Len(queue) + Cardinality(ProducersAt("woken")) + (IF pump = "notify_space" THEN 1 ELSE 0)

\* Producers are finitely many, whatever their place.
LEMMA CountProducers ==
    ASSUME NEW label
    PROVE  /\ IsFiniteSet(ProducersAt(label)) /\ Cardinality(ProducersAt(label)) \in Nat
           /\ IsFiniteSet(ProducersAt(label)') /\ Cardinality(ProducersAt(label)') \in Nat
<1>1. ProducersAt(label) \subseteq Producers /\ ProducersAt(label)' \subseteq Producers
  BY DEF ProducersAt
<1>2. IsFiniteSet(ProducersAt(label)) /\ IsFiniteSet(ProducersAt(label)')
  BY <1>1, LoggerAssumption, FS_Subset
<1>3. QED BY <1>2, FS_CardinalityType

\* A producer that goes elsewhere: how many are woken and who sleeps.
LEMMA ProducerGoes ==
    ASSUME NEW p \in Producers, NEW label \in Labels, producer \in [Producers -> Labels],
           ProducerGoto(p, label)
    PROVE  /\ producer[p] # "woken" => Cardinality(ProducersAt("woken")) <= Cardinality(ProducersAt("woken")')
           /\ Cardinality(ProducersAt("woken")) <= Cardinality(ProducersAt("woken")') + 1
           /\ producer[p] = "asleep" /\ label = "woken" =>
                  Cardinality(ProducersAt("woken")') = Cardinality(ProducersAt("woken")) + 1
           /\ label # "asleep" => ProducersAt("asleep")' \subseteq ProducersAt("asleep")
           /\ producer[p] # "notify" => ProducersAt("notify") \subseteq ProducersAt("notify")'
           /\ label = "notify" => ProducersAt("notify")' # {}
<1>1. PICK W, V : W = ProducersAt("woken") /\ V = ProducersAt("woken")'
  OBVIOUS
<1>2. IsFiniteSet(W) /\ Cardinality(W) \in Nat /\ IsFiniteSet(V) /\ Cardinality(V) \in Nat
  BY <1>1, CountProducers
<1>3. /\ producer'[p] = label /\ \A q \in Producers : q # p => producer'[q] = producer[q]
  BY DEF ProducerGoto
<1>4. W \subseteq V \union {p} /\ (producer[p] # "woken" => W \subseteq V)
  BY <1>1, <1>3 DEF ProducersAt
<1>5. producer[p] # "woken" => Cardinality(W) <= Cardinality(V)
  BY <1>2, <1>4, FS_Subset
<1>6. Cardinality(W) <= Cardinality(V) + 1
  <2>1. /\ IsFiniteSet(V \union {p})
        /\ Cardinality(V \union {p}) = IF p \in V THEN Cardinality(V) ELSE Cardinality(V) + 1
    BY <1>2, FS_AddElement
  <2>2. Cardinality(W) <= Cardinality(V \union {p})
    BY <1>4, <2>1, FS_Subset
  <2>3. QED BY <1>2, <2>1, <2>2
<1>7. producer[p] = "asleep" /\ label = "woken" => Cardinality(V) = Cardinality(W) + 1
  <2> SUFFICES ASSUME producer[p] = "asleep", label = "woken" PROVE Cardinality(V) = Cardinality(W) + 1
    OBVIOUS
  <2>1. V = W \union {p} /\ p \notin W
    BY <1>1, <1>3 DEF ProducersAt
  <2>2. QED BY <1>2, <2>1, FS_AddElement
<1>8. /\ label # "asleep" => ProducersAt("asleep")' \subseteq ProducersAt("asleep")
      /\ producer[p] # "notify" => ProducersAt("notify") \subseteq ProducersAt("notify")'
      /\ label = "notify" => ProducersAt("notify")' # {}
  BY <1>3 DEF ProducersAt
<1>9. QED BY <1>1, <1>5, <1>6, <1>7, <1>8

\* The shutting thread: it is up as long as the logger is not stopping, and it
\* has joined a pump that exited for good.
LEMMA OwnerKept ==
    ASSUME TypeOK, OwnerPlace, [Next]_vars
    PROVE  OwnerPlace'
<1>1. CASE UNCHANGED vars
  BY <1>1 DEF vars, monitor, threads, OwnerPlace
<1>2. ASSUME NEW level, SetLevel(level) PROVE OwnerPlace'
  BY <1>2 DEF SetLevel, monitor, threads, OwnerPlace
<1>3. ASSUME NEW p \in Producers, Log(p) \/ ProducerStep(p) PROVE OwnerPlace'
  BY <1>3 DEF Log, ProducerStep, Enqueue, EnqueueRefused, EnqueueDropped, EnqueueWaits, EnqueueNotify,
              WakePump, PushRecord, monitor, OwnerPlace
<1>4. ASSUME NEW f \in Flushers, FlushRequest(f) \/ FlushWhenStopping(f) \/ FlushTest(f)
      PROVE  OwnerPlace'
  BY <1>4 DEF FlushRequest, FlushWhenStopping, FlushTest, WakePump, monitor, OwnerPlace
<1>5. CASE ShutdownStart \/ ShutdownStep
  BY <1>5 DEF ShutdownStart, ShutdownStep, ShutdownNotifyPump, ShutdownNotifyProducers, ShutdownJoined,
              WakePump, monitor, OwnerPlace
<1>6. CASE PumpStep
  <2>1. pump # "exited" /\ UNCHANGED <<owner, stopping>>
    BY <1>6 DEF PumpStep, PumpSleep, PumpTake, PumpDrained, PumpNotifySpace, DeliverRender,
                DeliverRenderFails, DeliverWrite, DeliverWriteFails, FlushSink, FlushComplete,
                FlushNotify, monitor, others
  <2>2. QED BY <2>1 DEF OwnerPlace
<1>7. CASE ReentrantLog
  BY <1>7 DEF ReentrantLog, PushRecord, monitor, threads, OwnerPlace
<1>8. CASE SpuriousWakeup
  BY <1>8 DEF SpuriousWakeup, monitor, others, OwnerPlace
<1>9. QED BY <1>1, <1>2, <1>3, <1>4, <1>5, <1>6, <1>7, <1>8 DEF Next

\* No free slot goes unannounced when none is lost to the count and nobody has
\* gone to sleep.
LEMMA StillSpoken ==
    ASSUME NoStrandedProducer, UNCHANGED <<owner, stopping>>,
           ProducersAt("asleep")' \subseteq ProducersAt("asleep"),
           Spoken \in Nat, Spoken' \in Nat, ~ stopping => Spoken <= Spoken'
    PROVE  NoStrandedProducer'
<1> SUFFICES ASSUME ProducersAt("asleep")' # {}, ~ (owner \in {"notify_records", "notify_space"})
             PROVE  ~ stopping /\ Capacity <= Spoken'
  BY DEF NoStrandedProducer, Spoken
<1>1. ~ stopping /\ Capacity <= Spoken
  BY DEF NoStrandedProducer, Spoken
<1>2. QED BY <1>1, LoggerAssumption

\* What the count is made of.
LEMMA Counting ==
    ASSUME queue \in Seq(Items), queue' \in Seq(Items)
    PROVE  /\ Len(queue) \in Nat /\ Len(queue') \in Nat
           /\ Cardinality(ProducersAt("woken")) \in Nat /\ Cardinality(ProducersAt("woken")') \in Nat
           /\ Spoken \in Nat /\ Spoken' \in Nat
<1>1. Len(queue) \in Nat /\ Len(queue') \in Nat
  OBVIOUS
<1>2. Cardinality(ProducersAt("woken")) \in Nat /\ Cardinality(ProducersAt("woken")') \in Nat
  BY CountProducers
<1>3. QED BY <1>1, <1>2 DEF Spoken

\* No producer sleeps on while there is room.
LEMMA ProducersKept ==
    ASSUME TypeOK, OwnerPlace, NoStrandedProducer, queue' \in Seq(Items), [Next]_vars
    PROVE  NoStrandedProducer'
<1>a. PICK woken, woken2 : woken = Cardinality(ProducersAt("woken")) /\ woken2 = Cardinality(ProducersAt("woken")')
  OBVIOUS
<1>0. /\ queue \in Seq(Items) /\ producer \in [Producers -> Labels]
      /\ Len(queue) \in Nat /\ Len(queue') \in Nat /\ woken \in Nat /\ woken2 \in Nat
      /\ Spoken \in Nat /\ Spoken' \in Nat
      /\ Spoken = Len(queue) + woken + (IF pump = "notify_space" THEN 1 ELSE 0)
      /\ Spoken' = Len(queue') + woken2 + (IF pump' = "notify_space" THEN 1 ELSE 0)
  <2>1. queue \in Seq(Items) /\ producer \in [Producers -> Labels]
    BY DEF TypeOK, Labels
  <2>2. /\ Len(queue) \in Nat /\ Len(queue') \in Nat /\ woken \in Nat /\ woken2 \in Nat
        /\ Spoken \in Nat /\ Spoken' \in Nat
    BY <1>a, <2>1, Counting
  <2>3. QED BY <1>a, <2>1, <2>2 DEF Spoken
<1>1. UNCHANGED producer => woken2 = woken /\ ProducersAt("asleep")' \subseteq ProducersAt("asleep")
  BY <1>a DEF ProducersAt
<1>2. ASSUME UNCHANGED <<producer, owner, stopping>>, Len(queue) <= Len(queue'),
             pump = "notify_space" => pump' = "notify_space"
      PROVE  NoStrandedProducer'
  <2>1. Spoken <= Spoken'
    BY <1>0, <1>1, <1>2
  <2>2. QED BY <1>0, <1>1, <1>2, <2>1, StillSpoken
<1>3. PushRecord => Len(queue) <= Len(queue')
  <2> SUFFICES ASSUME PushRecord PROVE Len(queue) <= Len(queue')
    OBVIOUS
  <2>1. Len(queue') = Len(queue) + 1
    BY <1>0 DEF PushRecord
  <2>2. QED BY <1>0, <2>1
<1>4. ASSUME UNCHANGED queue PROVE Len(queue) <= Len(queue')
  BY <1>0, <1>4
<1>5. CASE UNCHANGED vars
  BY <1>2, <1>4, <1>5 DEF vars, monitor, threads
<1>6. ASSUME NEW level, SetLevel(level) PROVE NoStrandedProducer'
  BY <1>2, <1>4, <1>6 DEF SetLevel, monitor, threads
<1>7. ASSUME NEW p \in Producers, Log(p) \/ ProducerStep(p) PROVE NoStrandedProducer'
  <2>0. ASSUME NEW label \in Labels, ProducerGoto(p, label)
        PROVE  /\ producer[p] # "woken" => woken <= woken2
               /\ woken <= woken2 + 1
               /\ label # "asleep" => ProducersAt("asleep")' \subseteq ProducersAt("asleep")
    BY <1>0, <1>a, <2>0, ProducerGoes
  <2>1. CASE Log(p)
    <3>1. /\ ProducerGoto(p, "enqueue") /\ producer[p] # "woken"
          /\ UNCHANGED <<queue, pump, owner, stopping>>
      BY <2>1 DEF Log, monitor
    <3>2. woken <= woken2 /\ ProducersAt("asleep")' \subseteq ProducersAt("asleep")
      BY <2>0, <3>1 DEF Labels
    <3>3. Spoken <= Spoken'
      BY <1>0, <3>1, <3>2
    <3>4. QED BY <1>0, <3>1, <3>2, <3>3, StillSpoken
  <2>2. CASE Enqueue(p)
    <3>1. ProducerGoto(p, "notify") /\ PushRecord /\ UNCHANGED <<pump, owner, stopping>>
      BY <2>2 DEF Enqueue, PushRecord
    <3>2. Len(queue') = Len(queue) + 1
      BY <1>0, <3>1 DEF PushRecord
    <3>3. woken <= woken2 + 1 /\ ProducersAt("asleep")' \subseteq ProducersAt("asleep")
      BY <2>0, <3>1 DEF Labels
    <3>4. Spoken <= Spoken'
      BY <1>0, <3>1, <3>2, <3>3
    <3>5. QED BY <1>0, <3>1, <3>3, <3>4, StillSpoken
  <2>3. CASE EnqueueRefused(p)
    <3>1. ProducerGoto(p, "idle") /\ stopping /\ UNCHANGED <<owner, stopping>>
      BY <2>3 DEF EnqueueRefused, monitor
    <3>2. ProducersAt("asleep")' \subseteq ProducersAt("asleep")
      BY <2>0, <3>1 DEF Labels
    <3>3. QED BY <1>0, <3>1, <3>2, StillSpoken
  <2>4. CASE EnqueueDropped(p)
    <3>1. /\ ProducerGoto(p, "idle") /\ producer[p] # "woken"
          /\ UNCHANGED <<queue, pump, owner, stopping>>
      BY <2>4 DEF EnqueueDropped, monitor
    <3>2. woken <= woken2 /\ ProducersAt("asleep")' \subseteq ProducersAt("asleep")
      BY <2>0, <3>1 DEF Labels
    <3>3. Spoken <= Spoken'
      BY <1>0, <3>1, <3>2
    <3>4. QED BY <1>0, <3>1, <3>2, <3>3, StillSpoken
  <2>5. CASE EnqueueWaits(p)
    <3>1. ~ stopping' /\ Capacity <= Len(queue')
      BY <1>0, <2>5, LoggerAssumption DEF EnqueueWaits, Full, monitor
    <3>2. Capacity <= Spoken'
      BY <1>0, <3>1, LoggerAssumption
    <3>3. QED BY <3>1, <3>2 DEF NoStrandedProducer, Spoken
  <2>6. CASE EnqueueNotify(p)
    <3>1. /\ ProducerGoto(p, "idle") /\ producer[p] # "woken"
          /\ UNCHANGED <<queue, owner, stopping>>
          /\ pump = "notify_space" => pump' = "notify_space"
      BY <2>6 DEF EnqueueNotify, WakePump, monitor
    <3>2. woken <= woken2 /\ ProducersAt("asleep")' \subseteq ProducersAt("asleep")
      BY <2>0, <3>1 DEF Labels
    <3>3. Spoken <= Spoken'
      BY <1>0, <3>1, <3>2
    <3>4. QED BY <1>0, <3>1, <3>2, <3>3, StillSpoken
  <2>7. QED BY <1>7, <2>1, <2>2, <2>3, <2>4, <2>5, <2>6 DEF ProducerStep
<1>8. ASSUME NEW f \in Flushers, FlushRequest(f) PROVE NoStrandedProducer'
  <2>1. /\ UNCHANGED <<producer, owner, stopping>>
        /\ pump = "notify_space" => pump' = "notify_space"
        /\ queue' = Append(queue, FlushMarker(flush_requested + 1))
    BY <1>8 DEF FlushRequest, WakePump, QueueMarker
  <2>2. Len(queue') = Len(queue) + 1
    BY <1>0, <2>1
  <2>3. QED BY <1>0, <1>2, <2>1, <2>2
<1>9. ASSUME NEW f \in Flushers, FlushWhenStopping(f) \/ FlushTest(f) PROVE NoStrandedProducer'
  BY <1>2, <1>4, <1>9 DEF FlushWhenStopping, FlushTest, monitor
<1>10. CASE ShutdownStart \/ ShutdownNotifyPump
  BY <1>10 DEF ShutdownStart, ShutdownNotifyPump, NoStrandedProducer
<1>11. CASE ShutdownNotifyProducers
  <2>1. ProducersAt("asleep")' = {}
    BY <1>11 DEF ShutdownNotifyProducers, ProducersAt
  <2>2. QED BY <2>1 DEF NoStrandedProducer
<1>12. CASE ShutdownJoined
  <2>1. ProducersAt("asleep") = {} /\ UNCHANGED producer
    BY <1>12 DEF ShutdownJoined, NoStrandedProducer, OwnerPlace
  <2>2. ProducersAt("asleep")' = {}
    BY <2>1 DEF ProducersAt
  <2>3. QED BY <2>2 DEF NoStrandedProducer
<1>13. CASE PumpTake
  <2>1. /\ UNCHANGED <<producer, owner, stopping>> /\ pump # "notify_space" /\ pump' = "notify_space"
        /\ queue # << >> /\ queue' = Tail(queue)
    BY <1>13 DEF PumpTake, others
  <2>2. Len(queue') = Len(queue) - 1
    BY <1>0, <2>1
  <2>3. Spoken <= Spoken'
    BY <1>0, <1>1, <2>1, <2>2
  <2>4. QED BY <1>0, <1>1, <2>1, <2>3, StillSpoken
<1>14. CASE PumpNotifySpace
  <2>1. UNCHANGED <<queue, owner, stopping>> /\ NotifySpace /\ pump' # "notify_space"
    BY <1>14 DEF PumpNotifySpace, monitor
  <2>2. CASE ProducersAt("asleep") = {} /\ UNCHANGED producer
    <3>1. ProducersAt("asleep")' = {}
      BY <2>2 DEF ProducersAt
    <3>2. QED BY <3>1 DEF NoStrandedProducer
  <2>3. ASSUME NEW p \in ProducersAt("asleep"), ProducerGoto(p, "woken") PROVE NoStrandedProducer'
    <3>1. p \in Producers /\ producer[p] = "asleep" /\ "woken" \in Labels
      BY DEF ProducersAt, Labels
    <3>2. woken2 = woken + 1 /\ ProducersAt("asleep")' \subseteq ProducersAt("asleep")
      BY <1>0, <1>a, <2>3, <3>1, ProducerGoes
    <3>3. Spoken <= Spoken'
      BY <1>0, <2>1, <3>2
    <3>4. QED BY <1>0, <2>1, <3>2, <3>3, StillSpoken
  <2>4. QED BY <2>1, <2>2, <2>3 DEF NotifySpace
<1>15. CASE PumpStep /\ ~ PumpTake /\ ~ PumpNotifySpace
  <2>1. UNCHANGED <<producer, owner, stopping, queue>> /\ pump # "notify_space"
    BY <1>15 DEF PumpStep, PumpSleep, PumpDrained, DeliverRender, DeliverRenderFails,
                 DeliverWrite, DeliverWriteFails, FlushSink, FlushComplete, FlushNotify, monitor, others
  <2>2. QED BY <1>2, <1>4, <2>1
<1>16. CASE ReentrantLog
  <2>1. /\ UNCHANGED <<producer, owner, pump, stopping>> /\ (PushRecord \/ UNCHANGED queue)
    BY <1>16 DEF ReentrantLog, PushRecord, monitor, threads
  <2>2. QED BY <1>2, <1>3, <1>4, <2>1
<1>17. CASE SpuriousWakeup
  <2>1. CASE UNCHANGED <<producer, owner, stopping, queue>> /\ (pump' = pump \/ pump = "asleep")
    BY <1>2, <1>4, <2>1
  <2>2. ASSUME NEW p \in ProducersAt("asleep"), ProducerGoto(p, "woken"),
               UNCHANGED <<owner, stopping, queue, pump>>
        PROVE  NoStrandedProducer'
    <3>1. p \in Producers /\ producer[p] = "asleep" /\ "woken" \in Labels
      BY DEF ProducersAt, Labels
    <3>2. woken2 = woken + 1 /\ ProducersAt("asleep")' \subseteq ProducersAt("asleep")
      BY <1>0, <1>a, <2>2, <3>1, ProducerGoes
    <3>3. Spoken <= Spoken'
      BY <1>0, <2>2, <3>2
    <3>4. QED BY <1>0, <2>2, <3>2, <3>3, StillSpoken
  <2>3. QED BY <1>17, <2>1, <2>2 DEF SpuriousWakeup, monitor, others
<1>18. QED
  BY <1>5, <1>6, <1>7, <1>8, <1>9, <1>10, <1>11, <1>12, <1>13, <1>14, <1>15, <1>16, <1>17
     DEF Next, ShutdownStep

\* The pump does not sleep while there is something for it to do.
PumpAwake ==
    pump = "asleep" => \/ queue = << >> /\ ~ stopping
                       \/ owner = "notify_records" \/ ProducersAt("notify") # {}

\* Nobody sleeps in flush() whose ticket has completed, but for the moment
\* before the notification.
FlushersAwake ==
    \A f \in Flushers : flusher[f].at = "asleep" =>
        flush_completed < flusher[f].ticket \/ pump = "notify_flushed"

\* Whoever gives the pump work wakes it.
LEMMA PumpKeptAwake ==
    ASSUME TypeOK, PumpAwake, [Next]_vars
    PROVE  PumpAwake'
<1>0. producer \in [Producers -> Labels]
  BY DEF TypeOK, Labels
<1>1. ASSUME UNCHANGED <<queue, stopping, owner>>, ProducersAt("notify") \subseteq ProducersAt("notify")',
             pump' = "asleep" => pump = "asleep"
      PROVE  PumpAwake'
  BY <1>1 DEF PumpAwake
<1>2. UNCHANGED producer => ProducersAt("notify") \subseteq ProducersAt("notify")'
  BY DEF ProducersAt
<1>3. CASE UNCHANGED vars
  BY <1>1, <1>2, <1>3 DEF vars, monitor, threads
<1>4. ASSUME NEW level, SetLevel(level) PROVE PumpAwake'
  BY <1>1, <1>2, <1>4 DEF SetLevel, monitor, threads
<1>5. ASSUME NEW p \in Producers, Log(p) \/ ProducerStep(p) PROVE PumpAwake'
  <2>1. CASE Enqueue(p)
    <3>1. ProducerGoto(p, "notify") /\ "notify" \in Labels
      BY <2>1 DEF Enqueue, Labels
    <3>2. ProducersAt("notify")' # {}
      BY <1>0, <3>1, ProducerGoes
    <3>3. QED BY <3>2 DEF PumpAwake
  <2>2. CASE EnqueueNotify(p)
    BY <2>2 DEF EnqueueNotify, WakePump, PumpAwake
  <2>3. CASE Log(p) \/ EnqueueRefused(p) \/ EnqueueDropped(p) \/ EnqueueWaits(p)
    <3>1. /\ UNCHANGED <<queue, stopping, owner, pump>> /\ producer[p] # "notify"
          /\ \E label \in Labels : ProducerGoto(p, label)
      BY <2>3 DEF Log, EnqueueRefused, EnqueueDropped, EnqueueWaits, monitor, Labels
    <3>2. ProducersAt("notify") \subseteq ProducersAt("notify")'
      BY <1>0, <3>1, ProducerGoes
    <3>3. QED BY <1>1, <3>1, <3>2
  <2>4. QED BY <1>5, <2>1, <2>2, <2>3 DEF ProducerStep
<1>6. ASSUME NEW f \in Flushers, FlushRequest(f) PROVE PumpAwake'
  BY <1>6 DEF FlushRequest, WakePump, PumpAwake
<1>7. ASSUME NEW f \in Flushers, FlushWhenStopping(f) \/ FlushTest(f) PROVE PumpAwake'
  BY <1>1, <1>2, <1>7 DEF FlushWhenStopping, FlushTest, monitor
<1>8. CASE ShutdownStart \/ ShutdownNotifyPump
  BY <1>8 DEF ShutdownStart, ShutdownNotifyPump, WakePump, PumpAwake
<1>9. CASE ShutdownNotifyProducers
  <2>1. /\ UNCHANGED <<queue, stopping, pump>> /\ owner = "notify_space"
        /\ producer' = [p \in Producers |-> IF producer[p] = "asleep" THEN "woken" ELSE producer[p]]
    BY <1>9 DEF ShutdownNotifyProducers, monitor
  <2>2. ProducersAt("notify") \subseteq ProducersAt("notify")'
    BY <2>1 DEF ProducersAt
  <2>3. QED BY <2>1, <2>2 DEF PumpAwake
<1>10. CASE ShutdownJoined
  BY <1>10 DEF ShutdownJoined, PumpAwake
<1>11. CASE PumpSleep
  BY <1>11 DEF PumpSleep, monitor, PumpAwake
<1>12. CASE PumpStep /\ ~ PumpSleep
  <2>1. pump' # "asleep"
    BY <1>12 DEF PumpStep, PumpTake, PumpDrained, PumpNotifySpace, DeliverRender,
                 DeliverRenderFails, DeliverWrite, DeliverWriteFails, GoOnDelivering, NextSink,
                 FlushSink, FlushComplete, FlushNotify
  <2>2. QED BY <2>1 DEF PumpAwake
<1>13. CASE ReentrantLog
  BY <1>13 DEF ReentrantLog, PumpAwake
<1>14. CASE SpuriousWakeup
  <2>1. CASE pump' = "woken"
    BY <2>1 DEF PumpAwake
  <2>2. CASE UNCHANGED <<queue, stopping, owner, producer, pump>>
    BY <1>1, <1>2, <2>2
  <2>3. ASSUME NEW p \in ProducersAt("asleep"), ProducerGoto(p, "woken"),
               UNCHANGED <<queue, stopping, owner, pump>>
        PROVE  PumpAwake'
    <3>1. p \in Producers /\ producer[p] # "notify" /\ "woken" \in Labels
      BY DEF ProducersAt, Labels
    <3>2. ProducersAt("notify") \subseteq ProducersAt("notify")'
      BY <1>0, <2>3, <3>1, ProducerGoes
    <3>3. QED BY <1>1, <2>3, <3>2
  <2>4. QED BY <1>14, <2>1, <2>2, <2>3 DEF SpuriousWakeup, monitor, others
<1>15. QED
  BY <1>3, <1>4, <1>5, <1>6, <1>7, <1>8, <1>9, <1>10, <1>11, <1>12, <1>13, <1>14
     DEF Next, ShutdownStep

\* Nobody is left asleep in flush() by a round that completed its ticket.
LEMMA FlushersKeptAwake ==
    ASSUME TypeOK, FlushersAwake, [Next]_vars
    PROVE  FlushersAwake'
<1>0. /\ flusher \in [Flushers -> FlusherRecords] /\ flush_requested \in Nat
      /\ flush_completed \in Nat /\ flush_completed <= flush_requested
  BY LoggerAssumption DEF TypeOK, FlusherRecords
<1>1. ASSUME UNCHANGED flush_completed, pump = "notify_flushed" => pump' = "notify_flushed",
             \A f \in Flushers : FlusherMoves(flusher[f], flusher'[f])
      PROVE  FlushersAwake'
  BY <1>1 DEF FlushersAwake, FlusherMoves
<1>2. CASE Rests
  <2>1. UNCHANGED flush_completed /\ (pump = "notify_flushed" => pump' = "notify_flushed")
    BY <1>2 DEF Rests
  <2>2. QED BY <1>1, <1>2, <2>1 DEF Rests
<1>3. CASE Accepts
  <2>1. UNCHANGED <<flush_completed, flusher, pump>>
    BY <1>3 DEF Accepts, PushRecord
  <2>2. QED BY <2>1 DEF FlushersAwake
<1>4. ASSUME NEW f \in Flushers, FlushRequest(f) PROVE FlushersAwake'
  <2> SUFFICES ASSUME NEW g \in Flushers, flusher'[g].at = "asleep"
               PROVE  flush_completed' < flusher'[g].ticket \/ pump' = "notify_flushed"
    BY DEF FlushersAwake
  <2>1. UNCHANGED flush_completed /\ (pump = "notify_flushed" => pump' = "notify_flushed")
    BY <1>4 DEF FlushRequest, WakePump
  <2>2. CASE g = f
    <3>1. flusher'[g].ticket = flush_requested + 1
      BY <1>0, <1>4, <2>2 DEF FlushRequest
    <3>2. QED BY <1>0, <2>1, <3>1
  <2>3. CASE g # f
    <3>1. flusher'[g] = flusher[g]
      BY <1>0, <1>4, <2>3 DEF FlushRequest
    <3>2. QED BY <2>1, <3>1 DEF FlushersAwake
  <2>4. QED BY <2>2, <2>3
<1>5. CASE \/ PumpTake \/ PumpDrained \/ PumpNotifySpace \/ DeliverRender \/ DeliverRenderFails
           \/ DeliverWrite \/ DeliverWriteFails \/ FlushSink
  <2>1. UNCHANGED <<flusher, flush_completed>> /\ pump # "notify_flushed"
    BY <1>5 DEF PumpTake, PumpDrained, PumpNotifySpace, DeliverRender, DeliverRenderFails,
                DeliverWrite, DeliverWriteFails, FlushSink, monitor, others
  <2>2. QED BY <2>1 DEF FlushersAwake
<1>6. CASE FlushComplete
  BY <1>6 DEF FlushComplete, FlushersAwake
<1>7. CASE FlushNotify
  <2>1. \A f \in Flushers : flusher'[f].at # "asleep"
    <3> SUFFICES ASSUME NEW f \in Flushers PROVE flusher'[f].at # "asleep"
      OBVIOUS
    <3>1. flusher[f] \in FlusherRecords
      BY <1>0
    <3>2. QED BY <1>7, <3>1 DEF FlushNotify, FlusherRecords
  <2>2. QED BY <2>1 DEF FlushersAwake
<1>8. QED BY <1>2, <1>3, <1>4, <1>5, <1>6, <1>7, StepKinds

-----------------------------------------------------------------------------
(* The theorems.                                                           *)

\* The strengthened invariant holds.
LEMMA LoggerInductive == Spec => []LoggerIInv
<1>1. Init => LoggerIInv
  <2> SUFFICES ASSUME Init PROVE LoggerIInv
    OBVIOUS
  <2>1. DataInv
    BY DataInit
  <2>2. TypeOK
    <3>1. 0 \in 0 .. MaxFlushes
      BY LoggerAssumption
    <3>2. flusher \in [Flushers -> FlusherRecords]
      BY <3>1 DEF Init, FlusherRecords
    <3>3. ThreadTypes
      BY <3>2 DEF Init, ThreadTypes
    <3>4. QED BY <2>1, <3>3, TypesFollow DEF DataInv
  <2>3. OwnerPlace
    BY DEF Init, OwnerPlace
  <2>4. ProducersAt("asleep") = {}
    BY DEF Init, ProducersAt
  <2>5. NoStrandedProducer /\ NoStrandedWaiter
    BY <2>4 DEF Init, NoStrandedProducer, NoStrandedWaiter
  <2>6. QED BY <2>1, <2>2, <2>3, <2>5 DEF LoggerIInv
<1>2. LoggerIInv /\ [Next]_vars => LoggerIInv'
  <2> SUFFICES ASSUME LoggerIInv, [Next]_vars PROVE LoggerIInv'
    OBVIOUS
  <2>1. TypeOK /\ DataInv /\ OwnerPlace /\ NoStrandedProducer /\ PumpAwake /\ FlushersAwake
    BY DEF LoggerIInv, NoStrandedWaiter, PumpAwake, FlushersAwake
  <2>2. DataInv'
    BY <2>1, DataStep
  <2>3. DataTypes' /\ queue' \in Seq(Items)
    BY <2>2 DEF DataInv, DataTypes, Items
  <2>4. TypeOK'
    <3>1. ThreadTypes'
      BY <2>1, ThreadsTyped DEF ThreadTypes, FlusherRecords
    <3>2. DataTypes' /\ ThreadTypes' => TypeOK'
      BY TypesFollow, PTL
    <3>3. QED BY <2>3, <3>1, <3>2
  <2>5. OwnerPlace' /\ NoStrandedProducer'
    BY <2>1, <2>3, OwnerKept, ProducersKept
  <2>6. NoStrandedWaiter'
    <3>1. PumpAwake' /\ FlushersAwake'
      BY <2>1, PumpKeptAwake, FlushersKeptAwake
    <3>2. QED BY <3>1 DEF PumpAwake, FlushersAwake, NoStrandedWaiter
  <2>7. QED BY <2>2, <2>4, <2>5, <2>6 DEF LoggerIInv
<1>3. QED BY <1>1, <1>2, PTL DEF Spec

\* Every sink is handed the accepted records in order and at most once, the
\* records in queue_ never exceed capacity_ under either overflow policy, and
\* no producer, flusher or pump sleeps through a notification that was due,
\* also when a shutdown begins meanwhile.
THEOREM PumpIsSound == Spec => []PumpInv
<1>1. LoggerIInv => PumpInv
  BY DEF LoggerIInv, DataInv, PumpInv
<1>2. QED BY <1>1, LoggerInductive, PTL

\* When a flush() that waited returns, every record accepted before the call has
\* been written and flushed by every sink that did not throw on it; when
\* shutdown() returns, every accepted record has, and nobody is left in flush().
THEOREM ReturnsAreBarriers == Spec => []WrittenOnReturn
<1>1. LoggerIInv => WrittenOnReturn
  <2> SUFFICES ASSUME LoggerIInv PROVE FlushBarrier /\ DrainedWhenDown
    BY DEF WrittenOnReturn
  <2>1. FlushBarrier
    BY DEF LoggerIInv, DataInv, Barrier, AllSettled, FlushBarrier
  <2>2. DrainedWhenDown
    BY DEF LoggerIInv, DataInv, OwnerPlace, OutOfLoop, ExitSettled, AllSettled, DrainedWhenDown
  <2>3. QED BY <2>1, <2>2
<1>2. QED BY <1>1, LoggerInductive, PTL

\* Between two items every accepted record is in the queue, written by the sink,
\* or lost to it by a failure that was counted: a sink that throws costs its
\* siblings nothing.
THEOREM NothingLostInSilence == Spec => []NoSilentLoss
<1>1. LoggerIInv => NoSilentLoss
  <2> SUFFICES ASSUME LoggerIInv PROVE NoSilentLoss
    OBVIOUS
  <2>1. Covered /\ LossCounted /\ DataTypes
    BY DEF LoggerIInv, DataInv
  <2>2. ASSUME pump \in Resting, NEW s \in Sinks, NEW n \in 1 .. accepted
        PROVE  Queued(n) \/ Handled(s, n)
    <3>1. item # Record(n)
      BY <2>1, <2>2 DEF DataTypes, NoItem, Record
    <3>2. QED BY <2>1, <3>1 DEF Covered
  <2>3. QED BY <2>1, <2>2 DEF NoSilentLoss, LossCounted, Queued, Handled, Resting
<1>2. QED BY <1>1, LoggerInductive, PTL
=============================================================================
