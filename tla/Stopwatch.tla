------------------------------ MODULE Stopwatch ------------------------------
(***************************************************************************)
(* Stopwatch (stopwatch.hpp), with the steady clock it reads.              *)
(***************************************************************************)
EXTENDS Integers, Sequences, FiniteSets

CONSTANTS MaxTime, MaxCalls     \* bounds: the clock, and the calls

VARIABLES
    now,        \* steady_clock, in nanoseconds
    running_, accumulated_, started_at_,
    calls       \* the calls that did not throw, with the time of each

vars == <<now, running_, accumulated_, started_at_, calls>>

Init ==
    /\ now = 0 /\ running_ = FALSE /\ accumulated_ = 0 /\ started_at_ = 0
    /\ calls = <<>>

Tick ==
    /\ now < MaxTime /\ now' = now + 1
    /\ UNCHANGED <<running_, accumulated_, started_at_, calls>>

Called(op) ==
    /\ Len(calls) < MaxCalls
    /\ calls' = Append(calls, [op |-> op, at |-> now])
    /\ UNCHANGED now

(* start() throws when running, stop() when not: nothing changes. *)
Start ==
    /\ ~running_
    /\ running_' = TRUE /\ started_at_' = now
    /\ Called("start") /\ UNCHANGED accumulated_

\* Mutant: the interval takes the place of the total.
IntervalAlone == now - started_at_

\* The total with the open interval.
WithInterval == accumulated_ + (now - started_at_)

Stop ==
    /\ running_
    /\ accumulated_' = WithInterval /\ running_' = FALSE
    /\ Called("stop") /\ UNCHANGED started_at_

Reset ==
    /\ accumulated_' = 0 /\ running_' = FALSE
    /\ Called("reset") /\ UNCHANGED started_at_

(* restart(): reset(), then start(); also start_new() for a new watch. *)
Restart ==
    /\ accumulated_' = 0 /\ running_' = TRUE /\ started_at_' = now
    /\ Called("restart")

Next == Tick \/ Start \/ Stop \/ Reset \/ Restart

Spec == Init /\ [][Next]_vars

-----------------------------------------------------------------------------
elapsed == IF running_ THEN WithInterval ELSE accumulated_

\* The last call at or before the tick that begins at t left the watch running ...
RunningAt(t) ==
    \E i \in DOMAIN calls :
        /\ calls[i].op \in {"start", "restart"} /\ calls[i].at <= t
        /\ \A j \in i + 1 .. Len(calls) : calls[j].at > t

\* ... and no call after it zeroed the total.
Zeroed(t) == \E i \in DOMAIN calls : calls[i].op \in {"reset", "restart"} /\ calls[i].at > t

(* elapsed() is the time the watch ran since the total was last zeroed,    *)
(* over every interval opened and closed since, the open one included,     *)
(* whatever calls were made at the same instant.                           *)
ElapsedExact == elapsed = Cardinality({t \in 0 .. now - 1 : RunningAt(t) /\ ~Zeroed(t)})

=============================================================================
