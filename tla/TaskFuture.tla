------------------------------ MODULE TaskFuture ------------------------------
(***************************************************************************)
(* TaskPromise, TaskFuture and the SharedTaskState between them            *)
(* (task_future.hpp).  The producer owns the promise, the consumer the     *)
(* future; they meet in the shared state, a monitor.  Every stretch of     *)
(* code under the mutex is one step, and a notification made after it is a *)
(* step of its own.                                                        *)
(*                                                                         *)
(* A promise that is moved into another object goes on as the same         *)
(* promise; operations on a moved-from promise, on an invalid future, a    *)
(* second get_future, a null exception and a second delivery throw and     *)
(* change nothing.                                                         *)
(***************************************************************************)
EXTENDS Naturals

CONSTANTS Values, Errors,
          Broken,           \* BrokenTaskPromise
          BadAccess,        \* std::bad_variant_access
          NoOutcome,        \* nothing delivered
          PayloadThrows     \* whether constructing the payload may throw

ASSUME FutureAssumption ==
    /\ PayloadThrows \in BOOLEAN
    /\ Values \intersect Errors = {}
    /\ {Broken, BadAccess, NoOutcome} \intersect (Values \union Errors) = {}
    /\ Broken # BadAccess /\ NoOutcome \notin {Broken, BadAccess}

VARIABLES index,      \* result_.index(): 0 empty, 1 value, 2 exception;
                      \* 3 stands for valueless_by_exception
          stored,     \* what the variant holds
          abandoned,  \* abandoned_
          promise,    \* "alive", "notifying" (inside set_* or abandon) or "dead"
          dying,      \* the notification under way is abandon's
          retrieved,  \* future_retrieved_
          future,     \* "none", "valid" or "invalid": the TaskFuture's state_
          pc,         \* where the consumer is
          call,       \* the call it is in: "get" or "wait"
          timed,      \* that call has a deadline
          got         \* what get() returned or threw

state == <<index, stored, abandoned>>
producer == <<promise, dying, retrieved>>
consumer == <<future, pc, call, timed, got>>
vars == <<state, producer, consumer>>

has_outcome == index # 0 \/ abandoned

Init ==
    /\ index = 0 /\ stored = NoOutcome /\ abandoned = FALSE
    /\ promise = "alive" /\ dying = FALSE /\ retrieved = FALSE
    /\ future = "none" /\ pc = "idle" /\ call = "wait" /\ timed = FALSE
    /\ got = NoOutcome

-----------------------------------------------------------------------------
(* The producer *)

GetFuture ==
    /\ promise = "alive" /\ ~ retrieved
    /\ retrieved' = TRUE
    /\ future' = "valid"
    /\ UNCHANGED <<state, promise, dying, pc, call, timed, got>>

\* Mutant: a second delivery overwrites the first.
ensure_nothing == TRUE

\* A second delivery throws.
ensure_unset == ~ has_outcome

Deliver(alternative, outcome) ==
    /\ promise = "alive" /\ ensure_unset
    /\ index' = alternative /\ stored' = outcome
    /\ promise' = "notifying"
    /\ UNCHANGED <<abandoned, dying, retrieved, consumer>>

SetValue(v) == Deliver(1, v)

\* A null exception_ptr is refused.
SetException(e) == Deliver(2, e)

\* The payload's constructor throws inside emplace: the variant is left
\* valueless, and set_value is left by the exception before the notification.
SetValueThrows ==
    /\ PayloadThrows
    /\ promise = "alive" /\ ensure_unset
    /\ index' = 3
    /\ UNCHANGED <<stored, abandoned, producer, consumer>>

\* Mutant: a satisfied state is abandoned too.
AnyState == TRUE

Unsatisfied == index = 0 /\ ~ abandoned

\* ~TaskPromise, or a move assignment over the promise: abandon().
Destroy ==
    /\ promise = "alive"
    /\ \/ /\ Unsatisfied
          /\ abandoned' = TRUE
          /\ promise' = "notifying" /\ dying' = TRUE
       \/ /\ ~ Unsatisfied
          /\ promise' = "dead"
          /\ UNCHANGED <<abandoned, dying>>
    /\ UNCHANGED <<index, stored, retrieved, consumer>>

\* Mutant: abandonment is not announced.
WokenByDelivery(label) == IF label = "asleep" /\ ~ dying THEN "woken" ELSE label

Woken(label) == IF label = "asleep" THEN "woken" ELSE label

\* ready_.notify_all(), after which set_* or the destructor returns.
Notify ==
    /\ promise = "notifying"
    /\ promise' = IF dying THEN "dead" ELSE "alive"
    /\ dying' = FALSE
    /\ pc' = Woken(pc)
    /\ UNCHANGED <<state, retrieved, future, call, timed, got>>

-----------------------------------------------------------------------------
(* The consumer *)

\* get() gives up the future's state_ before anything else; wait, wait_for
\* and wait_until keep it.
Call(c, deadline) ==
    /\ future = "valid" /\ pc = "idle"
    /\ c = "get" => ~ deadline
    /\ call' = c /\ timed' = deadline
    /\ future' = IF c = "get" THEN "invalid" ELSE future
    /\ pc' = "test"
    /\ UNCHANGED <<state, producer, got>>

Sleep ==
    /\ pc \in {"test", "woken"}
    /\ ~ has_outcome
    /\ pc' = "asleep"
    /\ UNCHANGED <<state, producer, future, call, timed, got>>

\* What get() returns or throws once there is an outcome.  A valueless variant
\* makes std::get<1> throw.
Delivered ==
    CASE index = 2 -> stored
      [] index # 2 /\ abandoned -> Broken
      [] index = 1 /\ ~ abandoned -> stored
      [] OTHER -> BadAccess

Return ==
    /\ pc \in {"test", "woken", "expired"}
    /\ has_outcome
    /\ pc' = "idle"
    /\ got' = IF call = "get" THEN Delivered ELSE got
    /\ timed' = FALSE /\ call' = "wait"
    /\ UNCHANGED <<state, producer, future>>

\* A timed wait returns false.
GiveUp ==
    /\ pc = "expired"
    /\ ~ has_outcome
    /\ pc' = "idle"
    /\ timed' = FALSE
    /\ UNCHANGED <<state, producer, future, call, got>>

SpuriousWakeup ==
    /\ pc = "asleep"
    /\ pc' = "woken"
    /\ UNCHANGED <<state, producer, future, call, timed, got>>

Deadline ==
    /\ pc = "asleep" /\ timed
    /\ pc' = "expired"
    /\ UNCHANGED <<state, producer, future, call, timed, got>>

-----------------------------------------------------------------------------
Consume == Sleep \/ Return \/ GiveUp

\* The promise is gone and the consumer is in no call: the pair is done with.
Finished ==
    /\ promise = "dead" /\ pc = "idle"
    /\ UNCHANGED vars

Next ==
    \/ GetFuture
    \/ \E v \in Values : SetValue(v)
    \/ \E e \in Errors : SetException(e)
    \/ SetValueThrows \/ Destroy \/ Notify
    \/ \E c \in {"get", "wait"}, deadline \in BOOLEAN : Call(c, deadline)
    \/ Consume \/ SpuriousWakeup \/ Deadline
    \/ Finished

Spec == Init /\ [][Next]_vars

\* Both threads run; the promise need never be satisfied or destroyed.
LiveSpec == Spec /\ WF_vars(Consume) /\ WF_vars(Notify)

-----------------------------------------------------------------------------
(* Properties *)

Outcomes == Values \union Errors \union {Broken}

\* Types of the two ends; the shared state holds what its index says, and a
\* satisfied state is never marked abandoned.
TypeOK ==
    /\ \/ index \in {0, 3} /\ stored = NoOutcome
       \/ index = 1 /\ stored \in Values
       \/ index = 2 /\ stored \in Errors
    /\ abandoned \in BOOLEAN /\ (abandoned => index = 0)
    /\ dying \in BOOLEAN /\ retrieved \in BOOLEAN /\ timed \in BOOLEAN
    /\ promise \in {"alive", "notifying", "dead"}
    /\ future \in {"none", "valid", "invalid"}
    /\ pc \in {"idle", "test", "asleep", "woken", "expired"}
    /\ call \in {"get", "wait"}
    /\ got \in Outcomes \union {BadAccess, NoOutcome}

Decided == IF abandoned THEN Broken ELSE stored

\* Whatever the payload does: what get() has delivered is and stays the one
\* outcome of the pair.
DeliveredAsDecided == got \in Outcomes => got = Decided

\* The pair decides once and delivers what it decided: the first delivery wins,
\* abandonment never overrides it, and get() gives back exactly that, if the
\* payload's constructor let it be stored.
Handoff == INSTANCE TaskHandoff WITH
    Undecided <- NoOutcome,
    decided   <- Decided,
    received  <- IF got = BadAccess THEN NoOutcome ELSE got

ImplementsHandoff == Handoff!Spec

valueless == index = 3

\* A consumer sleeps through an outcome only while its notification is due; the
\* exception is an outcome whose construction threw (SetValueThrows).
NoLostWakeup == pc = "asleep" /\ has_outcome /\ ~ valueless => promise = "notifying"

\* The shared state is consistent whatever order delivery, abandonment and the
\* consumer's calls take: what get() gave is the outcome, and no sleeper misses it.
StateInv == TypeOK /\ DeliveredAsDecided /\ NoLostWakeup

\* Once the promise is dead or the state has an outcome, a get() in progress
\* returns, unless the outcome's construction threw.
GetReturns ==
    (call = "get" /\ pc # "idle" /\ (promise = "dead" \/ has_outcome)) ~> (pc = "idle" \/ valueless)
=============================================================================
