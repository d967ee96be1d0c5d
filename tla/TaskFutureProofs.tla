--------------------------- MODULE TaskFutureProofs ---------------------------
(***************************************************************************)
(* A TaskPromise/TaskFuture pair decides once, delivers what it decided    *)
(* and loses no wakeup, for every set of values and errors and every order *)
(* of delivery, abandonment and consumer calls.  StateInv is inductive as  *)
(* it stands, and is what the refinement of TaskHandoff needs.             *)
(***************************************************************************)
EXTENDS TaskFuture, TLAPS

-----------------------------------------------------------------------------
(* The shared state.                                                       *)

\* What get() finds in a state that has an outcome: the outcome decided, unless
\* the payload's constructor threw.
LEMMA DeliveredDecided ==
    ASSUME TypeOK, has_outcome
    PROVE  /\ ~ valueless => Delivered = Decided /\ Decided \in Outcomes
           /\ valueless => Delivered = BadAccess /\ Decided = NoOutcome
BY FutureAssumption DEF TypeOK, has_outcome, valueless, Delivered, Decided, Outcomes

\* A state without an outcome has decided nothing.
LEMMA UndecidedState ==
    ASSUME TypeOK, ~ has_outcome
    PROVE  index = 0 /\ stored = NoOutcome /\ ~ abandoned /\ Decided = NoOutcome
BY DEF TypeOK, has_outcome, Decided

\* A state as make_shared leaves it.
LEMMA InitState == Init => StateInv
BY FutureAssumption
   DEF Init, StateInv, TypeOK, Outcomes, DeliveredAsDecided, Decided, NoLostWakeup

\* Every step keeps the types; a satisfied state is never abandoned.
LEMMA TypeStep == TypeOK /\ [Next]_vars => TypeOK'
<1> SUFFICES ASSUME TypeOK, [Next]_vars PROVE TypeOK'
  OBVIOUS
<1> USE DEF TypeOK, state, producer, consumer
<1>1. CASE UNCHANGED vars
  BY <1>1 DEF vars
<1>2. CASE GetFuture
  BY <1>2 DEF GetFuture
<1>3. ASSUME NEW v \in Values, SetValue(v) PROVE TypeOK'
  BY <1>3 DEF SetValue, Deliver, ensure_unset, has_outcome
<1>4. ASSUME NEW e \in Errors, SetException(e) PROVE TypeOK'
  BY <1>4 DEF SetException, Deliver, ensure_unset, has_outcome
<1>5. CASE SetValueThrows
  BY <1>5 DEF SetValueThrows, ensure_unset, has_outcome
<1>6. CASE Destroy
  <2>1. CASE Unsatisfied
    BY <1>6, <2>1 DEF Destroy, Unsatisfied
  <2>2. CASE ~ Unsatisfied
    BY <1>6, <2>2 DEF Destroy
  <2>3. QED BY <2>1, <2>2
<1>7. CASE Notify
  BY <1>7 DEF Notify, Woken
<1>8. ASSUME NEW c \in {"get", "wait"}, NEW deadline \in BOOLEAN, Call(c, deadline)
      PROVE  TypeOK'
  BY <1>8 DEF Call
<1>9. CASE Return
  <2>1. got' \in Outcomes \union {BadAccess, NoOutcome}
    BY <1>9, DeliveredDecided DEF Return
  <2>2. QED BY <1>9, <2>1 DEF Return
<1>10. CASE Sleep \/ GiveUp \/ SpuriousWakeup \/ Deadline
  <2>1. pc' \in {"idle", "asleep", "woken", "expired"} /\ timed' \in BOOLEAN
    BY <1>10 DEF Sleep, GiveUp, SpuriousWakeup, Deadline
  <2>2. UNCHANGED <<state, producer, future, call, got>>
    BY <1>10 DEF Sleep, GiveUp, SpuriousWakeup, Deadline
  <2>3. QED BY <2>1, <2>2
<1>11. CASE Finished
  BY <1>11 DEF Finished, vars
<1>12. QED
  BY <1>1, <1>2, <1>3, <1>4, <1>5, <1>6, <1>7, <1>8, <1>9, <1>10, <1>11
  DEF Next, Consume

\* What get() gave stays the outcome: nothing is decided a second time.
LEMMA DecidedStep == StateInv /\ [Next]_vars => DeliveredAsDecided'
<1> SUFFICES ASSUME StateInv, [Next]_vars PROVE DeliveredAsDecided'
  OBVIOUS
<1>0. TypeOK /\ DeliveredAsDecided /\ NoOutcome \notin Outcomes /\ BadAccess \notin Outcomes
  BY FutureAssumption DEF StateInv, Outcomes
<1> USE DEF state, producer, consumer
<1>1. ASSUME UNCHANGED <<state, got>> PROVE DeliveredAsDecided'
  BY <1>0, <1>1 DEF DeliveredAsDecided, Decided
<1>2. ASSUME ~ has_outcome, got' = got PROVE DeliveredAsDecided'
  BY <1>0, <1>2, UndecidedState DEF DeliveredAsDecided
<1>3. CASE Return
  <2>1. Decided' = Decided
    BY <1>3 DEF Return, Decided
  <2>2. CASE call = "get"
    BY <1>0, <1>3, <2>1, <2>2, DeliveredDecided DEF Return, DeliveredAsDecided
  <2>3. CASE call # "get"
    BY <1>0, <1>3, <2>1, <2>3 DEF Return, DeliveredAsDecided
  <2>4. QED BY <2>2, <2>3
<1>4. CASE Destroy
  <2>1. CASE Unsatisfied
    BY <1>2, <1>4, <2>1 DEF Destroy, Unsatisfied, has_outcome
  <2>2. CASE ~ Unsatisfied
    BY <1>1, <1>4, <2>2 DEF Destroy
  <2>3. QED BY <2>1, <2>2
<1>5. ASSUME NEW v, NEW alternative, Deliver(alternative, v) PROVE DeliveredAsDecided'
  BY <1>2, <1>5 DEF Deliver, ensure_unset
<1>6. CASE SetValueThrows
  BY <1>2, <1>6 DEF SetValueThrows, ensure_unset
<1>7. CASE GetFuture \/ Notify \/ Sleep \/ GiveUp \/ SpuriousWakeup \/ Deadline \/ Finished
  BY <1>1, <1>7 DEF GetFuture, Notify, Sleep, GiveUp, SpuriousWakeup, Deadline, Finished, vars
<1>8. ASSUME NEW c, NEW deadline, Call(c, deadline) PROVE DeliveredAsDecided'
  BY <1>1, <1>8 DEF Call
<1>9. CASE UNCHANGED vars
  BY <1>1, <1>9 DEF vars
<1>10. QED
  BY <1>3, <1>4, <1>5, <1>6, <1>7, <1>8, <1>9 DEF Next, Consume, SetValue, SetException

\* A step that brings an outcome leaves the promise notifying; only the
\* notification ends that, and it wakes the consumer.
LEMMA WakeupStep == StateInv /\ [Next]_vars => NoLostWakeup'
<1> SUFFICES ASSUME TypeOK, NoLostWakeup, [Next]_vars,
                    pc' = "asleep", has_outcome', ~ valueless'
             PROVE  promise' = "notifying"
  BY DEF StateInv, NoLostWakeup
<1> USE DEF state, producer, consumer, TypeOK, NoLostWakeup, has_outcome, valueless
<1>1. CASE UNCHANGED vars
  BY <1>1 DEF vars
<1>2. CASE GetFuture
  BY <1>2 DEF GetFuture
<1>3. ASSUME NEW v, NEW alternative, Deliver(alternative, v) PROVE promise' = "notifying"
  BY <1>3 DEF Deliver
<1>4. CASE SetValueThrows
  BY <1>4 DEF SetValueThrows
<1>5. CASE Destroy
  BY <1>5 DEF Destroy, Unsatisfied
<1>6. CASE Notify
  BY <1>6 DEF Notify, Woken
<1>7. ASSUME NEW c, NEW deadline, Call(c, deadline) PROVE promise' = "notifying"
  BY <1>7 DEF Call
<1>8. CASE Consume \/ SpuriousWakeup \/ Deadline \/ Finished
  BY <1>8 DEF Consume, Sleep, Return, GiveUp, SpuriousWakeup, Deadline, Finished, vars
<1>9. QED
  BY <1>1, <1>2, <1>3, <1>4, <1>5, <1>6, <1>7, <1>8 DEF Next, SetValue, SetException

\* Delivery, abandonment and the consumer may meet in any order: what get() gave
\* is the pair's one outcome, and no sleeper misses the notification.
THEOREM SharedStateSound == Spec => []StateInv
<1>1. StateInv /\ [Next]_vars => StateInv'
  BY TypeStep, DecidedStep, WakeupStep DEF StateInv
<1>2. QED BY InitState, <1>1, PTL DEF Spec

-----------------------------------------------------------------------------
(* The handoff.                                                            *)

\* Every step decides the outcome, hands it over, or does neither.
LEMMA HandoffStep == StateInv /\ [Next]_vars => [Handoff!Next]_(Handoff!handoffVars)
<1> SUFFICES ASSUME StateInv, [Next]_vars PROVE [Handoff!Next]_(Handoff!handoffVars)
  OBVIOUS
<1>0. /\ TypeOK /\ DeliveredAsDecided /\ NoOutcome \notin Outcomes /\ BadAccess \notin Outcomes
      /\ NoOutcome # BadAccess /\ got \in Outcomes \union {BadAccess, NoOutcome}
  BY FutureAssumption DEF StateInv, TypeOK, Outcomes
<1> USE DEF state, producer, consumer
<1>1. ASSUME UNCHANGED <<state, got>> PROVE UNCHANGED Handoff!handoffVars
  BY <1>1 DEF Handoff!handoffVars, Decided
<1>2. ASSUME ~ has_outcome, got' = got, Decided' \in Outcomes PROVE Handoff!Decide
  BY <1>2, <1>0, UndecidedState DEF Handoff!Decide
<1>3. CASE Return
  <2>1. Decided' = Decided
    BY <1>3 DEF Return, Decided
  <2>2. CASE call # "get"
    BY <1>1, <1>3, <2>2 DEF Return
  <2>3. CASE call = "get" /\ valueless
    <3>1. got' = BadAccess /\ Decided = NoOutcome
      BY <1>0, <1>3, <2>3, DeliveredDecided DEF Return
    <3>2. got \in {BadAccess, NoOutcome}
      BY <1>0, <3>1 DEF DeliveredAsDecided
    <3>3. QED BY <1>0, <2>1, <3>1, <3>2 DEF Handoff!handoffVars
  <2>4. CASE call = "get" /\ ~ valueless
    <3>1. got' = Decided /\ Decided \in Outcomes
      BY <1>0, <1>3, <2>4, DeliveredDecided DEF Return
    <3>2. CASE got \in Outcomes
      BY <1>0, <2>1, <3>1, <3>2 DEF DeliveredAsDecided, Handoff!handoffVars
    <3>3. CASE got \in {BadAccess, NoOutcome}
      BY <1>0, <2>1, <3>1, <3>3 DEF Handoff!Next, Handoff!Receive
    <3>4. QED BY <1>0, <3>2, <3>3
  <2>5. QED BY <2>2, <2>3, <2>4
<1>4. CASE Destroy
  <2>1. CASE Unsatisfied
    BY <1>2, <1>4, <2>1 DEF Destroy, Unsatisfied, has_outcome, Decided, Outcomes, Handoff!Next
  <2>2. CASE ~ Unsatisfied
    BY <1>1, <1>4, <2>2 DEF Destroy
  <2>3. QED BY <2>1, <2>2
<1>5. ASSUME NEW outcome \in Values \union Errors, NEW alternative, Deliver(alternative, outcome)
      PROVE  Handoff!Decide
  BY <1>0, <1>2, <1>5, UndecidedState DEF Deliver, ensure_unset, Decided, Outcomes
<1>6. CASE SetValueThrows
  BY <1>0, <1>6 DEF SetValueThrows, Handoff!handoffVars, Decided
<1>7. CASE GetFuture \/ Notify \/ Sleep \/ GiveUp \/ SpuriousWakeup \/ Deadline \/ Finished
  BY <1>1, <1>7 DEF GetFuture, Notify, Sleep, GiveUp, SpuriousWakeup, Deadline, Finished, vars
<1>8. ASSUME NEW c, NEW deadline, Call(c, deadline) PROVE UNCHANGED Handoff!handoffVars
  BY <1>1, <1>8 DEF Call
<1>9. CASE UNCHANGED vars
  BY <1>1, <1>9 DEF vars
<1>10. QED
  BY <1>3, <1>4, <1>5, <1>6, <1>7, <1>8, <1>9
  DEF Next, Consume, SetValue, SetException, Handoff!Next

\* A fresh pair has decided and delivered nothing.
LEMMA InitHandoff == Init => Handoff!Init
BY FutureAssumption DEF Init, Handoff!Init, Decided

\* task_future.hpp implements ADR-0015's handoff: the first delivery decides,
\* abandonment never overrides it, and get() receives exactly what was decided.
THEOREM PairHandsOff == Spec => ImplementsHandoff
<1>1. Spec => [][Handoff!Next]_(Handoff!handoffVars)
  BY SharedStateSound, HandoffStep, PTL DEF Spec
<1>2. QED BY <1>1, InitHandoff, PTL DEF Spec, ImplementsHandoff, Handoff!Spec
=============================================================================
