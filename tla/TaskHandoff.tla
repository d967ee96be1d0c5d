----------------------------- MODULE TaskHandoff -----------------------------
(***************************************************************************)
(* What a TaskPromise/TaskFuture pair promises (ADR-0015): the outcome is  *)
(* decided once, and delivered as decided, at most once.                   *)
(***************************************************************************)
CONSTANTS Outcomes,    \* values, exceptions and the broken promise
          Undecided

VARIABLES decided,     \* the outcome, once there is one
          received     \* what get() has returned or thrown

handoffVars == <<decided, received>>

Init == decided = Undecided /\ received = Undecided

Decide ==
    /\ decided = Undecided
    /\ decided' \in Outcomes
    /\ UNCHANGED received

Receive ==
    /\ decided # Undecided
    /\ received = Undecided
    /\ received' = decided
    /\ UNCHANGED decided

Next == Decide \/ Receive

Spec == Init /\ [][Next]_handoffVars
=============================================================================
