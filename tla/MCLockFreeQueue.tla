--------------------------- MODULE MCLockFreeQueue ---------------------------
(* Small instances of LockFreeQueue.                                       *)
EXTENDS LockFreeQueueProofs, TLC

ThreadSymmetry == Permutations(Threads) \union Permutations(Values)
=============================================================================
