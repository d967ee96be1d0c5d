----------------------------- MODULE MCSemaphore -----------------------------
(* A small instance of Semaphore.                                          *)
EXTENDS Semaphore

MCUpdates == {-1, 0, 1, 2}
=============================================================================
