---------------------------- MODULE MCTaskThread -----------------------------
(***************************************************************************)
(* Three callers, so that two wake-ups can fall into one call of the       *)
(* function and a third between the semaphore and the latch.               *)
(***************************************************************************)
EXTENDS TaskThread

=============================================================================
