---------------------------- MODULE MCLifecycle ----------------------------
(***************************************************************************)
(* Small instances of Lifecycle: two pids and two processes, so that one   *)
(* may be the engine's while the other is a stranger's, or the second may  *)
(* be given the pid of the first.                                          *)
(***************************************************************************)
EXTENDS Lifecycle
=============================================================================
