-------------------------- MODULE MCExceptionLoop --------------------------
(***************************************************************************)
(* Small instances of ExceptionLoop.  With three threads one is held by a  *)
(* stop, a second waits in the port behind it, and the third goes on       *)
(* running or ends the process; nothing in the loop counts threads.        *)
(***************************************************************************)
EXTENDS ExceptionLoop
=============================================================================
