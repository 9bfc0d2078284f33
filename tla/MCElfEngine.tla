---------------------------- MODULE MCElfEngine ----------------------------
(***************************************************************************)
(* Small instances of ElfEngine: two threads, the second cloned by the     *)
(* first, and a cycle of two instructions, so that breakpoints may be      *)
(* adjacent.                                                               *)
(***************************************************************************)
EXTENDS ElfEngine
=============================================================================
