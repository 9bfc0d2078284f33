--------------------------- MODULE MCBreakpoints ---------------------------
(***************************************************************************)
(* Small instances of Breakpoints: addresses and threads are model values, *)
(* interchangeable but for the slot a hardware breakpoint is given, which  *)
(* does not depend on which address asks.                                  *)
(***************************************************************************)
EXTENDS Breakpoints, TLC

Symmetry == Permutations(Address) \cup Permutations(Thread)
=============================================================================
