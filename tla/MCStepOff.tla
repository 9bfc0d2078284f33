----------------------------- MODULE MCStepOff -----------------------------
(***************************************************************************)
(* Small instances of StepOff: a cycle of three instructions, so that a    *)
(* breakpoint has a neighbour with one and a neighbour without, and one    *)
(* instruction that may fault.  One run checks both builds: x86-64, whose  *)
(* traps and steps have codes of their own, and arm64, where they look     *)
(* alike.                                                                  *)
(***************************************************************************)
EXTENDS StepOff

X86 == [arm64 |-> FALSE, faulty |-> {1}]
Arm64 == [arm64 |-> TRUE, faulty |-> {1}]

BothBuilds == {X86, Arm64}
OnlyX86 == {X86}
=============================================================================
