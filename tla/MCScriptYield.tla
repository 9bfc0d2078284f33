---------------------------- MODULE MCScriptYield ----------------------------
(***************************************************************************)
(* Bounds for TLC: see the cfg files.                                      *)
(***************************************************************************)
EXTENDS ScriptYield

=============================================================================
