------------------------------ MODULE MCViewer -------------------------------
(***************************************************************************)
(* Three targets, so that the first may be left behind by the second and   *)
(* the third may find what both have left.                                 *)
(***************************************************************************)
EXTENDS Viewer

=============================================================================
