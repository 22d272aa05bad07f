------------------------------- MODULE MCLink -------------------------------
(***************************************************************************)
(* Link for TLC.  Its state is finite without bounds.                      *)
(***************************************************************************)
EXTENDS Link
=============================================================================
