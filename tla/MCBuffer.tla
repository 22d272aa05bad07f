------------------------------ MODULE MCBuffer ------------------------------
(***************************************************************************)
(* Buffer for TLC.  The streams differ in nothing but their name.          *)
(***************************************************************************)
EXTENDS Buffer, TLC

StreamSymmetry == Permutations(Streams)
=============================================================================
