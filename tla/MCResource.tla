----------------------------- MODULE MCResource -----------------------------
(***************************************************************************)
(* Resource for TLC.  The .cfg files scale the segment of the hash map and *)
(* the windows down together.                                              *)
(***************************************************************************)
EXTENDS Resource

SmallWindow == [size |-> 3, min |-> 2, max |-> 4]
=============================================================================
