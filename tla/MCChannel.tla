----------------------------- MODULE MCChannel -----------------------------
(***************************************************************************)
(* Channel for TLC.  The .cfg files scale the windows and the modulus of   *)
(* the sequence numbers down together; MaxMessages and MaxTries bound the  *)
(* run.                                                                    *)
(***************************************************************************)
EXTENDS Channel
=============================================================================
