------------------------------- MODULE MCProc -------------------------------
(* Proc for TLC: the constants come from the .cfg of each run. *)
EXTENDS Proc
=============================================================================
