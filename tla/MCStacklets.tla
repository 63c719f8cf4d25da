----------------------------- MODULE MCStacklets -----------------------------
(* Small instances of Stacklets for TLC. *)
EXTENDS Stacklets
=============================================================================
