------------------------------ MODULE MCSignals ------------------------------
(* Small instances of Signals for TLC. *)
EXTENDS Signals
=============================================================================
