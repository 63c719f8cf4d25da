----------------------------- MODULE MCRTThreads -----------------------------
(* Small instances of RTThreads for TLC. *)
EXTENDS RTThreads
=============================================================================
