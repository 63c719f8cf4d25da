---------------------------- MODULE MCGCHandshake ----------------------------
(* Small instances of GCHandshake for TLC. *)
EXTENDS GCHandshake
=============================================================================
