------------------------------ MODULE MCUMHeap ------------------------------
(* Small instances of UMHeap for TLC.                                      *)
EXTENDS UMHeap
=============================================================================
