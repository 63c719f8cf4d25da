---------------------------- MODULE MCArrayTree ----------------------------
(* Small instances of ArrayTree for TLC.                                   *)
EXTENDS ArrayTree
=============================================================================
