------------------------------ MODULE MCUMMark ------------------------------
(* Small instances of UMMark for TLC.                                      *)
EXTENDS UMMark

\* Bounds a run: the main thread is followed up to the first loss of an object
\* it can reach, the collector beyond it.
UpToFirstLoss == ReachableKept \/ Collector
=============================================================================
