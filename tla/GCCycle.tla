------------------------------- MODULE GCCycle -------------------------------
(***************************************************************************)
(* What the handshake between mutators and collector promises, without     *)
(* threads, locks or condition variables: collections happen one at a      *)
(* time, each one is asked for by marking the main thread's stack, the     *)
(* mark lasts until the collection it asked for ends, and chunks return to *)
(* the free list only inside a collection.                                 *)
(***************************************************************************)
EXTENDS Integers

VARIABLES
  phase,   \* "mutating", "requested" or "collecting"
  marked,  \* is the main stack marked for the coming collection
  free     \* chunks on the free list

vars == <<phase, marked, free>>

Init == phase = "mutating" /\ marked = FALSE /\ free \in Nat

\* The main stack is marked, and the collection requested, in one step.
MarkAndRequest ==
  /\ phase = "mutating" /\ ~marked
  /\ phase' = "requested" /\ marked' = TRUE
  /\ UNCHANGED free

Start == /\ phase = "requested"
         /\ phase' = "collecting"
         /\ UNCHANGED <<marked, free>>

Reclaim == /\ phase = "collecting"
           /\ free' >= free
           /\ UNCHANGED <<phase, marked>>

Finish == /\ phase = "collecting"
          /\ phase' = "mutating" /\ marked' = FALSE
          /\ UNCHANGED free

\* Mutators allocate in every phase: the collector runs concurrently.
Allocate == /\ free' <= free
            /\ UNCHANGED <<phase, marked>>

Next == MarkAndRequest \/ Start \/ Reclaim \/ Finish \/ Allocate

Spec == Init /\ [][Next]_vars
=============================================================================
