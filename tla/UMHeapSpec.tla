----------------------------- MODULE UMHeapSpec -----------------------------
(***************************************************************************)
(* What the chunked heap promises, without links, counters, headers or the *)
(* steps of an allocation: a chunk is free, swept, held by the program or  *)
(* not yet created.  An allocation takes one free chunk at once, chunks    *)
(* are given back by a sweep only and only out of the program's hands, and *)
(* all a sweep has set aside is free when it ends.                         *)
(***************************************************************************)
CONSTANT Chunks

VARIABLES
  free,      \* chunks an allocation may take
  swept,     \* chunks the sweep under way has set aside
  held,      \* chunks of the program
  sweeping

vars == <<free, swept, held, sweeping>>

Init == free = {} /\ swept = {} /\ held = {} /\ sweeping = FALSE

Create(c) == /\ ~sweeping /\ c \notin free \cup swept \cup held
             /\ free' = free \cup {c}
             /\ UNCHANGED <<swept, held, sweeping>>

Allocate(c) == /\ c \in free
               /\ free' = free \ {c} /\ held' = held \cup {c}
               /\ UNCHANGED <<swept, sweeping>>

Start == /\ ~sweeping /\ sweeping' = TRUE
         /\ UNCHANGED <<free, swept, held>>

\* The chunk is free at once or when the sweep ends.
Release(c) == /\ sweeping /\ c \in held
              /\ held' = held \ {c}
              /\ \/ free' = free \cup {c} /\ swept' = swept
                 \/ swept' = swept \cup {c} /\ free' = free
              /\ UNCHANGED sweeping

Finish == /\ sweeping /\ sweeping' = FALSE
          /\ free' = free \cup swept /\ swept' = {}
          /\ UNCHANGED held

Next == \/ \E c \in Chunks : Create(c) \/ Allocate(c) \/ Release(c)
        \/ Start \/ Finish

Spec == Init /\ [][Next]_vars
=============================================================================
