------------------------------ MODULE ArrayTree ------------------------------
(***************************************************************************)
(* Arrays on the chunked heap.  GC_arrayAllocate computes how many chunks  *)
(* an array needs, allocates them as one linked list and builds a tree     *)
(* whose leaves hold the elements (create_array_tree).  Elements are found *)
(* by descending from the root (UM_Array_offset); the runtime's I/O and    *)
(* the marking of arrays of pointers follow the links between leaves       *)
(* (UM_walk_array_leafs).                                                  *)
(*                                                                         *)
(* Chunks are numbered in the order in which POPCHUNK takes them: 1 is the *)
(* root.  One step is one POPCHUNK of an internal node, one set of leaves, *)
(* or one return of the recursion.                                         *)
(***************************************************************************)
EXTENDS Integers, Sequences, FiniteSets

CONSTANTS
  Fan,         \* UM_CHUNK_ARRAY_INTERNAL_POINTERS
  PerChunk,    \* numElsPerChunk
  SizeRange,   \* how many values a size_t has: 2^32 where POW is ipow
  MaxElements  \* bound: numElements

ASSUME ArrayTreeAssumption ==
  /\ Fan \in Nat /\ Fan > 1 /\ PerChunk \in Nat \ {0}
  /\ SizeRange \in Nat \ {0} /\ MaxElements \in Nat

VARIABLES
  numElements,
  treeHeight,
  chunks,      \* chunks left on the list allocHead
  popped,      \* chunks taken from it
  pointers,    \* um_array_pointers of the chunks taken so far
  isLeaf,
  next_chunk,  \* links between leaves; 0 is NULL
  calls,       \* activations of create_array_tree, innermost first
  done

vars == <<numElements, treeHeight, chunks, popped, pointers, isLeaf, next_chunk, calls, done>>

CeilDiv(a, b) == (a + b - 1) \div b

\* ipow: Fan to the power of n.
Pow[n \in Nat] == IF n = 0 THEN 1 ELSE Fan * Pow[n - 1]

NumLeaves(n) == n \div PerChunk + (IF n % PerChunk # 0 THEN 1 ELSE 0)

\* ceil(log(leaves) / log(Fan)).  Where the quotient should be a whole number
\* above 1 rounding may leave it a little above, and the tree is a level
\* higher than it need be.
Heights(leaves) ==
  LET exact == CHOOSE h \in 0 .. leaves :
                 Pow[h] >= leaves /\ (h = 0 \/ Pow[h - 1] < leaves)
  IN IF leaves = 0 THEN {0}
     ELSE IF exact > 1 /\ Pow[exact] = leaves THEN {exact, exact + 1}
     ELSE {exact}

\* How many nodes the tree needs at each height: the leaves, the nodes that
\* point to them, and so on up to the root.
Level(leaves, height) ==
  LET level[h \in 0 .. height] == IF h = 0 THEN leaves ELSE CeilDiv(level[h - 1], Fan)
  IN level

\* Mutated form: the last level is forgotten.
NumChunks_oneLevelShort(leaves, height) ==
  LET total[h \in 0 .. height] ==
        IF h = 0 THEN leaves
        ELSE total[h - 1] + (IF h = height THEN 0 ELSE Level(leaves, height)[h])
  IN IF total[height] = 0 THEN 1 ELSE total[height]

\* All of them; an array of no elements has a chunk all the same.
NumChunks(leaves, height) ==
  LET total[h \in 0 .. height] ==
        IF h = 0 THEN leaves ELSE total[h - 1] + Level(leaves, height)[h]
  IN IF total[height] = 0 THEN 1 ELSE total[height]

\* GC_arrayAllocate up to the call of create_array_tree: the root is popped.
Init ==
  /\ numElements \in 0 .. MaxElements
  /\ treeHeight \in Heights(NumLeaves(numElements))
  /\ LET n == NumChunks(NumLeaves(numElements), treeHeight)
     IN /\ chunks = n - 1
        /\ isLeaf = << n = 1 >>
        /\ calls = IF n = 1 THEN <<>> ELSE << [node |-> 1, height |-> treeHeight - 1, i |-> 0] >>
        /\ done = (n = 1)
  /\ popped = 1
  /\ pointers = << <<>> >>
  /\ next_chunk = << 0 >>

-----------------------------------------------------------------------------
Top == Head(calls)

\* The last leaf under a node whose children are leaves.
LastLeaf(node) == pointers[node][Len(pointers[node])]

\* Mutated form: siblings are not linked either.
LinkFrom_never(node, height) == 0

\* The link create_array_tree makes when a call for leaves returns to the
\* loop of the node above: from the last leaf of the node's elder sibling.
\* There is no such link between cousins.
LinkFrom(node, height) ==
  IF height = 0 /\ Len(calls) > 1 /\ calls[2].i > 1
  THEN LastLeaf(pointers[calls[2].node][calls[2].i - 1]) ELSE 0

\* Mutated form: one leaf more than the node has pointers.
MakeLeaves_oneTooMany ==
  LET k   == IF chunks < Fan + 1 THEN chunks ELSE Fan + 1
      new == [j \in 1 .. k |-> popped + j]
  IN /\ ~done /\ calls # <<>> /\ Top.height = 0
     /\ pointers' = [pointers EXCEPT ![Top.node] = new] \o [j \in 1 .. k |-> <<>>]
     /\ isLeaf' = isLeaf \o [j \in 1 .. k |-> TRUE]
     /\ next_chunk' = next_chunk \o [j \in 1 .. k |-> IF j = k THEN 0 ELSE popped + j + 1]
     /\ popped' = popped + k /\ chunks' = chunks - k
     /\ calls' = Tail(calls)
     /\ done' = (Tail(calls) = <<>>)
     /\ UNCHANGED <<numElements, treeHeight>>

\* Height 0: up to Fan leaves are linked to the node and to each other.
MakeLeaves ==
  LET k    == IF chunks < Fan THEN chunks ELSE Fan
      new  == [j \in 1 .. k |-> popped + j]
      from == LinkFrom(Top.node, Top.height)
      old  == IF from = 0 THEN next_chunk ELSE [next_chunk EXCEPT ![from] = popped + 1]
  IN /\ ~done /\ calls # <<>> /\ Top.height = 0
     /\ pointers' = [pointers EXCEPT ![Top.node] = new] \o [j \in 1 .. k |-> <<>>]
     /\ isLeaf' = isLeaf \o [j \in 1 .. k |-> TRUE]
     /\ next_chunk' = old \o [j \in 1 .. k |-> IF j = k THEN 0 ELSE popped + j + 1]
     /\ popped' = popped + k /\ chunks' = chunks - k
     /\ calls' = Tail(calls)
     /\ done' = (Tail(calls) = <<>>)
     /\ UNCHANGED <<numElements, treeHeight>>

\* Height above 0: pop an internal node and call create_array_tree on it.
MakeInternal ==
  /\ ~done /\ calls # <<>> /\ Top.height > 0
  /\ Top.i < Fan /\ chunks > 0
  /\ pointers' = Append([pointers EXCEPT ![Top.node] = Append(@, popped + 1)], <<>>)
  /\ isLeaf' = Append(isLeaf, FALSE)
  /\ next_chunk' = Append(next_chunk, 0)
  /\ popped' = popped + 1 /\ chunks' = chunks - 1
  /\ calls' = << [node |-> popped + 1, height |-> Top.height - 1, i |-> 0],
                 [Top EXCEPT !.i = @ + 1] >> \o Tail(calls)
  /\ UNCHANGED <<numElements, treeHeight, done>>

\* The loop ends when the node is full or the list is empty.
Return ==
  /\ ~done /\ calls # <<>> /\ Top.height > 0
  /\ Top.i = Fan \/ (Top.i > 0 /\ chunks = 0)
  /\ calls' = Tail(calls)
  /\ done' = (Tail(calls) = <<>>)
  /\ UNCHANGED <<numElements, treeHeight, chunks, popped, pointers, isLeaf, next_chunk>>

\* The program keeps its array.
Finished == done /\ UNCHANGED vars

Next == MakeLeaves \/ MakeInternal \/ Return \/ Finished

Spec == Init /\ [][Next]_vars
-----------------------------------------------------------------------------
(* Reading the array.                                                      *)

\* The elements below a node of height h, as a size_t holds their number.
SliceWidth(h) == (Pow[h] * PerChunk) % SizeRange

\* Mutated form: e0 is not moved on the way down.
Lookup_keepsE0(index) ==
  LET at[k \in 0 .. treeHeight] ==
        IF k = 0 THEN [node |-> 1, e0 |-> 0, width |-> SliceWidth(treeHeight)]
        ELSE LET a == at[k - 1]
                 nx == ((index - a.e0) * Fan) \div a.width
             IN IF isLeaf[a.node] THEN a
                ELSE [node |-> pointers[a.node][nx + 1], e0 |-> a.e0,
                      width |-> SliceWidth(treeHeight - k)]
  IN <<at[treeHeight].node, index - at[treeHeight].e0>>

\* UM_Array_offset: the leaf and the position in it where an element is.  At
\* every node the slice of elements below it is divided among Fan children.
\* The code computes the quotient in single precision; here it is exact.
Lookup(index) ==
  LET at[k \in 0 .. treeHeight] ==
        IF k = 0 THEN [node |-> 1, e0 |-> 0, width |-> SliceWidth(treeHeight)]
        ELSE LET a == at[k - 1]
                 nx == ((index - a.e0) * Fan) \div a.width
             IN IF isLeaf[a.node] THEN a
                ELSE [node |-> pointers[a.node][nx + 1],
                      e0 |-> a.e0 + (a.width \div Fan) * nx,
                      width |-> SliceWidth(treeHeight - k)]
  IN <<at[treeHeight].node, index - at[treeHeight].e0>>

\* UM_walk_array_leafs, called again and again: down the first children, then
\* along next_chunk; the n-th leaf it returns, or 0.  (An array of one chunk
\* is its own leaf: foreachObjptrInObject.)
Walk ==
  LET down[k \in 0 .. treeHeight] ==
        IF k = 0 THEN 1
        ELSE LET c == down[k - 1] IN IF isLeaf[c] THEN c ELSE pointers[c][1]
      leaf[n \in 1 .. popped] ==
        IF n = 1 THEN down[treeHeight]
        ELSE LET c == leaf[n - 1] IN IF c = 0 THEN 0 ELSE next_chunk[c]
  IN leaf

-----------------------------------------------------------------------------
(* Properties.                                                             *)

\* Leaves are numbered in the order in which they are made.
LeafNumber(c) == Cardinality({d \in 1 .. c : isLeaf[d]})

\* Every variable keeps its type.
TypeOK ==
  /\ chunks \in Nat /\ popped \in Nat \ {0}
  /\ Len(pointers) = popped /\ Len(isLeaf) = popped /\ Len(next_chunk) = popped
  /\ \A c \in 1 .. popped : /\ Len(pointers[c]) <= Fan
                            /\ \A j \in DOMAIN pointers[c] : pointers[c][j] \in c + 1 .. popped
                            /\ next_chunk[c] \in 0 .. popped
  /\ \A k \in DOMAIN calls : calls[k].node \in 1 .. popped /\ calls[k].height \in Nat

\* The number of chunks computed beforehand is exactly the number the tree
\* takes: none is left over (it would be leaked: reserved, in use and
\* unreachable) and no call of create_array_tree finds the list empty.
TreeUsesAllChunks ==
  /\ (calls # <<>> /\ Top.i = 0) => chunks > 0
  /\ done => /\ chunks = 0
             /\ numElements > 0 => LeafNumber(popped) = NumLeaves(numElements)

\* UM_Array_offset finds element number i where a flat array would have it:
\* in leaf i / PerChunk, at position i % PerChunk, unless the width of the
\* whole tree overflows.
LookupExact ==
  done /\ Pow[treeHeight] * PerChunk < SizeRange =>
          \A i \in 0 .. numElements - 1 :
            LET x == Lookup(i)
            IN /\ isLeaf[x[1]] /\ LeafNumber(x[1]) = i \div PerChunk + 1
               /\ x[2] = i % PerChunk

\* "Given an array chunk, return the first leaf.  Given a leaf, return the next
\* leaf or null of there are no more": called until it returns NULL, the walk
\* has met every leaf, in order.  Arrays of pointers are marked by this walk.
WalkMeetsEveryLeaf ==
  done => \A n \in 1 .. popped :
            IF n <= LeafNumber(popped)
            THEN Walk[n] # 0 /\ isLeaf[Walk[n]] /\ LeafNumber(Walk[n]) = n
            ELSE Walk[n] = 0

\* The links between leaves, set from inside a recursion that sees two
\* siblings at a time, suffice where no leaf has a cousin further away.
LowTreesWalked == treeHeight <= 2 => WalkMeetsEveryLeaf
=============================================================================
