------------------------------- MODULE UMHeap -------------------------------
(***************************************************************************)
(* The chunked heap's free list, link by link: createUMHeap builds it,     *)
(* allocateChunks pops its head under fl_lock, the sweep threads freed     *)
(* chunks onto a private sublist (or, with oneByOne, straight onto the     *)
(* tail of the free list) and splices the sublist at the end.              *)
(*                                                                         *)
(* The sweep reads a chunk's type and header without fl_lock and acts on   *)
(* what it read in a later step.                                           *)
(* allocNextChunk sets the type of the chunk first, then reads its link    *)
(* and cleans its header, so these are separate steps here.  Array chunks  *)
(* go through the same steps (allocNextArrayChunk) and count as normal     *)
(* ones; stack chunks are never swept.  Of the header only                 *)
(* what the sweep tells apart is kept: not in use, collectable, or marked  *)
(* or shaded.  Which objects are marked is the subject of UMMark.          *)
(***************************************************************************)
EXTENDS Integers, FiniteSets

CONSTANTS
  N,                \* chunks in the heap, at positions 1 .. N
  Requests,         \* numChunks of an allocation
  Cycles,           \* bound: collections
  ConcurrentCycles  \* collections during which the mutator runs

Chunks == 1 .. N
NULL   == 0

ASSUME UMHeapAssumption ==
  /\ N \in Nat \ {0} /\ Cycles \in Nat
  /\ Requests \subseteq Nat \ {0}
  /\ ConcurrentCycles \subseteq 1 .. Cycles

VARIABLES
  fl_head, fl_tail, fl_chunks,
  sl_head, sl_tail, sl_chunks,
  next,        \* UM_Mem_Chunk.next_chunk
  chunkType,
  header,      \* "clean", "white" (in use, collectable) or "keep"
  held,        \* chunks handed to the program and not collected since
  apc,         \* the allocator: holds fl_lock unless "idle"
  nc,          \* its local: what follows the chunk it takes
  todo,        \* chunks the allocation under way has still to take
  kind,        \* the chunk type it asked for
  gc,          \* "create", "idle", "sweep", or "free": about to free a chunk
  at,          \* next chunk of the collector's loop
  cycles,
  oneByOne     \* the run-time option of the same name

Sweeping == gc \in {"sweep", "free"}

listVars == <<fl_head, fl_tail, fl_chunks, sl_head, sl_tail, sl_chunks, next>>
allocVars == <<apc, nc, todo, kind>>
vars == <<listVars, chunkType, header, held, allocVars, gc, at, cycles, oneByOne>>

\* initUMHeap, and the loop of createUMHeap about to start on zeroed memory.
Init ==
  /\ fl_head = NULL /\ fl_tail = NULL /\ fl_chunks = 0
  /\ sl_head = NULL /\ sl_tail = NULL /\ sl_chunks = 0
  /\ next = [c \in Chunks |-> NULL]
  /\ chunkType = [c \in Chunks |-> "EMPTY"]
  /\ header = [c \in Chunks |-> "clean"]
  /\ held = {}
  /\ apc = "idle" /\ nc = NULL /\ todo = 0 /\ kind = "NORMAL"
  /\ gc = "create" /\ at = 1 /\ cycles = 0
  /\ oneByOne \in BOOLEAN

-----------------------------------------------------------------------------
(* The lists.                                                              *)

\* insertChunkToFL: at the back of the free list; the caller needs fl_lock.
insertChunkToFL(c) ==
  /\ fl_head' = IF fl_chunks = 0 THEN c ELSE fl_head
  /\ fl_tail' = c
  /\ fl_chunks' = fl_chunks + 1
  /\ next' = IF fl_chunks = 0 THEN [next EXCEPT ![c] = NULL]
             ELSE [next EXCEPT ![fl_tail] = c, ![c] = NULL]

\* insertChunktoSubList: no lock, the list is the collector's own.
insertChunktoSubList(c) ==
  /\ sl_head' = IF sl_chunks = 0 THEN c ELSE sl_head
  /\ sl_tail' = c
  /\ sl_chunks' = sl_chunks + 1
  /\ next' = IF sl_chunks = 0 THEN [next EXCEPT ![c] = NULL]
             ELSE [next EXCEPT ![sl_tail] = c, ![c] = NULL]

\* Mutated form: the spliced chunks stay on the sublist.
addSweepListToFL_keepsSublist ==
  /\ fl_head' = IF sl_chunks = 0 \/ fl_chunks > 0 THEN fl_head ELSE sl_head
  /\ fl_tail' = IF sl_chunks = 0 THEN fl_tail ELSE sl_tail
  /\ fl_chunks' = fl_chunks + sl_chunks
  /\ next' = IF sl_chunks = 0 \/ fl_chunks = 0 THEN next
             ELSE [next EXCEPT ![fl_tail] = sl_head]
  /\ UNCHANGED <<sl_head, sl_tail, sl_chunks>>

\* addSweepListToFL: the sublist becomes the tail of the free list.
addSweepListToFL ==
  /\ fl_head' = IF sl_chunks = 0 \/ fl_chunks > 0 THEN fl_head ELSE sl_head
  /\ fl_tail' = IF sl_chunks = 0 THEN fl_tail ELSE sl_tail
  /\ fl_chunks' = fl_chunks + sl_chunks
  /\ next' = IF sl_chunks = 0 \/ fl_chunks = 0 THEN next
             ELSE [next EXCEPT ![fl_tail] = sl_head]
  /\ sl_head' = NULL /\ sl_tail' = NULL /\ sl_chunks' = 0

-----------------------------------------------------------------------------
\* createUMHeap: one round of its loop.
CreateChunk ==
  /\ gc = "create" /\ at <= N
  /\ insertChunkToFL(at)
  /\ at' = at + 1
  /\ gc' = IF at = N THEN "idle" ELSE "create"
  /\ UNCHANGED <<sl_head, sl_tail, sl_chunks, chunkType, header, held, allocVars, cycles>>

\* allocateChunks and allocateArrayChunks, called with n chunks reserved: take
\* fl_lock.
AllocateLock(n, k) ==
  /\ apc = "idle"
  /\ gc = "idle" \/ (Sweeping /\ cycles \in ConcurrentCycles)
  /\ n <= fl_chunks
  /\ apc' = "type" /\ todo' = n /\ kind' = k
  /\ UNCHANGED <<listVars, chunkType, header, held, nc, gc, at, cycles>>

\* allocNextChunk, first statement.
AllocType ==
  /\ apc = "type" /\ fl_head # NULL
  /\ chunkType' = [chunkType EXCEPT ![fl_head] = kind]
  /\ apc' = "next"
  /\ UNCHANGED <<listVars, header, held, nc, todo, kind, gc, at, cycles>>

\* ... its second: read the link of the chunk.
AllocNext ==
  /\ apc = "next"
  /\ nc' = next[fl_head]
  /\ apc' = "header"
  /\ UNCHANGED <<listVars, chunkType, header, held, todo, kind, gc, at, cycles>>

\* Mutated form: the loop of allocateChunks takes one chunk too many.
AllocHeader_oneMore ==
  /\ apc = "header"
  /\ header' = [header EXCEPT ![fl_head] = IF Sweeping THEN "keep" ELSE "white"]
  /\ held' = held \cup {fl_head}
  /\ fl_head' = nc
  /\ fl_tail' = IF nc = NULL THEN NULL ELSE fl_tail
  /\ fl_chunks' = fl_chunks - 1
  /\ todo' = todo - 1
  /\ apc' = IF todo = 0 THEN "idle" ELSE "type"
  /\ UNCHANGED <<sl_head, sl_tail, sl_chunks, next, chunkType, nc, kind, gc, at, cycles>>

\* The rest of it: the header is cleaned and coloured, grey while a collection
\* is on, and the chunk leaves the list; after the last one fl_lock is
\* released.
AllocHeader ==
  /\ apc = "header"
  /\ header' = [header EXCEPT ![fl_head] = IF Sweeping THEN "keep" ELSE "white"]
  /\ held' = held \cup {fl_head}
  /\ fl_head' = nc
  /\ fl_tail' = IF nc = NULL THEN NULL ELSE fl_tail
  /\ fl_chunks' = fl_chunks - 1
  /\ todo' = todo - 1
  /\ apc' = IF todo = 1 THEN "idle" ELSE "type"
  /\ UNCHANGED <<sl_head, sl_tail, sl_chunks, next, chunkType, nc, kind, gc, at, cycles>>

-----------------------------------------------------------------------------
\* The mark phase, as the sweep sees it: some of the chunks in use are marked.
\* A mutator that waits for this collection (GC_collect with force) is blocked
\* by now.
StartSweep ==
  /\ gc = "idle" /\ cycles < Cycles
  /\ apc = "idle" \/ cycles + 1 \in ConcurrentCycles
  /\ \E K \in SUBSET held :
       header' = [c \in Chunks |-> IF c \in K THEN "keep" ELSE header[c]]
  /\ gc' = "sweep" /\ at' = 1 /\ cycles' = cycles + 1
  /\ UNCHANGED <<listVars, chunkType, held, allocVars>>

\* The sweep meets a collectable chunk that is not a stack's.
SweepTest ==
  /\ gc = "sweep" /\ at <= N
  /\ chunkType[at] = "NORMAL" /\ header[at] = "white"
  /\ gc' = "free"
  /\ UNCHANGED <<listVars, chunkType, header, held, allocVars, at, cycles>>

\* It frees it, with oneByOne once it has fl_lock.  The header it leaves in
\* memory still says "in use, collectable".
SweepFree ==
  /\ gc = "free"
  /\ \/ oneByOne /\ apc = "idle" /\ insertChunkToFL(at) /\ UNCHANGED <<sl_head, sl_tail, sl_chunks>>
     \/ ~oneByOne /\ insertChunktoSubList(at) /\ UNCHANGED <<fl_head, fl_tail, fl_chunks>>
  /\ chunkType' = [chunkType EXCEPT ![at] = "EMPTY"]
  /\ held' = held \ {at}
  /\ gc' = "sweep" /\ at' = at + 1
  /\ UNCHANGED <<header, allocVars, cycles>>

\* It passes over free chunks, stack chunks and chunks not in use, and unmarks
\* the others.
SweepKeep ==
  /\ gc = "sweep" /\ at <= N
  /\ \/ /\ chunkType[at] \in {"EMPTY", "STACK"} \/ header[at] = "clean"
        /\ UNCHANGED header
     \/ /\ chunkType[at] = "NORMAL" /\ header[at] = "keep"
        /\ header' = [header EXCEPT ![at] = "white"]
  /\ at' = at + 1
  /\ UNCHANGED <<listVars, chunkType, held, allocVars, gc, cycles>>

\* Mutated form: the splice without LOCK_FL.
FinishSweep_unlocked ==
  /\ gc = "sweep" /\ at = N + 1
  /\ IF oneByOne THEN UNCHANGED listVars ELSE addSweepListToFL
  /\ gc' = "idle"
  /\ UNCHANGED <<chunkType, header, held, allocVars, at, cycles>>

\* The end of the sweep: the splice needs fl_lock unless there is nothing to
\* splice.
FinishSweep ==
  /\ gc = "sweep" /\ at = N + 1
  /\ \/ oneByOne /\ UNCHANGED listVars
     \/ ~oneByOne /\ (sl_chunks = 0 \/ apc = "idle") /\ addSweepListToFL
  /\ gc' = "idle"
  /\ UNCHANGED <<chunkType, header, held, allocVars, at, cycles>>

-----------------------------------------------------------------------------
Next ==
  /\ \/ CreateChunk
     \/ \E n \in Requests, k \in {"NORMAL", "STACK"} : AllocateLock(n, k)
     \/ AllocType \/ AllocNext \/ AllocHeader
     \/ StartSweep \/ SweepTest \/ SweepFree \/ SweepKeep \/ FinishSweep
  /\ UNCHANGED oneByOne

Spec == Init /\ [][Next]_vars
-----------------------------------------------------------------------------
(* Properties.                                                             *)

\* The chunks met when following the links nx from c on, up to NULL.
Following(nx, c) ==
  {d \in Chunks : \A S \in SUBSET Chunks :
     (c \in S \cup {NULL} /\ \A e \in S : nx[e] \in S \cup {NULL}) => d \in S}

Members(head) == Following(next, head)

\* The list from head has exactly n chunks, all of them empty, and ends with
\* tail: no other chunk follows it and the list does not run into itself.
IsList(head, tail, n) ==
  /\ Cardinality(Members(head)) = n
  /\ \A c \in Members(head) : chunkType[c] = "EMPTY"
  /\ IF n = 0 THEN head = NULL /\ tail = NULL
     ELSE tail \in Members(head) /\ next[tail] = NULL

\* Every variable keeps its type.
TypeOK ==
  /\ {fl_head, fl_tail, sl_head, sl_tail} \subseteq Chunks \cup {NULL}
  /\ fl_chunks \in 0 .. N /\ sl_chunks \in 0 .. N
  /\ next \in [Chunks -> Chunks \cup {NULL}]
  /\ chunkType \in [Chunks -> {"EMPTY", "NORMAL", "STACK"}]
  /\ header \in [Chunks -> {"clean", "white", "keep"}]
  /\ held \subseteq Chunks
  /\ apc \in {"idle", "type", "next", "header"} /\ nc \in Chunks \cup {NULL} /\ todo \in Nat
  /\ kind \in {"NORMAL", "STACK"}
  /\ gc \in {"create", "idle", "sweep", "free"} /\ at \in 1 .. N + 1 /\ cycles \in 0 .. Cycles
  /\ oneByOne \in BOOLEAN

\* Whenever fl_lock is free, fl_chunks counts the chunks from fl_head to
\* fl_tail, and the sublist is in the same shape: what gc-check.fun and
\* allocNextChunk take for granted.
ListsWellFormed ==
  apc = "idle" => IsList(fl_head, fl_tail, fl_chunks) /\ IsList(sl_head, sl_tail, sl_chunks)

\* No chunk is leaked and none is in two places: each one is held by the
\* program, on the free list, on the sublist, or not yet created.
ChunksConserved ==
  apc = "idle" =>
    LET fl == Members(fl_head)  sl == Members(sl_head)
        uncreated == IF gc = "create" THEN at .. N ELSE {}
    IN /\ fl \cup sl \cup held \cup uncreated = Chunks
       /\ fl \cap sl = {} /\ (fl \cup sl) \cap held = {}

\* A chunk the program holds is on no list ("Visiting a chunk that is on free
\* list!").
HeldNotFree == apc = "idle" => (Members(fl_head) \cup Members(sl_head)) \cap held = {}

\* A step in which the sweep decides to free the very chunk allocNextChunk is
\* taking: its type is set, its header not yet cleaned.
Overtakes ==
  /\ gc = "sweep" /\ gc' = "free"
  /\ at = fl_head /\ apc \in {"next", "header"}

\* What an observer sees who does not follow links: the chunks of the two
\* lists, the held ones, and whether a sweep is on.
Heap == INSTANCE UMHeapSpec WITH
          free     <- Members(fl_head),
          swept    <- Members(sl_head),
          sweeping <- Sweeping

\* The lists, with the allocator's three statements and the sweep's loop
\* between them, do only what a set of free chunks would: an allocation takes
\* one free chunk, and a chunk comes back from the program's hands by a sweep.
HeapSpec == Heap!Spec
=============================================================================
