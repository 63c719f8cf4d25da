---------------------------- MODULE UMHeapProofs ----------------------------
(***************************************************************************)
(* Proofs about UMHeap: the two lists link by link, for any number of      *)
(* chunks and collections, whatever the requests and whichever collections *)
(* have the program running beside them, in every execution in which the   *)
(* sweep does not overtake the allocator ([][~Overtakes]_vars).  The last  *)
(* theorem but one shows that no execution in which only the first         *)
(* collection is concurrent is left out; the run heap_alloc_race shows one *)
(* with a concurrent second collection that is.                            *)
(***************************************************************************)
EXTENDS UMHeap, FiniteSetTheorems, TLAPS

USE UMHeapAssumption DEF UMHeapAssumption

Refs == Chunks \cup {NULL}

\* A list in good order, over the links nx: n chunks that end with t, none of
\* which links back to the head or to a chunk another one links to.
WellLinked(nx, h, t, n) ==
  LET M == Following(nx, h)
  IN /\ Cardinality(M) = n
     /\ n = 0 => h = NULL /\ t = NULL
     /\ n # 0 => h # NULL /\ t \in M /\ nx[t] = NULL
     /\ \A e \in M : nx[e] # h
     /\ \A d, e \in M : nx[d] = nx[e] /\ nx[d] # NULL => d = e

-----------------------------------------------------------------------------
(* Following links.                                                        *)

\* Following(nx, h) is the least set that holds h and is closed under nx.
LEMMA FollowingClosed ==
  ASSUME NEW nx \in [Chunks -> Refs], NEW h \in Refs
  PROVE  /\ Following(nx, h) \in SUBSET Chunks
         /\ h \in Following(nx, h) \cup {NULL}
         /\ \A e \in Following(nx, h) : nx[e] \in Following(nx, h) \cup {NULL}
<1>1. ASSUME NEW e \in Following(nx, h), nx[e] # NULL PROVE nx[e] \in Following(nx, h)
  <2>1. e \in Chunks /\ nx[e] \in Chunks
    BY <1>1 DEF Following, Refs
  <2> QED BY <1>1, <2>1 DEF Following
<1>2. h # NULL => h \in Following(nx, h)
  BY DEF Following, Refs
<1> QED BY <1>1, <1>2 DEF Following

\* It is contained in every such set.
LEMMA FollowingLeast ==
  ASSUME NEW nx, NEW h, NEW S \in SUBSET Chunks, h \in S \cup {NULL},
         \A e \in S : nx[e] \in S \cup {NULL}
  PROVE  Following(nx, h) \subseteq S
BY DEF Following

\* Links outside the list do not matter.
LEMMA FollowingSame ==
  ASSUME NEW nx \in [Chunks -> Refs], NEW ny \in [Chunks -> Refs], NEW h \in Refs,
         \A e \in Following(nx, h) : ny[e] = nx[e]
  PROVE  Following(ny, h) = Following(nx, h)
<1>1. Following(ny, h) \subseteq Following(nx, h)
  BY FollowingClosed, FollowingLeast
<1>2. \A e \in Following(ny, h) : nx[e] \in Following(ny, h) \cup {NULL}
  BY <1>1, FollowingClosed
<1>3. Following(nx, h) \subseteq Following(ny, h)
  BY <1>2, FollowingClosed, FollowingLeast
<1> QED BY <1>1, <1>3

\* Nothing follows NULL, and nothing follows a chunk whose link is NULL.
LEMMA FollowingEnds ==
  ASSUME NEW nx \in [Chunks -> Refs]
  PROVE  /\ Following(nx, NULL) = {}
         /\ \A c \in Chunks : nx[c] = NULL => Following(nx, c) = {c}
<1>1. Following(nx, NULL) = {}
  <2>1. {} \in SUBSET Chunks /\ NULL \in {} \cup {NULL} /\ \A e \in {} : nx[e] \in {} \cup {NULL}
    OBVIOUS
  <2>2. ASSUME NEW c \in Following(nx, NULL) PROVE FALSE
    BY <2>1, <2>2 DEF Following
  <2> QED BY <2>2
<1>2. ASSUME NEW c \in Chunks, nx[c] = NULL PROVE Following(nx, c) = {c}
  <2>0. {c} \in SUBSET Chunks /\ c \in {c} \cup {NULL} /\ \A e \in {c} : nx[e] \in {c} \cup {NULL}
    BY <1>2
  <2>1. Following(nx, c) \subseteq {c}
    BY <2>0, FollowingLeast, Zenon
  <2>2. c \in Following(nx, c)
    BY <1>2, FollowingClosed DEF Refs, Chunks, NULL
  <2> QED BY <2>1, <2>2
<1> QED BY <1>1, <1>2

\* Linking the tail of one list to the head of another joins them.
LEMMA FollowingJoin ==
  ASSUME NEW nx \in [Chunks -> Refs], NEW ny \in [Chunks -> Refs], NEW h \in Refs, NEW d \in Chunks,
         NEW t \in Following(nx, h), nx[t] = NULL, ny[t] = d,
         \A e \in Following(nx, h) : e # t => ny[e] = nx[e]
  PROVE  Following(ny, h) = Following(nx, h) \cup Following(ny, d)
<1> DEFINE M == Following(nx, h)
           D == Following(ny, d)
           T == Following(ny, h)
<1>1. /\ M \in SUBSET Chunks /\ h \in M \cup {NULL} /\ \A e \in M : nx[e] \in M \cup {NULL}
      /\ D \in SUBSET Chunks /\ d \in D /\ \A e \in D : ny[e] \in D \cup {NULL}
      /\ T \in SUBSET Chunks /\ h \in T \cup {NULL} /\ \A e \in T : ny[e] \in T \cup {NULL}
  BY FollowingClosed DEF Refs, Chunks, NULL
<1>2. \A S \in SUBSET Chunks : (h \in S \cup {NULL} /\ \A e \in S : nx[e] \in S \cup {NULL}) => M \subseteq S
  BY FollowingLeast
<1>3. \A S \in SUBSET Chunks : (d \in S \cup {NULL} /\ \A e \in S : ny[e] \in S \cup {NULL}) => D \subseteq S
  BY FollowingLeast
<1>4. \A S \in SUBSET Chunks : (h \in S \cup {NULL} /\ \A e \in S : ny[e] \in S \cup {NULL}) => T \subseteq S
  BY FollowingLeast
<1>5. t \in M
  OBVIOUS
<1> HIDE DEF M, D, T
<1>6. T \subseteq M \cup D
  <2>1. \A e \in M \cup D : ny[e] \in M \cup D \cup {NULL}
    BY <1>1, <1>5 DEF M
  <2> QED BY <1>1, <1>4, <2>1
<1>7. M \subseteq T
  <2>1. \A e \in T \cap M : nx[e] \in (T \cap M) \cup {NULL}
    BY <1>1 DEF M
  <2>2. h \in (T \cap M) \cup {NULL} /\ T \cap M \in SUBSET Chunks
    BY <1>1
  <2>3. M \subseteq T \cap M
    BY <1>2, <2>1, <2>2
  <2> QED BY <2>3
<1>8. D \subseteq T
  BY <1>1, <1>3, <1>5, <1>7
<1>9. T = M \cup D
  BY <1>6, <1>7, <1>8
<1> QED BY <1>9 DEF M, D, T

\* Popping the head leaves the rest, when nothing links back to the head.
LEMMA FollowingPop ==
  ASSUME NEW nx \in [Chunks -> Refs], NEW h \in Chunks, \A e \in Following(nx, h) : nx[e] # h
  PROVE  Following(nx, nx[h]) = Following(nx, h) \ {h}
<1> DEFINE M == Following(nx, h)
           T == Following(nx, nx[h])
<1>1. /\ M \in SUBSET Chunks /\ h \in M /\ \A e \in M : nx[e] \in M \cup {NULL}
      /\ T \in SUBSET Chunks /\ nx[h] \in T \cup {NULL} /\ \A e \in T : nx[e] \in T \cup {NULL}
  BY FollowingClosed DEF Refs, Chunks, NULL
<1>2. \A S \in SUBSET Chunks : (h \in S \cup {NULL} /\ \A e \in S : nx[e] \in S \cup {NULL}) => M \subseteq S
  BY FollowingLeast
<1>3. \A S \in SUBSET Chunks : (nx[h] \in S \cup {NULL} /\ \A e \in S : nx[e] \in S \cup {NULL}) => T \subseteq S
  BY FollowingLeast
<1>4. \A e \in M : nx[e] # h
  OBVIOUS
<1> HIDE DEF M, T
<1>5. T \subseteq M \ {h}
  <2>1. M \ {h} \in SUBSET Chunks /\ nx[h] \in (M \ {h}) \cup {NULL}
    BY <1>1, <1>4
  <2>2. \A e \in M \ {h} : nx[e] \in (M \ {h}) \cup {NULL}
    BY <1>1, <1>4
  <2> QED BY <1>3, <2>1, <2>2
<1>6. M \subseteq T \cup {h}
  <2>1. T \cup {h} \in SUBSET Chunks /\ h \in (T \cup {h}) \cup {NULL}
    BY <1>1
  <2>2. \A e \in T \cup {h} : nx[e] \in (T \cup {h}) \cup {NULL}
    BY <1>1
  <2> QED BY <1>2, <2>1, <2>2
<1>7. T = M \ {h}
  BY <1>5, <1>6
<1> QED BY <1>7 DEF M, T

-----------------------------------------------------------------------------
(* Lists in good order.                                                    *)

\* Sets of chunks are finite and no larger than the heap.
LEMMA ChunkSets ==
  /\ IsFiniteSet(Chunks) /\ Cardinality(Chunks) = N
  /\ \A S \in SUBSET Chunks : IsFiniteSet(S) /\ Cardinality(S) \in 0 .. N /\ (Cardinality(S) = 0 <=> S = {})
<1>1. IsFiniteSet(Chunks) /\ Cardinality(Chunks) = N
  BY FS_Interval DEF Chunks
<1>2. ASSUME NEW S \in SUBSET Chunks
      PROVE  IsFiniteSet(S) /\ Cardinality(S) \in 0 .. N /\ (Cardinality(S) = 0 <=> S = {})
  <2>1. IsFiniteSet(S) /\ Cardinality(S) <= N
    BY <1>1, FS_Subset
  <2> QED BY <2>1, FS_CardinalityType, FS_EmptySet
<1> QED BY <1>1, <1>2

\* The counter of a list in good order fits the heap and is 0 for the empty list.
LEMMA WellBounded ==
  ASSUME NEW nx \in [Chunks -> Refs], NEW h \in Refs, NEW t, NEW n, WellLinked(nx, h, t, n)
  PROVE  n \in 0 .. N /\ t \in Refs /\ (n = 0 <=> Following(nx, h) = {})
BY FollowingClosed, ChunkSets DEF WellLinked, Refs

\* The empty list is in good order.
LEMMA WellEmpty ==
  ASSUME NEW nx \in [Chunks -> Refs] PROVE WellLinked(nx, NULL, NULL, 0)
BY FollowingEnds, ChunkSets DEF WellLinked

\* A list stays in good order when links outside it change.
LEMMA WellSame ==
  ASSUME NEW nx \in [Chunks -> Refs], NEW ny \in [Chunks -> Refs], NEW h \in Refs, NEW t, NEW n,
         WellLinked(nx, h, t, n), \A e \in Following(nx, h) : ny[e] = nx[e]
  PROVE  WellLinked(ny, h, t, n) /\ Following(ny, h) = Following(nx, h)
BY FollowingSame DEF WellLinked

\* A chunk whose link is NULL is a list of one in good order.
LEMMA WellSingle ==
  ASSUME NEW nx \in [Chunks -> Refs], NEW c \in Chunks, nx[c] = NULL
  PROVE  WellLinked(nx, c, c, 1) /\ Following(nx, c) = {c}
<1>1. Following(nx, c) = {c}
  BY FollowingEnds
<1>2. c # NULL
  BY DEF Chunks, NULL
<1>3. Cardinality(Following(nx, c)) = 1
  BY <1>1, FS_Singleton, Zenon
<1> QED BY <1>1, <1>2, <1>3 DEF WellLinked

\* Linking the tail of one list to the head of a disjoint one gives a list whose
\* length is the sum.
LEMMA WellJoin ==
  ASSUME NEW nx \in [Chunks -> Refs], NEW ny \in [Chunks -> Refs], NEW h \in Refs, NEW t, NEW n,
         WellLinked(nx, h, t, n), n # 0,
         NEW d \in Chunks, NEW u, NEW m, WellLinked(ny, d, u, m),
         Following(nx, h) \cap Following(ny, d) = {},
         ny[t] = d, \A e \in Following(nx, h) : e # t => ny[e] = nx[e]
  PROVE  WellLinked(ny, h, u, n + m) /\ Following(ny, h) = Following(nx, h) \cup Following(ny, d)
<1> DEFINE M == Following(nx, h)
           D == Following(ny, d)
<1>1. t \in M /\ nx[t] = NULL /\ h # NULL
  BY DEF WellLinked
<1>2. Following(ny, h) = M \cup D
  BY <1>1, FollowingJoin
<1>3. /\ M \in SUBSET Chunks /\ h \in M /\ \A e \in M : nx[e] \in M \cup {NULL}
      /\ D \in SUBSET Chunks /\ d \in D /\ \A e \in D : ny[e] \in D \cup {NULL}
  BY <1>1, FollowingClosed DEF Refs, Chunks, NULL
<1>4. /\ Cardinality(M) = n /\ Cardinality(D) = m /\ n \in Nat /\ m \in Nat
      /\ \A e \in M : nx[e] # h
      /\ \A c, e \in M : nx[c] = nx[e] /\ nx[c] # NULL => c = e
      /\ \A e \in D : ny[e] # d
      /\ \A c, e \in D : ny[c] = ny[e] /\ ny[c] # NULL => c = e
      /\ m # 0 => u \in D /\ ny[u] = NULL
  BY <1>3, ChunkSets DEF WellLinked
<1>5. M \cap D = {} /\ ny[t] = d /\ \A e \in M : e # t => ny[e] = nx[e]
  OBVIOUS
<1> HIDE DEF M, D
<1>6. Cardinality(M \cup D) = n + m
  <2>1. IsFiniteSet(M) /\ IsFiniteSet(D)
    BY <1>3, ChunkSets
  <2>2. Cardinality(M \cap D) = 0
    BY <1>5, FS_EmptySet, Zenon
  <2>3. Cardinality(M \cup D) = Cardinality(M) + Cardinality(D) - Cardinality(M \cap D)
    BY <2>1, FS_Union, Zenon
  <2> QED BY <1>4, <2>2, <2>3
<1>7. m # 0
  BY <1>3, <1>4, ChunkSets
<1>8. \A e \in M \cup D : ny[e] # h
  BY <1>1, <1>3, <1>4, <1>5
<1>9. \A c, e \in M \cup D : ny[c] = ny[e] /\ ny[c] # NULL => c = e
  BY <1>1, <1>3, <1>4, <1>5
<1>10. n + m # 0 /\ u \in M \cup D /\ ny[u] = NULL
  BY <1>4, <1>7
<1> QED BY <1>1, <1>2, <1>6, <1>8, <1>9, <1>10 DEF WellLinked, M, D

\* What allocNextChunk does: without its head the list is in good order.
LEMMA WellPop ==
  ASSUME NEW nx \in [Chunks -> Refs], NEW h \in Refs, NEW t, NEW n, WellLinked(nx, h, t, n), n # 0
  PROVE  /\ WellLinked(nx, nx[h], IF nx[h] = NULL THEN NULL ELSE t, n - 1)
         /\ Following(nx, nx[h]) = Following(nx, h) \ {h} /\ h \in Following(nx, h)
<1> DEFINE M == Following(nx, h)
<1>1. h \in Chunks /\ h \in M /\ M \in SUBSET Chunks /\ nx[h] \in Refs
  BY FollowingClosed DEF WellLinked, Refs
<1>2. Following(nx, nx[h]) = M \ {h}
  BY <1>1, FollowingPop DEF WellLinked
<1>3. /\ Cardinality(M) = n /\ n \in Nat /\ t \in M /\ nx[t] = NULL
      /\ \A c, e \in M : nx[c] = nx[e] /\ nx[c] # NULL => c = e
  BY <1>1, ChunkSets DEF WellLinked
<1>4. Cardinality(M \ {h}) = n - 1 /\ n - 1 \in Nat
  BY <1>1, <1>3, ChunkSets, FS_RemoveElement
<1>5. CASE nx[h] = NULL
  <2>1. M \ {h} = {}
    BY <1>2, <1>5, FollowingEnds
  <2>2. n - 1 = 0
    BY <1>4, <2>1, FS_EmptySet
  <2>3. Following(nx, NULL) = {}
    BY FollowingEnds
  <2> QED BY <1>1, <1>2, <1>4, <1>5, <2>1, <2>2, <2>3 DEF WellLinked
<1>6. CASE nx[h] # NULL
  <2>1. t \in M \ {h} /\ n - 1 # 0
    <3>1. t \in M \ {h}
      BY <1>3, <1>6
    <3> QED BY <1>1, <1>4, <3>1, ChunkSets
  <2>2. \A e \in M \ {h} : nx[e] # nx[h]
    BY <1>1, <1>3, <1>6
  <2> QED BY <1>1, <1>2, <1>3, <1>4, <1>6, <2>1, <2>2 DEF WellLinked
<1> QED BY <1>5, <1>6

\* What insertChunkToFL and insertChunktoSubList do.
LEMMA WellInsert ==
  ASSUME NEW nx \in [Chunks -> Refs], NEW h \in Refs, NEW t, NEW n, WellLinked(nx, h, t, n),
         NEW c \in Chunks, c \notin Following(nx, h),
         NEW ny \in [Chunks -> Refs], ny[c] = NULL, n # 0 => ny[t] = c,
         \A e \in Chunks : e # c /\ (n = 0 \/ e # t) => ny[e] = nx[e],
         NEW g \in Refs, n = 0 => g = c, n # 0 => g = h
  PROVE  /\ WellLinked(ny, g, c, n + 1) /\ Following(ny, g) = Following(nx, h) \cup {c}
         /\ \A e \in Chunks : e # c /\ e \notin Following(nx, h) => ny[e] = nx[e]
<1>1. n \in Nat /\ (n = 0 <=> Following(nx, h) = {}) /\ t \in Refs
  BY WellBounded
<1>2. CASE n = 0
  <2>1. ny[c] = NULL /\ g = c /\ \A e \in Chunks : e # c => ny[e] = nx[e]
    BY <1>2
  <2>2. WellLinked(ny, g, c, 1) /\ Following(ny, g) = {c}
    BY <2>1, WellSingle
  <2>3. n + 1 = 1 /\ Following(nx, h) \cup {c} = {c}
    BY <1>1, <1>2
  <2>4. WellLinked(ny, g, c, n + 1) /\ Following(ny, g) = Following(nx, h) \cup {c}
    BY <2>2, <2>3, Zenon
  <2> QED BY <2>1, <2>4, Zenon
<1>3. CASE n # 0
  <2>1. t \in Following(nx, h) /\ t \in Chunks /\ t # c
    BY <1>3, FollowingClosed DEF WellLinked
  <2>2. ny[t] = c /\ g = h /\ \A e \in Chunks : e # c /\ e # t => ny[e] = nx[e]
    BY <1>3, <2>1
  <2>3. WellLinked(ny, c, c, 1) /\ Following(ny, c) = {c}
    BY <2>2, WellSingle
  <2>4. \A e \in Following(nx, h) : e # t => ny[e] = nx[e]
    BY <2>2, FollowingClosed
  <2>5. Following(nx, h) \cap Following(ny, c) = {}
    BY <2>3
  <2>6. WellLinked(ny, h, c, n + 1) /\ Following(ny, h) = Following(nx, h) \cup Following(ny, c)
    BY <1>3, <2>2, <2>3, <2>4, <2>5, WellJoin
  <2> QED BY <2>1, <2>2, <2>3, <2>6
<1> QED BY <1>2, <1>3

\* What addSweepListToFL does.
LEMMA WellSplice ==
  ASSUME NEW nx \in [Chunks -> Refs],
         NEW h \in Refs, NEW t, NEW n, WellLinked(nx, h, t, n),
         NEW k \in Refs, NEW u, NEW m, WellLinked(nx, k, u, m),
         Following(nx, h) \cap Following(nx, k) = {},
         m # 0, n # 0, NEW ny \in [Chunks -> Refs], ny[t] = k,
         \A e \in Chunks : e # t => ny[e] = nx[e]
  PROVE  /\ WellLinked(ny, h, u, n + m)
         /\ Following(ny, h) = Following(nx, h) \cup Following(nx, k)
<1>1. t \in Following(nx, h) /\ t \in Chunks /\ k \in Chunks
  BY FollowingClosed DEF WellLinked, Refs
<1>2. \A e \in Following(nx, k) : ny[e] = nx[e]
  BY <1>1, FollowingClosed
<1>3. WellLinked(ny, k, u, m) /\ Following(ny, k) = Following(nx, k)
  BY <1>2, WellSame
<1>4. \A e \in Following(nx, h) : e # t => ny[e] = nx[e]
  BY FollowingClosed
<1>5. Following(nx, h) \cap Following(ny, k) = {}
  BY <1>3
<1>6. WellLinked(ny, h, u, n + m) /\ Following(ny, h) = Following(nx, h) \cup Following(ny, k)
  BY <1>1, <1>3, <1>4, <1>5, WellJoin
<1> QED BY <1>3, <1>6

-----------------------------------------------------------------------------
(* The invariant.                                                          *)

Fl == Members(fl_head)
Sl == Members(sl_head)
Uncreated == IF gc = "create" THEN at .. N ELSE {}

ListInv == /\ WellLinked(next, fl_head, fl_tail, fl_chunks)
           /\ WellLinked(next, sl_head, sl_tail, sl_chunks)

\* Every chunk is in exactly one place.
PlaceInv ==
  /\ Fl \cup Sl \cup held \cup Uncreated = Chunks
  /\ Fl \cap Sl = {} /\ (Fl \cup Sl) \cap held = {}
  /\ Uncreated \cap (Fl \cup Sl \cup held) = {}

\* Only the chunk that allocNextChunk is taking is on a list and not empty.
EmptyInv == \A c \in Fl \cup Sl :
  chunkType[c] = "EMPTY" \/ (c = fl_head /\ apc \in {"next", "header"})

\* Who holds fl_lock finds the chunks it has still to take.
AllocInv ==
  /\ apc # "idle" => todo \in 1 .. fl_chunks /\ gc # "create"
  /\ apc = "header" => nc = next[fl_head]
  /\ Sweeping /\ apc # "idle" => cycles \in ConcurrentCycles

PhaseInv ==
  /\ gc = "create" => /\ at <= N /\ cycles = 0
                      /\ \A c \in Chunks : header[c] = "clean" /\ chunkType[c] = "EMPTY"
  /\ Sweeping => cycles # 0
  /\ ~Sweeping \/ oneByOne => sl_chunks = 0

\* A chunk the sweep is about to free is still the program's.
FreeInv == gc = "free" => at \in held /\ chunkType[at] = "NORMAL"

\* Until the first sweep has passed over it a free chunk has never been used.
CleanInv ==
  /\ cycles = 0 => \A c \in Fl \cup Sl : header[c] = "clean"
  /\ cycles = 1 /\ Sweeping => \A c \in Fl \cup Sl : c < at \/ header[c] = "clean"

HeapInv == TypeOK /\ ListInv /\ PlaceInv /\ EmptyInv /\ AllocInv /\ PhaseInv /\ FreeInv /\ CleanInv

\* The list variables have their types.
ListTypes == /\ {fl_head, fl_tail, sl_head, sl_tail} \subseteq Chunks \cup {NULL}
             /\ fl_chunks \in 0 .. N /\ sl_chunks \in 0 .. N
             /\ next \in [Chunks -> Chunks \cup {NULL}]

\* The free list and the sublist as sets of chunks.
LEMMA ListFacts ==
  ASSUME TypeOK, ListInv
  PROVE  /\ next \in [Chunks -> Refs] /\ fl_head \in Refs /\ sl_head \in Refs
         /\ fl_tail \in Refs /\ sl_tail \in Refs
         /\ Fl \in SUBSET Chunks /\ Sl \in SUBSET Chunks
         /\ fl_chunks \in Nat /\ (fl_chunks = 0 <=> Fl = {}) /\ (fl_chunks # 0 => fl_tail \in Fl /\ fl_head \in Fl)
         /\ sl_chunks \in Nat /\ (sl_chunks = 0 <=> Sl = {}) /\ (sl_chunks # 0 => sl_tail \in Sl /\ sl_head \in Sl)
<1>1. next \in [Chunks -> Refs] /\ fl_head \in Refs /\ sl_head \in Refs /\ fl_tail \in Refs /\ sl_tail \in Refs
  BY DEF TypeOK, Refs
<1>2. Fl \in SUBSET Chunks /\ Sl \in SUBSET Chunks /\ fl_head \in Fl \cup {NULL} /\ sl_head \in Sl \cup {NULL}
  BY <1>1, FollowingClosed DEF Fl, Sl, Members
<1>3. fl_chunks \in Nat /\ (fl_chunks = 0 <=> Fl = {}) /\ sl_chunks \in Nat /\ (sl_chunks = 0 <=> Sl = {})
  BY <1>1, WellBounded DEF ListInv, Fl, Sl, Members
<1>4. /\ fl_chunks # 0 => fl_tail \in Fl /\ fl_head # NULL
      /\ sl_chunks # 0 => sl_tail \in Sl /\ sl_head # NULL
  BY DEF ListInv, WellLinked, Fl, Sl, Members
<1> QED BY <1>1, <1>2, <1>3, <1>4

\* insertChunkToFL adds its chunk to the free list and leaves the sublist alone.
LEMMA InsertFL ==
  ASSUME TypeOK, ListInv, Fl \cap Sl = {}, NEW c \in Chunks, c \notin Fl \cup Sl,
         insertChunkToFL(c), UNCHANGED <<sl_head, sl_tail, sl_chunks>>
  PROVE  ListInv' /\ ListTypes' /\ Fl' = Fl \cup {c} /\ Sl' = Sl
<1>1. /\ next \in [Chunks -> Refs] /\ fl_head \in Refs /\ sl_head \in Refs /\ Sl \in SUBSET Chunks
      /\ fl_chunks # 0 => fl_tail \in Chunks /\ fl_tail # c
  BY ListFacts
<1>2. /\ next' \in [Chunks -> Refs] /\ next'[c] = NULL /\ (fl_chunks # 0 => next'[fl_tail] = c)
      /\ \A e \in Chunks : e # c /\ (fl_chunks = 0 \/ e # fl_tail) => next'[e] = next[e]
  <2>1. CASE fl_chunks = 0
    BY <1>1, <2>1 DEF insertChunkToFL, Refs
  <2>2. CASE fl_chunks # 0
    BY <1>1, <2>2 DEF insertChunkToFL, Refs
  <2> QED BY <2>1, <2>2
<1>3. /\ fl_head' \in Refs /\ (fl_chunks = 0 => fl_head' = c) /\ (fl_chunks # 0 => fl_head' = fl_head)
      /\ fl_tail' = c /\ fl_chunks' = fl_chunks + 1
  BY <1>1 DEF insertChunkToFL, Refs
<1>4. WellLinked(next, fl_head, fl_tail, fl_chunks) /\ c \notin Following(next, fl_head)
  BY DEF ListInv, Fl, Members
<1>5. /\ WellLinked(next', fl_head', c, fl_chunks + 1)
      /\ Following(next', fl_head') = Following(next, fl_head) \cup {c}
      /\ \A e \in Chunks : e # c /\ e \notin Following(next, fl_head) => next'[e] = next[e]
  BY <1>1, <1>2, <1>3, <1>4, WellInsert
<1>6. \A e \in Following(next, sl_head) : next'[e] = next[e]
  BY <1>1, <1>5 DEF Fl, Sl, Members
<1>7. WellLinked(next', sl_head, sl_tail, sl_chunks) /\ Following(next', sl_head) = Following(next, sl_head)
  BY <1>1, <1>2, <1>6, WellSame DEF ListInv
<1>8. ListInv' /\ Fl' = Fl \cup {c} /\ Sl' = Sl
  BY <1>3, <1>5, <1>7 DEF ListInv, Fl, Sl, Members
<1>9. fl_chunks + 1 \in 0 .. N
  BY <1>2, <1>3, <1>5, WellBounded
<1> QED BY <1>2, <1>3, <1>8, <1>9 DEF ListTypes, Refs, TypeOK

\* insertChunktoSubList adds its chunk to the sublist and leaves the free list
\* alone, the links an allocation under way reads included.
LEMMA InsertSL ==
  ASSUME TypeOK, ListInv, Fl \cap Sl = {}, NEW c \in Chunks, c \notin Fl \cup Sl,
         insertChunktoSubList(c), UNCHANGED <<fl_head, fl_tail, fl_chunks>>
  PROVE  /\ ListInv' /\ ListTypes' /\ Sl' = Sl \cup {c} /\ Fl' = Fl
         /\ \A e \in Fl : next'[e] = next[e]
<1>1. /\ next \in [Chunks -> Refs] /\ fl_head \in Refs /\ sl_head \in Refs /\ Fl \in SUBSET Chunks
      /\ sl_chunks # 0 => sl_tail \in Chunks /\ sl_tail # c
  BY ListFacts
<1>2. /\ next' \in [Chunks -> Refs] /\ next'[c] = NULL /\ (sl_chunks # 0 => next'[sl_tail] = c)
      /\ \A e \in Chunks : e # c /\ (sl_chunks = 0 \/ e # sl_tail) => next'[e] = next[e]
  <2>1. CASE sl_chunks = 0
    BY <1>1, <2>1 DEF insertChunktoSubList, Refs
  <2>2. CASE sl_chunks # 0
    BY <1>1, <2>2 DEF insertChunktoSubList, Refs
  <2> QED BY <2>1, <2>2
<1>3. /\ sl_head' \in Refs /\ (sl_chunks = 0 => sl_head' = c) /\ (sl_chunks # 0 => sl_head' = sl_head)
      /\ sl_tail' = c /\ sl_chunks' = sl_chunks + 1
  BY <1>1 DEF insertChunktoSubList, Refs
<1>4. WellLinked(next, sl_head, sl_tail, sl_chunks) /\ c \notin Following(next, sl_head)
  BY DEF ListInv, Sl, Members
<1>5. /\ WellLinked(next', sl_head', c, sl_chunks + 1)
      /\ Following(next', sl_head') = Following(next, sl_head) \cup {c}
      /\ \A e \in Chunks : e # c /\ e \notin Following(next, sl_head) => next'[e] = next[e]
  BY <1>1, <1>2, <1>3, <1>4, WellInsert
<1>6. \A e \in Following(next, fl_head) : next'[e] = next[e]
  BY <1>1, <1>5 DEF Fl, Sl, Members
<1>7. WellLinked(next', fl_head, fl_tail, fl_chunks) /\ Following(next', fl_head) = Following(next, fl_head)
  BY <1>1, <1>2, <1>6, WellSame DEF ListInv
<1>8. ListInv' /\ Sl' = Sl \cup {c} /\ Fl' = Fl
  BY <1>3, <1>5, <1>7 DEF ListInv, Fl, Sl, Members
<1>9. sl_chunks + 1 \in 0 .. N
  BY <1>2, <1>3, <1>5, WellBounded
<1> QED BY <1>2, <1>3, <1>6, <1>8, <1>9 DEF ListTypes, Refs, TypeOK, Fl, Members

\* addSweepListToFL moves the sublist to the free list.
LEMMA Splice ==
  ASSUME TypeOK, ListInv, Fl \cap Sl = {}, addSweepListToFL
  PROVE  /\ ListInv' /\ ListTypes' /\ Fl' = Fl \cup Sl /\ Sl' = {}
         /\ sl_chunks = 0 => next' = next /\ fl_head' = fl_head /\ fl_chunks' = fl_chunks
<1>1. /\ next \in [Chunks -> Refs] /\ fl_head \in Refs /\ sl_head \in Refs /\ fl_chunks \in Nat /\ sl_chunks \in Nat
      /\ (fl_chunks = 0 <=> Fl = {}) /\ (sl_chunks = 0 <=> Sl = {})
      /\ (fl_chunks # 0 => fl_tail \in Chunks) /\ (sl_chunks # 0 => sl_head \in Chunks /\ sl_tail \in Chunks)
      /\ fl_tail \in Refs /\ sl_tail \in Refs
  BY ListFacts
<1>2. /\ WellLinked(next, fl_head, fl_tail, fl_chunks) /\ WellLinked(next, sl_head, sl_tail, sl_chunks)
      /\ Following(next, fl_head) \cap Following(next, sl_head) = {}
  BY DEF ListInv, Fl, Sl, Members
<1>3. /\ next' \in [Chunks -> Refs] /\ fl_head' \in Refs /\ fl_tail' \in Refs /\ fl_chunks' = fl_chunks + sl_chunks
      /\ WellLinked(next', fl_head', fl_tail', fl_chunks')
      /\ Following(next', fl_head') = Following(next, fl_head) \cup Following(next, sl_head)
  <2>1. CASE sl_chunks = 0
    <3>1. UNCHANGED <<next, fl_head, fl_tail>> /\ fl_chunks' = fl_chunks /\ fl_chunks + sl_chunks = fl_chunks
      BY <1>1, <2>1 DEF addSweepListToFL
    <3>2. Following(next, sl_head) = {}
      BY <1>1, <2>1 DEF Sl, Members
    <3> QED BY <1>1, <1>2, <3>1, <3>2
  <2>2. CASE sl_chunks # 0 /\ fl_chunks = 0
    <3>1. /\ next' = next /\ fl_head' = sl_head /\ fl_tail' = sl_tail
          /\ fl_chunks' = sl_chunks /\ fl_chunks + sl_chunks = sl_chunks
      BY <1>1, <2>2 DEF addSweepListToFL
    <3>2. Following(next, fl_head) = {}
      BY <1>1, <2>2 DEF Fl, Members
    <3> QED BY <1>1, <1>2, <3>1, <3>2
  <2>3. CASE sl_chunks # 0 /\ fl_chunks # 0
    <3>1. /\ fl_head' = fl_head /\ fl_tail' = sl_tail /\ fl_chunks' = fl_chunks + sl_chunks
          /\ next' = [next EXCEPT ![fl_tail] = sl_head]
      BY <1>1, <2>3 DEF addSweepListToFL
    <3>2. /\ next' \in [Chunks -> Refs] /\ next'[fl_tail] = sl_head
          /\ \A e \in Chunks : e # fl_tail => next'[e] = next[e]
      BY <1>1, <2>3, <3>1
    <3>3. /\ WellLinked(next', fl_head, sl_tail, fl_chunks + sl_chunks)
          /\ Following(next', fl_head) = Following(next, fl_head) \cup Following(next, sl_head)
      BY <1>1, <1>2, <2>3, <3>2, WellSplice
    <3> QED BY <1>1, <3>1, <3>2, <3>3
  <2> QED BY <2>1, <2>2, <2>3
<1>4. sl_head' = NULL /\ sl_tail' = NULL /\ sl_chunks' = 0
  BY DEF addSweepListToFL
<1>5. WellLinked(next', NULL, NULL, 0) /\ Following(next', NULL) = {}
  BY <1>3, WellEmpty, FollowingEnds
<1>6. fl_chunks' \in 0 .. N
  BY <1>3, WellBounded
<1>7. ListInv' /\ Fl' = Fl \cup Sl /\ Sl' = {}
  BY <1>3, <1>4, <1>5 DEF ListInv, Fl, Sl, Members
<1>8. ListTypes'
  BY <1>3, <1>4, <1>6 DEF ListTypes, Refs
<1>9. sl_chunks = 0 => next' = next /\ fl_head' = fl_head /\ fl_chunks' = fl_chunks
  BY <1>1 DEF addSweepListToFL
<1> QED BY <1>7, <1>8, <1>9

\* What the sweep decides to free is held by the program, unless it overtakes
\* the allocator: every other chunk of the lists is empty.
LEMMA SweptIsHeld ==
  ASSUME HeapInv, SweepTest, [~Overtakes]_vars
  PROVE  at \in held /\ at \in Chunks /\ chunkType[at] = "NORMAL"
<1>1. /\ gc = "sweep" /\ gc' = "free" /\ at \in Chunks
      /\ chunkType[at] = "NORMAL"
  BY DEF SweepTest, HeapInv, TypeOK, Chunks
<1>2. vars' # vars
  BY <1>1 DEF vars
<1>3. ~(at = fl_head /\ apc \in {"next", "header"})
  BY <1>1, <1>2 DEF Overtakes
<1>4. at \notin Fl \cup Sl
  BY <1>1, <1>3 DEF HeapInv, EmptyInv
<1> QED BY <1>1, <1>4 DEF HeapInv, PlaceInv, Uncreated

\* HeapInv is inductive.
LEMMA HeapStep ==
  ASSUME HeapInv, [Next]_vars, [~Overtakes]_vars PROVE HeapInv'
<1>0. TypeOK /\ ListInv /\ PlaceInv /\ EmptyInv /\ AllocInv /\ PhaseInv /\ FreeInv /\ CleanInv
  BY DEF HeapInv
<1>1. /\ next \in [Chunks -> Refs] /\ fl_head \in Refs /\ sl_head \in Refs
      /\ Fl \in SUBSET Chunks /\ Sl \in SUBSET Chunks
      /\ fl_chunks \in Nat /\ (fl_chunks = 0 <=> Fl = {}) /\ (fl_chunks # 0 => fl_head \in Fl)
      /\ sl_chunks \in Nat /\ (sl_chunks = 0 <=> Sl = {})
  BY <1>0, ListFacts
<1> USE DEF listVars, allocVars
<1>2. ASSUME UNCHANGED <<fl_head, fl_tail, fl_chunks, sl_head, sl_tail, sl_chunks, next>>
      PROVE  ListInv' /\ ListTypes' /\ Fl' = Fl /\ Sl' = Sl
  BY <1>0, <1>2 DEF ListInv, ListTypes, Fl, Sl, Members, TypeOK
<1>a. oneByOne' = oneByOne
  BY DEF Next, vars
<1>3. CASE CreateChunk
  <2>1. /\ gc = "create" /\ at \in Chunks /\ at \in Nat /\ N \in Nat /\ at <= N /\ apc = "idle" /\ cycles = 0
        /\ insertChunkToFL(at) /\ at' = at + 1
        /\ UNCHANGED <<sl_head, sl_tail, sl_chunks, chunkType, header, held, apc, nc, todo, kind, cycles>>
        /\ gc' = IF at = N THEN "idle" ELSE "create"
    BY <1>0, <1>3 DEF CreateChunk, TypeOK, Chunks, AllocInv, PhaseInv
  <2>2. Uncreated = at .. N /\ at \in Uncreated /\ Uncreated' = Uncreated \ {at}
    BY <2>1 DEF Uncreated
  <2>3. at \notin Fl \cup Sl /\ Fl \cap Sl = {}
    BY <1>0, <2>2 DEF PlaceInv
  <2>4. ListInv' /\ ListTypes' /\ Fl' = Fl \cup {at} /\ Sl' = Sl
    BY <1>0, <2>1, <2>3, InsertFL
  <2>5. PlaceInv'
    BY <1>0, <2>1, <2>2, <2>4 DEF PlaceInv
  <2>6. \A c \in Chunks : header[c] = "clean" /\ chunkType[c] = "EMPTY"
    BY <1>0, <2>1 DEF PhaseInv
  <2>7. EmptyInv' /\ CleanInv'
    BY <1>1, <2>1, <2>4, <2>6 DEF EmptyInv, CleanInv, Sweeping
  <2>8. gc' \in {"create", "idle"} /\ (gc' = "create" => at' <= N) /\ at' \in 1 .. N + 1
    BY <2>1
  <2>9. AllocInv' /\ PhaseInv' /\ FreeInv'
    BY <1>0, <1>a, <2>1, <2>6, <2>8 DEF AllocInv, PhaseInv, FreeInv, Sweeping
  <2>10. TypeOK'
    BY <1>0, <1>a, <2>1, <2>4, <2>8 DEF TypeOK, ListTypes
  <2> QED BY <2>4, <2>5, <2>7, <2>9, <2>10 DEF HeapInv
<1>4. ASSUME NEW n \in Requests, NEW k \in {"NORMAL", "STACK"}, AllocateLock(n, k) PROVE HeapInv'
  <2>1. ListInv' /\ ListTypes' /\ Fl' = Fl /\ Sl' = Sl
    BY <1>2, <1>4 DEF AllocateLock
  <2>2. /\ apc = "idle" /\ apc' = "type" /\ todo' = n /\ kind' = k /\ n \in 1 .. fl_chunks
        /\ gc = "idle" \/ (Sweeping /\ cycles \in ConcurrentCycles)
        /\ UNCHANGED <<fl_head, fl_chunks, sl_chunks, chunkType, header, held, nc, gc, at, cycles, oneByOne>>
    BY <1>1, <1>4, <1>a DEF AllocateLock
  <2>3. PlaceInv' /\ EmptyInv' /\ CleanInv'
    BY <1>0, <2>1, <2>2 DEF PlaceInv, EmptyInv, CleanInv, Uncreated, Sweeping
  <2>4. AllocInv' /\ PhaseInv' /\ FreeInv'
    BY <1>0, <2>2 DEF AllocInv, PhaseInv, FreeInv, Sweeping
  <2>5. TypeOK'
    BY <1>0, <1>1, <2>1, <2>2 DEF TypeOK, ListTypes
  <2> QED BY <2>1, <2>3, <2>4, <2>5 DEF HeapInv
<1>5. CASE AllocType
  <2>1. ListInv' /\ ListTypes' /\ Fl' = Fl /\ Sl' = Sl
    BY <1>2, <1>5 DEF AllocType
  <2>2. /\ apc = "type" /\ apc' = "next" /\ fl_head \in Chunks
        /\ chunkType' = [chunkType EXCEPT ![fl_head] = kind]
        /\ UNCHANGED <<fl_head, fl_chunks, sl_chunks, header, held, nc, todo, kind, gc, at, cycles, oneByOne>>
    BY <1>1, <1>5, <1>a DEF AllocType, Refs
  <2>3. \A c \in Chunks : c # fl_head => chunkType'[c] = chunkType[c]
    BY <1>0, <2>2 DEF TypeOK
  <2>4. EmptyInv'
    BY <1>0, <1>1, <2>1, <2>2, <2>3 DEF EmptyInv
  <2>5. PlaceInv' /\ CleanInv'
    BY <1>0, <2>1, <2>2 DEF PlaceInv, CleanInv, Uncreated, Sweeping
  <2>6. AllocInv' /\ PhaseInv'
    BY <1>0, <2>2 DEF AllocInv, PhaseInv, Sweeping
  <2>9. FreeInv'
    <3>1. fl_head \in Fl /\ fl_head \notin held
      BY <1>0, <1>1, <2>2 DEF AllocInv, PlaceInv
    <3>2. at \in held => at \in Chunks
      BY <1>0 DEF TypeOK
    <3> QED BY <1>0, <2>2, <2>3, <3>1, <3>2 DEF FreeInv
  <2>7. chunkType' \in [Chunks -> {"EMPTY", "NORMAL", "STACK"}]
    BY <1>0, <2>2 DEF TypeOK
  <2>8. TypeOK'
    BY <1>0, <2>1, <2>2, <2>7 DEF TypeOK, ListTypes
  <2> QED BY <2>1, <2>4, <2>5, <2>6, <2>8, <2>9 DEF HeapInv
<1>6. CASE AllocNext
  <2>1. ListInv' /\ ListTypes' /\ Fl' = Fl /\ Sl' = Sl
    BY <1>2, <1>6 DEF AllocNext
  <2>2. /\ apc = "next" /\ apc' = "header" /\ nc' = next[fl_head]
        /\ UNCHANGED <<fl_head, fl_chunks, sl_chunks, next, chunkType, header, held, todo, kind, gc, at, cycles, oneByOne>>
    BY <1>6, <1>a DEF AllocNext
  <2>3. fl_head \in Chunks
    BY <1>0, <1>1, <2>2 DEF AllocInv
  <2>4. PlaceInv' /\ CleanInv' /\ EmptyInv'
    BY <1>0, <2>1, <2>2 DEF PlaceInv, CleanInv, EmptyInv, Uncreated, Sweeping
  <2>5. AllocInv' /\ PhaseInv' /\ FreeInv'
    BY <1>0, <2>2 DEF AllocInv, PhaseInv, FreeInv, Sweeping
  <2>6. TypeOK'
    BY <1>0, <2>1, <2>2, <2>3 DEF TypeOK, ListTypes
  <2> QED BY <2>1, <2>4, <2>5, <2>6 DEF HeapInv
<1>7. CASE AllocHeader
  <2>1. /\ apc = "header" /\ fl_head' = nc /\ fl_tail' = IF nc = NULL THEN NULL ELSE fl_tail
        /\ fl_chunks' = fl_chunks - 1 /\ todo' = todo - 1 /\ held' = held \cup {fl_head}
        /\ apc' = IF todo = 1 THEN "idle" ELSE "type"
        /\ header' = [header EXCEPT ![fl_head] = IF Sweeping THEN "keep" ELSE "white"]
        /\ UNCHANGED <<sl_head, sl_tail, sl_chunks, next, chunkType, nc, kind, gc, at, cycles, oneByOne>>
    BY <1>7, <1>a DEF AllocHeader
  <2>2. nc = next[fl_head] /\ todo \in 1 .. fl_chunks /\ fl_chunks # 0 /\ gc # "create"
    BY <1>0, <1>1, <2>1 DEF AllocInv
  <2>3. /\ WellLinked(next, nc, fl_tail', fl_chunks - 1)
        /\ Following(next, nc) = Fl \ {fl_head} /\ fl_head \in Fl
    BY <1>0, <1>1, <2>1, <2>2, WellPop DEF ListInv, Fl, Members
  <2>4. ListInv' /\ Fl' = Fl \ {fl_head} /\ Sl' = Sl
    BY <1>0, <2>1, <2>3 DEF ListInv, Fl, Sl, Members
  <2>5. PlaceInv'
    BY <1>0, <2>1, <2>2, <2>3, <2>4 DEF PlaceInv, Uncreated
  <2>6. fl_head \notin Sl /\ fl_head \in Chunks
    BY <1>0, <1>1, <2>3 DEF PlaceInv
  <2>7. EmptyInv'
    BY <1>0, <2>1, <2>4, <2>6 DEF EmptyInv
  <2>8. \A c \in Chunks : c # fl_head => header'[c] = header[c]
    BY <1>0, <2>1 DEF TypeOK
  <2>9. CleanInv'
    BY <1>0, <1>1, <2>1, <2>4, <2>6, <2>8 DEF CleanInv, Sweeping
  <2>10. AllocInv'
    BY <1>0, <1>1, <2>1, <2>2 DEF AllocInv, Sweeping
  <2>11. PhaseInv' /\ FreeInv'
    BY <1>0, <2>1, <2>2 DEF PhaseInv, FreeInv, Sweeping
  <2>12. ListTypes' /\ header' \in [Chunks -> {"clean", "white", "keep"}] /\ held' \subseteq Chunks /\ todo' \in Nat
    <3>1. fl_chunks' \in 0 .. N
      BY <1>0, <1>1, <2>1, <2>2 DEF TypeOK
    <3>2. header' \in [Chunks -> {"clean", "white", "keep"}] /\ held' \subseteq Chunks
      BY <1>0, <2>1, <2>6 DEF TypeOK
    <3> QED BY <1>0, <1>1, <2>1, <2>2, <3>1, <3>2 DEF TypeOK, ListTypes
  <2>13. TypeOK'
    BY <1>0, <2>1, <2>12 DEF TypeOK, ListTypes
  <2> QED BY <2>4, <2>5, <2>7, <2>9, <2>10, <2>11, <2>13 DEF HeapInv
<1>8. CASE StartSweep
  <2>1. ListInv' /\ ListTypes' /\ Fl' = Fl /\ Sl' = Sl
    BY <1>2, <1>8 DEF StartSweep
  <2>2. /\ gc = "idle" /\ cycles < Cycles /\ (apc = "idle" \/ cycles + 1 \in ConcurrentCycles)
        /\ gc' = "sweep" /\ at' = 1 /\ cycles' = cycles + 1
        /\ UNCHANGED <<fl_head, fl_chunks, sl_chunks, next, chunkType, held, apc, nc, todo, kind, oneByOne>>
    BY <1>8, <1>a DEF StartSweep
  <2>3. /\ header' \in [Chunks -> {"clean", "white", "keep"}]
        /\ \A c \in Chunks : c \notin held => header'[c] = header[c]
    BY <1>0, <1>8 DEF StartSweep, TypeOK
  <2>4. cycles \in Nat /\ cycles + 1 \in 0 .. Cycles /\ at' \in 1 .. N + 1
    BY <1>0, <2>2 DEF TypeOK
  <2>5. PlaceInv' /\ EmptyInv'
    BY <1>0, <2>1, <2>2 DEF PlaceInv, EmptyInv, Uncreated
  <2>6. CleanInv'
    <3>1. \A c \in Fl \cup Sl : c \in Chunks /\ c \notin held
      BY <1>0, <1>1 DEF PlaceInv
    <3> QED BY <1>0, <2>1, <2>2, <2>3, <2>4, <3>1 DEF CleanInv, Sweeping
  <2>7. AllocInv' /\ PhaseInv' /\ FreeInv'
    BY <1>0, <2>2, <2>4 DEF AllocInv, PhaseInv, FreeInv, Sweeping
  <2>8. TypeOK'
    BY <1>0, <2>1, <2>2, <2>3, <2>4 DEF TypeOK, ListTypes
  <2> QED BY <2>1, <2>5, <2>6, <2>7, <2>8 DEF HeapInv
<1>9. CASE SweepFree
  <2>3. at \in held
    BY <1>0, <1>9 DEF SweepFree, FreeInv
  <2>1. /\ gc = "free" /\ gc' = "sweep" /\ at \in Chunks /\ at \in Nat /\ at' = at + 1 /\ at' \in 1 .. N + 1
    BY <1>0, <1>9, <2>3 DEF SweepFree, TypeOK, Chunks
  <2>2. /\ chunkType' = [chunkType EXCEPT ![at] = "EMPTY"] /\ held' = held \ {at}
        /\ UNCHANGED <<header, apc, nc, todo, kind, cycles, oneByOne>>
    BY <1>9, <1>a DEF SweepFree
  <2>4. at \notin Fl \cup Sl /\ Fl \cap Sl = {}
    BY <1>0, <2>3 DEF PlaceInv
  <2>5. /\ ListInv' /\ ListTypes' /\ Fl' \cap Sl' = {} /\ Fl' \cup Sl' = Fl \cup Sl \cup {at}
        /\ oneByOne => Sl' = Sl /\ sl_chunks' = sl_chunks
        /\ apc # "idle" => fl_head' = fl_head /\ fl_chunks' = fl_chunks /\ next'[fl_head] = next[fl_head]
    <3>1. CASE oneByOne /\ apc = "idle" /\ insertChunkToFL(at) /\ UNCHANGED <<sl_head, sl_tail, sl_chunks>>
      <4>1. ListInv' /\ ListTypes' /\ Fl' = Fl \cup {at} /\ Sl' = Sl
        BY <1>0, <2>1, <2>4, <3>1, InsertFL
      <4> QED BY <2>4, <3>1, <4>1
    <3>2. CASE ~oneByOne /\ insertChunktoSubList(at) /\ UNCHANGED <<fl_head, fl_tail, fl_chunks>>
      <4>1. ListInv' /\ ListTypes' /\ Sl' = Sl \cup {at} /\ Fl' = Fl /\ \A e \in Fl : next'[e] = next[e]
        BY <1>0, <2>1, <2>4, <3>2, InsertSL
      <4>2. apc # "idle" => fl_head \in Fl
        BY <1>0, <1>1 DEF AllocInv
      <4> QED BY <2>4, <3>2, <4>1, <4>2
    <3> QED BY <1>9, <3>1, <3>2 DEF SweepFree
  <2>6. PlaceInv'
    BY <1>0, <2>1, <2>2, <2>3, <2>5 DEF PlaceInv, Uncreated
  <2>7. \A c \in Chunks : c # at => chunkType'[c] = chunkType[c]
    BY <1>0, <2>2 DEF TypeOK
  <2>8. chunkType'[at] = "EMPTY" /\ chunkType' \in [Chunks -> {"EMPTY", "NORMAL", "STACK"}]
    BY <1>0, <2>1, <2>2 DEF TypeOK
  <2>9. EmptyInv'
    <3>1. ASSUME NEW c \in Fl' \cup Sl', c # at
          PROVE  chunkType'[c] = "EMPTY" \/ (c = fl_head' /\ apc' \in {"next", "header"})
      BY <1>0, <1>1, <2>2, <2>5, <2>7, <3>1 DEF EmptyInv
    <3> QED BY <2>8, <3>1 DEF EmptyInv
  <2>10. CleanInv'
    <3>1. cycles' # 0 /\ at < at'
      BY <1>0, <2>1, <2>2 DEF PhaseInv, Sweeping
    <3>2. \A c \in Fl \cup Sl : c \in Nat
      BY <1>1 DEF Chunks
    <3>3. cycles = 1 => \A c \in Fl' \cup Sl' : c < at' \/ header[c] = "clean"
      BY <1>0, <2>1, <2>5, <3>1, <3>2 DEF CleanInv, Sweeping
    <3> QED BY <2>2, <3>1, <3>3 DEF CleanInv, Sweeping
  <2>11. AllocInv' /\ PhaseInv' /\ FreeInv'
    BY <1>0, <2>1, <2>2, <2>5 DEF AllocInv, PhaseInv, FreeInv, Sweeping
  <2>12. TypeOK'
    BY <1>0, <2>1, <2>2, <2>5, <2>8 DEF TypeOK, ListTypes
  <2> QED BY <2>5, <2>6, <2>9, <2>10, <2>11, <2>12 DEF HeapInv
<1>13. CASE SweepTest
  <2>1. ListInv' /\ ListTypes' /\ Fl' = Fl /\ Sl' = Sl
    BY <1>2, <1>13 DEF SweepTest
  <2>2. /\ gc = "sweep" /\ gc' = "free"
        /\ UNCHANGED <<fl_head, fl_chunks, sl_chunks, next, chunkType, header, held, apc, nc, todo, kind, at, cycles, oneByOne>>
    BY <1>13, <1>a DEF SweepTest
  <2>3. PlaceInv' /\ EmptyInv' /\ CleanInv'
    BY <1>0, <2>1, <2>2 DEF PlaceInv, EmptyInv, CleanInv, Uncreated, Sweeping
  <2>4. AllocInv' /\ PhaseInv'
    BY <1>0, <2>2 DEF AllocInv, PhaseInv, Sweeping
  <2>5. FreeInv'
    BY <1>13, <2>2, SweptIsHeld DEF FreeInv
  <2>6. TypeOK'
    BY <1>0, <2>1, <2>2 DEF TypeOK, ListTypes
  <2> QED BY <2>1, <2>3, <2>4, <2>5, <2>6 DEF HeapInv
<1>10. CASE SweepKeep
  <2>1. ListInv' /\ ListTypes' /\ Fl' = Fl /\ Sl' = Sl
    BY <1>2, <1>10 DEF SweepKeep
  <2>2. /\ gc = "sweep" /\ at \in Chunks /\ at \in Nat /\ at' = at + 1 /\ at' \in 1 .. N + 1
    BY <1>0, <1>10 DEF SweepKeep, TypeOK, Chunks
  <2>3. UNCHANGED <<fl_head, fl_chunks, sl_chunks, next, chunkType, held, apc, nc, todo, kind, gc, cycles, oneByOne>>
    BY <1>10, <1>a DEF SweepKeep
  <2>4. /\ header' \in [Chunks -> {"clean", "white", "keep"}]
        /\ \A c \in Chunks : c # at => header'[c] = header[c]
    BY <1>0, <1>10 DEF SweepKeep, TypeOK
  <2>5. PlaceInv' /\ EmptyInv'
    BY <1>0, <2>1, <2>2, <2>3 DEF PlaceInv, EmptyInv, Uncreated
  <2>6. CleanInv'
    <3>1. cycles' # 0 /\ at < at'
      BY <1>0, <2>2, <2>3 DEF PhaseInv, Sweeping
    <3>2. \A c \in Fl \cup Sl : c \in Nat /\ c \in Chunks
      BY <1>1 DEF Chunks
    <3>3. cycles = 1 => \A c \in Fl \cup Sl : c < at' \/ header'[c] = "clean"
      BY <1>0, <2>2, <2>4, <3>1, <3>2 DEF CleanInv, Sweeping
    <3> QED BY <2>1, <2>3, <3>1, <3>3 DEF CleanInv, Sweeping
  <2>7. AllocInv' /\ PhaseInv' /\ FreeInv'
    BY <1>0, <2>2, <2>3 DEF AllocInv, PhaseInv, FreeInv, Sweeping
  <2>8. TypeOK'
    BY <1>0, <2>1, <2>2, <2>3, <2>4 DEF TypeOK, ListTypes
  <2> QED BY <2>1, <2>5, <2>6, <2>7, <2>8 DEF HeapInv
<1>11. CASE FinishSweep
  <2>1. /\ gc = "sweep" /\ gc' = "idle"
        /\ UNCHANGED <<chunkType, header, held, apc, nc, todo, kind, at, cycles, oneByOne>>
    BY <1>11, <1>a DEF FinishSweep
  <2>2. /\ ListInv' /\ ListTypes' /\ Fl' = Fl \cup Sl /\ Sl' = {} /\ sl_chunks' = 0
        /\ apc # "idle" => fl_head' = fl_head /\ fl_chunks' = fl_chunks /\ next' = next
        /\ apc # "idle" => Sl = {}
    <3>1. CASE oneByOne /\ UNCHANGED listVars
      <4>1. Sl = {} /\ sl_chunks = 0
        BY <1>0, <1>1, <3>1 DEF PhaseInv
      <4>2. ListInv' /\ ListTypes' /\ Fl' = Fl /\ Sl' = Sl
        BY <1>2, <3>1
      <4> QED BY <3>1, <4>1, <4>2
    <3>2. CASE ~oneByOne /\ (sl_chunks = 0 \/ apc = "idle") /\ addSweepListToFL
      <4>1. Fl \cap Sl = {}
        BY <1>0 DEF PlaceInv
      <4>2. /\ ListInv' /\ ListTypes' /\ Fl' = Fl \cup Sl /\ Sl' = {}
            /\ sl_chunks = 0 => next' = next /\ fl_head' = fl_head /\ fl_chunks' = fl_chunks
        BY <1>0, <3>2, <4>1, Splice
      <4>3. sl_chunks' = 0
        BY <3>2 DEF addSweepListToFL
      <4> QED BY <1>1, <3>2, <4>2, <4>3
    <3> QED BY <1>11, <3>1, <3>2 DEF FinishSweep
  <2>3. PlaceInv'
    BY <1>0, <2>1, <2>2 DEF PlaceInv, Uncreated
  <2>4. EmptyInv'
    BY <1>0, <2>1, <2>2 DEF EmptyInv
  <2>5. CleanInv'
    BY <1>0, <2>1 DEF CleanInv, PhaseInv, Sweeping
  <2>6. AllocInv' /\ PhaseInv' /\ FreeInv'
    BY <1>0, <2>1, <2>2 DEF AllocInv, PhaseInv, FreeInv, Sweeping
  <2>7. TypeOK'
    BY <1>0, <2>1, <2>2 DEF TypeOK, ListTypes
  <2> QED BY <2>2, <2>3, <2>4, <2>5, <2>6, <2>7 DEF HeapInv
<1>12. CASE UNCHANGED vars
  <2>1. ListInv' /\ ListTypes' /\ Fl' = Fl /\ Sl' = Sl
    BY <1>2, <1>12 DEF vars
  <2>2. UNCHANGED <<fl_head, fl_chunks, sl_chunks, next, chunkType, header, held, apc, nc, todo, kind, gc, at, cycles, oneByOne>>
    BY <1>12 DEF vars
  <2>3. PlaceInv' /\ EmptyInv' /\ CleanInv'
    BY <1>0, <2>1, <2>2 DEF PlaceInv, EmptyInv, CleanInv, Uncreated, Sweeping
  <2>4. AllocInv' /\ PhaseInv' /\ FreeInv'
    BY <1>0, <2>2 DEF AllocInv, PhaseInv, FreeInv, Sweeping
  <2>5. TypeOK'
    BY <1>0, <2>1, <2>2 DEF TypeOK, ListTypes
  <2> QED BY <2>1, <2>3, <2>4, <2>5 DEF HeapInv
<1> QED BY <1>3, <1>4, <1>5, <1>6, <1>7, <1>8, <1>9, <1>10, <1>11, <1>12, <1>13 DEF Next

\* It holds at the start.
LEMMA HeapInit == ASSUME Init PROVE HeapInv
<1>1. next \in [Chunks -> Refs]
  BY DEF Init, Refs
<1>2. Fl = {} /\ Sl = {} /\ ListInv
  BY <1>1, FollowingEnds, WellEmpty DEF Init, Fl, Sl, Members, ListInv
<1>3. Uncreated = Chunks
  BY DEF Init, Uncreated, Chunks
<1>4. PlaceInv /\ EmptyInv /\ CleanInv
  BY <1>2, <1>3 DEF Init, PlaceInv, EmptyInv, CleanInv, Sweeping
<1>5. AllocInv /\ PhaseInv /\ FreeInv
  BY DEF Init, AllocInv, PhaseInv, FreeInv, Sweeping
<1>6. TypeOK
  BY DEF Init, TypeOK
<1> QED BY <1>2, <1>4, <1>5, <1>6 DEF HeapInv

\* The invariant, as long as the sweep does not overtake the allocator.
THEOREM HeapInvariant ==
  Spec /\ [][~Overtakes]_vars => []HeapInv
<1>1. Init => HeapInv
  BY HeapInit
<1>2. HeapInv /\ [Next]_vars /\ [~Overtakes]_vars => HeapInv'
  BY HeapStep
<1> QED BY <1>1, <1>2, PTL DEF Spec

\* TypeOK: as long as the sweep does not overtake the allocator every variable
\* keeps its type, the counters of the two lists among them.
THEOREM TypeCorrect ==
  Spec /\ [][~Overtakes]_vars => []TypeOK
<1>1. HeapInv => TypeOK
  BY DEF HeapInv
<1> QED BY <1>1, HeapInvariant, PTL

\* ListsWellFormed: as long as the sweep does not overtake the allocator,
\* whenever fl_lock is free each counter is the length of its list, which ends
\* with its tail and holds empty chunks only.
THEOREM ListsStayWellFormed ==
  Spec /\ [][~Overtakes]_vars => []ListsWellFormed
<1>1. HeapInv => ListsWellFormed
  <2> SUFFICES ASSUME HeapInv, apc = "idle"
               PROVE  IsList(fl_head, fl_tail, fl_chunks) /\ IsList(sl_head, sl_tail, sl_chunks)
    BY DEF ListsWellFormed
  <2>1. \A c \in Members(fl_head) \cup Members(sl_head) : chunkType[c] = "EMPTY"
    BY DEF HeapInv, EmptyInv, Fl, Sl
  <2>2. IsList(fl_head, fl_tail, fl_chunks)
    BY <2>1 DEF HeapInv, ListInv, WellLinked, IsList, Members
  <2>3. IsList(sl_head, sl_tail, sl_chunks)
    BY <2>1 DEF HeapInv, ListInv, WellLinked, IsList, Members
  <2> QED BY <2>2, <2>3
<1> QED BY <1>1, HeapInvariant, PTL

\* ChunksConserved: as long as the sweep does not overtake the allocator no
\* chunk is lost and none is in two places.
THEOREM NoChunkIsLost ==
  Spec /\ [][~Overtakes]_vars => []ChunksConserved
<1>1. HeapInv => ChunksConserved
  BY DEF HeapInv, PlaceInv, ChunksConserved, Fl, Sl, Uncreated
<1> QED BY <1>1, HeapInvariant, PTL

\* HeldNotFree: as long as the sweep does not overtake the allocator a chunk
\* the program holds is on no list.
THEOREM HeldChunksAreNotFree ==
  Spec /\ [][~Overtakes]_vars => []HeldNotFree
<1>1. HeapInv => HeldNotFree
  BY DEF HeapInv, PlaceInv, HeldNotFree, Fl, Sl
<1> QED BY <1>1, HeapInvariant, PTL

-----------------------------------------------------------------------------
\* When at most the first collection runs beside the program the sweep never
\* overtakes the allocator: until the first sweep has passed over it a free
\* chunk has never been used, so its header is clean.
THEOREM FirstSweepInTurn ==
  ASSUME ConcurrentCycles \subseteq {1} PROVE Spec => [][~Overtakes]_vars
<1>1. HeapInv /\ [Next]_vars => [~Overtakes]_vars
  <2> SUFFICES ASSUME HeapInv, [Next]_vars, Overtakes PROVE FALSE
    OBVIOUS
  <2>1. SweepTest
    BY DEF Next, vars, Overtakes, CreateChunk, AllocateLock, AllocType, AllocNext, AllocHeader,
           StartSweep, SweepFree, SweepKeep, FinishSweep
  <2>2. at \in Chunks /\ header[at] = "white" /\ Sweeping
    BY <2>1 DEF SweepTest, HeapInv, TypeOK, Chunks, Sweeping
  <2>3. cycles = 1
    BY <2>2 DEF HeapInv, AllocInv, Overtakes
  <2>4. at \in Fl
    BY <2>2, ListFacts DEF HeapInv, AllocInv, Overtakes
  <2>5. at < at
    BY <2>2, <2>3, <2>4 DEF HeapInv, CleanInv
  <2> QED BY <2>2, <2>5 DEF Chunks
<1>2. Init => HeapInv
  BY HeapInit
<1>3. HeapInv /\ [Next]_vars /\ [~Overtakes]_vars => HeapInv'
  BY HeapStep
<1> QED BY <1>1, <1>2, <1>3, PTL DEF Spec

-----------------------------------------------------------------------------
\* As long as the sweep does not overtake the allocator UMHeap implements
\* UMHeapSpec: CreateChunk is Create, the last statements of
\* allocNextChunk are Allocate, the sweep's freeing of a chunk is Release, its
\* end is Finish, and every other step changes neither list nor holder.
THEOREM ImplementsHeap ==
  Spec /\ [][~Overtakes]_vars => HeapSpec
<1> USE DEF Heap!vars
<1>1. Init => Heap!Init
  <2> SUFFICES ASSUME Init PROVE Heap!Init
    OBVIOUS
  <2>1. next \in [Chunks -> Refs] /\ fl_head = NULL /\ sl_head = NULL
    BY DEF Init, Refs
  <2>2. Members(fl_head) = {} /\ Members(sl_head) = {}
    BY <2>1, FollowingEnds DEF Members
  <2> QED BY <2>2 DEF Init, Heap!Init, Sweeping
<1>2. HeapInv /\ [Next]_vars /\ [~Overtakes]_vars => [Heap!Next]_(Heap!vars)
  <2> SUFFICES ASSUME HeapInv, [Next]_vars, [~Overtakes]_vars PROVE [Heap!Next]_(Heap!vars)
    OBVIOUS
  <2> DEFINE Goal == [Heap!Next]_(Heap!vars)
  <2>0. /\ TypeOK /\ ListInv /\ PlaceInv /\ AllocInv /\ PhaseInv /\ FreeInv
        /\ Fl \cap Sl = {} /\ Fl \in SUBSET Chunks /\ Sl \in SUBSET Chunks
        /\ Fl = Members(fl_head) /\ Sl = Members(sl_head)
        /\ Fl' = Members(fl_head)' /\ Sl' = Members(sl_head)'
    BY ListFacts DEF HeapInv, PlaceInv, Fl, Sl
  <2> USE DEF listVars, allocVars
  <2>1. ASSUME UNCHANGED <<fl_head, sl_head, next>>
        PROVE  Members(fl_head)' = Members(fl_head) /\ Members(sl_head)' = Members(sl_head)
    BY <2>1 DEF Members
  <2>2. CASE CreateChunk
    <3>1. /\ gc = "create" /\ ~Sweeping /\ Sweeping' = Sweeping /\ at \in Chunks /\ insertChunkToFL(at)
          /\ UNCHANGED <<sl_head, sl_tail, sl_chunks, held>>
      BY <2>0, <2>2 DEF CreateChunk, TypeOK, Chunks, Sweeping
    <3>2. at \notin Fl \cup Sl \cup held
      BY <2>0, <3>1 DEF PlaceInv, Uncreated, Chunks
    <3>3. Fl' = Fl \cup {at} /\ Sl' = Sl
      BY <2>0, <3>1, <3>2, InsertFL
    <3>4. Heap!Create(at)
      BY <2>0, <3>1, <3>2, <3>3 DEF Heap!Create
    <3> QED BY <3>1, <3>4 DEF Heap!Next
  <2>3. CASE AllocHeader
    <3>1. /\ apc = "header" /\ fl_head' = nc /\ held' = held \cup {fl_head}
          /\ UNCHANGED <<sl_head, next, Sweeping>>
      BY <2>3 DEF AllocHeader, Sweeping
    <3>2. nc = next[fl_head] /\ fl_chunks # 0 /\ next \in [Chunks -> Refs] /\ fl_head \in Refs
      BY <2>0, <3>1, ListFacts DEF AllocInv, TypeOK
    <3>3. Following(next, nc) = Fl \ {fl_head} /\ fl_head \in Fl
      BY <2>0, <3>2, WellPop DEF ListInv, Fl, Members
    <3>4. Fl' = Fl \ {fl_head} /\ Sl' = Sl
      BY <3>1, <3>3 DEF Fl, Sl, Members
    <3>5. Heap!Allocate(fl_head)
      BY <2>0, <3>1, <3>3, <3>4 DEF Heap!Allocate
    <3> QED BY <2>0, <3>3, <3>5 DEF Heap!Next
  <2>4. CASE StartSweep
    <3>1. ~Sweeping /\ Sweeping' = TRUE /\ UNCHANGED <<fl_head, sl_head, next, held>>
      BY <2>4 DEF StartSweep, Sweeping
    <3> QED BY <2>1, <3>1 DEF Heap!Next, Heap!Start
  <2>5. CASE SweepFree
    <3>2. at \in held
      BY <2>0, <2>5 DEF SweepFree, FreeInv
    <3>1. Sweeping /\ Sweeping' = Sweeping /\ at \in Chunks /\ held' = held \ {at}
      BY <2>0, <2>5, <3>2 DEF SweepFree, TypeOK, Sweeping
    <3>3. at \notin Fl \cup Sl
      BY <2>0, <3>2 DEF PlaceInv
    <3>4. \/ Fl' = Fl \cup {at} /\ Sl' = Sl
          \/ Sl' = Sl \cup {at} /\ Fl' = Fl
      <4>1. CASE insertChunkToFL(at) /\ UNCHANGED <<sl_head, sl_tail, sl_chunks>>
        BY <2>0, <3>1, <3>3, <4>1, InsertFL
      <4>2. CASE insertChunktoSubList(at) /\ UNCHANGED <<fl_head, fl_tail, fl_chunks>>
        BY <2>0, <3>1, <3>3, <4>2, InsertSL
      <4> QED BY <2>5, <4>1, <4>2 DEF SweepFree
    <3>5. Heap!Release(at)
      BY <2>0, <3>1, <3>2, <3>4 DEF Heap!Release
    <3> QED BY <3>1, <3>5 DEF Heap!Next
  <2>6. CASE FinishSweep
    <3>1. Sweeping /\ Sweeping' = FALSE /\ held' = held
      BY <2>6 DEF FinishSweep, Sweeping
    <3>2. Fl' = Fl \cup Sl /\ Sl' = {}
      <4>1. CASE oneByOne /\ UNCHANGED <<fl_head, sl_head, next>>
        <5>1. Sl = {}
          BY <2>0, <4>1, ListFacts DEF PhaseInv
        <5> QED BY <2>0, <2>1, <4>1, <5>1
      <4>2. CASE addSweepListToFL
        BY <2>0, <4>2, Splice
      <4> QED BY <2>6, <4>1, <4>2 DEF FinishSweep
    <3> QED BY <2>0, <3>1, <3>2 DEF Heap!Next, Heap!Finish
  <2>7. ASSUME UNCHANGED <<fl_head, sl_head, next, held, Sweeping>> PROVE Goal
    BY <2>1, <2>7, Zenon
  <2>8. CASE \/ \E n \in Requests, k \in {"NORMAL", "STACK"} : AllocateLock(n, k)
             \/ AllocType \/ AllocNext \/ SweepTest \/ SweepKeep \/ UNCHANGED vars
    BY <2>7, <2>8 DEF AllocateLock, AllocType, AllocNext, SweepTest, SweepKeep, Sweeping, vars
  <2> QED BY <2>2, <2>3, <2>4, <2>5, <2>6, <2>8 DEF Next
<1> QED BY <1>1, <1>2, HeapInvariant, PTL DEF Spec, HeapSpec, Heap!Spec
=============================================================================
