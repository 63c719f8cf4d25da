------------------------------- MODULE UMMark -------------------------------
(***************************************************************************)
(* Marking and sweeping the chunked heap while the main thread runs.       *)
(*                                                                         *)
(* The main thread marks the objects its stack names and puts their        *)
(* pointer fields on the worklist (umDfsMarkObjectsToWorklist); the        *)
(* collector marks depth first from the globals and the worklist           *)
(* (umDfsMarkObjects), then walks the heap and frees what is neither       *)
(* marked nor shaded (sweep).  Unless GC_collect was told to block, the    *)
(* main thread runs meanwhile, and every pointer it writes passes the      *)
(* write barrier (WB in c-chunk.h, writeBarrier in um.c).                  *)
(*                                                                         *)
(* The barrier's accesses to memory are steps of their own; the            *)
(* collector's visit to an object is one step.  An object is one chunk.    *)
(* Locks and wake-ups are the subject of GCHandshake, the links of the     *)
(* free list of UMHeap.                                                    *)
(***************************************************************************)
EXTENDS Integers, Sequences

CONSTANTS
  N,         \* chunks in the heap, at positions 1 .. N
  Slots,     \* stack slots of the main thread that hold object pointers
  numObjptrs, \* pointer fields of an object
  Forces,    \* values of GC_collect's argument force that occur
  oneByOne   \* the run-time option of the same name

Chunks == 1 .. N
Fields == 1 .. numObjptrs
NULL   == 0
Bits   == {"RED", "GREY", "MARK"}

ASSUME UMMarkAssumption ==
  /\ N \in Nat \ {0}
  /\ numObjptrs \in Nat
  /\ Forces \subseteq BOOLEAN
  /\ oneByOne \in BOOLEAN

VARIABLES
  header,    \* mark bits of every chunk
  inUse,     \* chunks that hold an object
  freeList,  \* chunks the allocator may take
  subList,   \* chunks freed by the sweep under way
  field,     \* pointer fields of the objects
  stack, global, reg,   \* what the main thread can name
  rtSync,    \* the main stack has been marked for this cycle
  blocked,   \* the main thread waits for the cycle to end
  wb,        \* the write barrier the main thread is in, if any
  gc,        \* the collector's phase
  worklist,  \* fields left for the collector by the main thread
  dfs,       \* slots umDfsMarkObjects has still to visit, innermost first
  sweepAt,   \* next chunk of the sweep
  age,       \* history: sweeps an object has survived as garbage
  beside     \* history: a collection has begun beside a running main thread

heapVars == <<header, inUse, freeList, subList, field>>
mainVars == <<stack, global, reg, rtSync, blocked, wb>>
gcVars   == <<gc, worklist, dfs, sweepAt>>
history  == <<age, beside>>
vars == <<heapVars, mainVars, gcVars, history>>

-----------------------------------------------------------------------------
\* Neither grey nor marked.
White(h) == h \cap {"GREY", "MARK"} = {}

\* markChunk in GREY_MODE and in MARK_MODE: shading never touches a chunk
\* that is already grey or marked.
Shaded(h) == IF White(h) THEN (h \ {"RED"}) \cup {"GREY"} ELSE h
Marked(h) == (h \ {"RED"}) \cup {"MARK"}

isChunkMarked(o) == "MARK" \in header[o]

Children(o) == {field[o][f] : f \in Fields} \ {NULL}

\* Mutated form: the children are not shaded.
HeadersAfter_noShade(S) ==
  [o \in Chunks |-> IF o \in S THEN Marked(Shaded(header[o])) ELSE header[o]]

\* What umDfsMarkObjects and umDfsMarkObjectsToWorklist do to the headers
\* when they reach the unmarked objects S: grey the object, shade its
\* children, mark the object.
HeadersAfter(S) ==
  [o \in Chunks |-> IF o \in S THEN Marked(Shaded(header[o]))
                    ELSE IF \E p \in S : o \in Children(p) THEN Shaded(header[o])
                    ELSE header[o]]

NoBarrier == [on |-> FALSE]

Init ==
  /\ header = [o \in Chunks |-> {}]
  /\ inUse = {}
  /\ freeList = Chunks
  /\ subList = {}
  /\ field = [o \in Chunks |-> [f \in Fields |-> NULL]]
  /\ stack = [i \in Slots |-> NULL]
  /\ global = NULL
  /\ reg = NULL
  /\ rtSync = FALSE
  /\ blocked = FALSE
  /\ wb = NoBarrier
  /\ gc = "idle"
  /\ worklist = {}
  /\ dfs = <<>>
  /\ sweepAt = 1
  /\ age = [o \in Chunks |-> 0]
  /\ beside = FALSE

-----------------------------------------------------------------------------
(* The main thread.                                                        *)

\* Operands of a compiled Move: a register, a stack slot, a global, a field of
\* the object in the register, and a constant that is no pointer.
Operands == {<<"P">>, <<"G">>, <<"const">>} \cup ({"S"} \X Slots) \cup ({"O"} \X Fields)

Usable(x) == x[1] = "O" => reg # NULL

Value(x) == CASE x[1] = "P" -> reg
              [] x[1] = "G" -> global
              [] x[1] = "S" -> stack[x[2]]
              [] x[1] = "O" -> field[reg][x[2]]
              [] OTHER -> NULL

\* getBase in c-codegen.fun: what WB is told the source is.  For a field it is
\* the object that holds the field.
SourceBase(x) == IF x[1] = "O" THEN reg ELSE Value(x)

\* ... and the destination: a global stands for the object it points to.
DestBase(x) == IF x[1] = "O" THEN reg ELSE Value(x)

Assign(x, v) ==
  /\ reg'    = IF x[1] = "P" THEN v ELSE reg
  /\ global' = IF x[1] = "G" THEN v ELSE global
  /\ stack'  = IF x[1] = "S" THEN [stack EXCEPT ![x[2]] = v] ELSE stack
  /\ field'  = IF x[1] = "O" THEN [field EXCEPT ![reg][x[2]] = v] ELSE field

Running == ~blocked /\ ~wb.on

\* A Move with no barrier: into a register always, elsewhere while the stack
\* is not marked.
Move(dst, src) ==
  /\ Running
  /\ dst[1] = "P" \/ ~rtSync
  /\ dst[1] # "const" /\ Usable(dst) /\ Usable(src)
  /\ Assign(dst, Value(src))
  /\ UNCHANGED <<header, inUse, freeList, subList, rtSync, blocked, wb, gcVars, history>>

\* writeBarrier shades the source of a write to the stack, and of another
\* write if the destination is marked.
MayShade(dst) ==
  \/ dst[1] = "S"
  \/ DestBase(dst) # NULL /\ isChunkMarked(DestBase(dst))

\* WB: the mark of the destination is read here.  Each access to the header of
\* the source is a step of its own: the collector takes no part in casLock, so
\* it may run in between.
BarrierTest(dst, src) ==
  LET test == MayShade(dst) /\ SourceBase(src) # NULL
  IN /\ Running /\ rtSync
     /\ dst[1] \notin {"P", "const"} /\ Usable(dst) /\ Usable(src)
     /\ wb' = [on |-> TRUE, at |-> IF test THEN "test" ELSE "assign",
               dst |-> dst, value |-> Value(src),
               source |-> IF test THEN SourceBase(src) ELSE NULL, seen |-> {}]
     /\ UNCHANGED <<heapVars, stack, global, reg, rtSync, blocked, gcVars, history>>

\* The barrier under way, at its next step and with what it has read.
Barrier(step, h) ==
  [on |-> TRUE, at |-> step, dst |-> wb.dst, value |-> wb.value,
   source |-> IF step = "assign" THEN NULL ELSE wb.source, seen |-> h]

\* A source neither marked (writeBarrier) nor grey (markChunk) is shaded.
MarkTest ==
  /\ wb.on /\ wb.at = "test"
  /\ wb' = Barrier(IF White(header[wb.source]) THEN "red" ELSE "assign", {})
  /\ UNCHANGED <<heapVars, stack, global, reg, rtSync, blocked, gcVars, history>>

\* markChunk shades in two assignments, chunk_header &= ~RED and
\* chunk_header |= GREY, each of which loads the whole header and stores it.
MarkLoad(step, next) ==
  /\ wb.on /\ wb.at = step
  /\ wb' = Barrier(next, header[wb.source])
  /\ UNCHANGED <<heapVars, stack, global, reg, rtSync, blocked, gcVars, history>>

MarkWrite(step, next, h) ==
  /\ wb.on /\ wb.at = step
  /\ header' = [header EXCEPT ![wb.source] = h]
  /\ wb' = Barrier(next, {})
  /\ UNCHANGED <<inUse, freeList, subList, field, stack, global, reg, rtSync, blocked,
                 gcVars, history>>

MarkShade ==
  \/ MarkLoad("red", "unred")   \/ MarkWrite("unred", "grey", wb.seen \ {"RED"})
  \/ MarkLoad("grey", "engrey") \/ MarkWrite("engrey", "assign", wb.seen \cup {"GREY"})

\* The assignment, after the barrier.
BarrierStore ==
  /\ wb.on /\ wb.at = "assign"
  /\ Assign(wb.dst, wb.value)
  /\ wb' = NoBarrier
  /\ UNCHANGED <<header, inUse, freeList, subList, rtSync, blocked, gcVars, history>>

\* allocNextChunk: a new object is grey in the middle of a cycle, red before.
Allocate(o) ==
  /\ Running
  /\ o \in freeList
  /\ freeList' = freeList \ {o}
  /\ inUse' = inUse \cup {o}
  /\ header' = [header EXCEPT ![o] = IF rtSync THEN {"GREY"} ELSE {"RED"}]
  /\ field' = [field EXCEPT ![o] = [f \in Fields |-> NULL]]
  /\ reg' = o
  /\ age' = [age EXCEPT ![o] = 0]
  /\ UNCHANGED <<subList, stack, global, rtSync, blocked, wb, gcVars, beside>>

\* markStack under rtSync_lock: every object the stack names is marked and its
\* pointer fields go to the worklist.  Temporaries that live across the call
\* are in the stack by then, so no register survives it.
MarkStack(force) ==
  LET S == {o \in Chunks : (\E i \in Slots : stack[i] = o) /\ ~isChunkMarked(o)}
  IN /\ Running /\ ~rtSync /\ gc = "idle"
     /\ header' = HeadersAfter(S)
     /\ worklist' = worklist \cup {s \in S \X Fields : field[s[1]][s[2]] # NULL}
     /\ rtSync' = TRUE
     /\ gc' = "requested"
     /\ blocked' = force
     /\ reg' = NULL
     /\ beside' = (beside \/ ~force)
     /\ UNCHANGED <<inUse, freeList, subList, field, stack, global, wb, dfs, sweepAt, age>>

\* GC_collect(force) in the middle of a cycle only waits.
BlockUntilDone ==
  /\ Running /\ rtSync /\ TRUE \in Forces
  /\ blocked' = TRUE
  /\ reg' = NULL
  /\ UNCHANGED <<heapVars, stack, global, rtSync, wb, gcVars, history>>

-----------------------------------------------------------------------------
(* The collector.                                                          *)

SlotValue(s) == IF s = <<"G">> THEN global ELSE field[s[1]][s[2]]

\* Mutated form: the globals are no roots.
GCStart_noGlobals ==
  /\ gc = "requested"
  /\ gc' = "globals"
  /\ dfs' = <<>>
  /\ UNCHANGED <<heapVars, mainVars, worklist, sweepAt, history>>

\* startMarking begins with the globals.
GCStart ==
  /\ gc = "requested"
  /\ gc' = "globals"
  /\ dfs' = << <<"G">> >>
  /\ UNCHANGED <<heapVars, mainVars, worklist, sweepAt, history>>

\* Mutated form: a marked object is visited again.
GCVisit_revisits ==
  LET p == SlotValue(Head(dfs))
  IN /\ dfs # <<>>
     /\ IF p = NULL
        THEN /\ dfs' = Tail(dfs)
             /\ UNCHANGED header
        ELSE /\ header' = HeadersAfter({p})
             /\ dfs' = [f \in Fields |-> <<p, f>>] \o Tail(dfs)
     /\ UNCHANGED <<inUse, freeList, subList, field, mainVars, gc, worklist, sweepAt, history>>

\* umDfsMarkObjects on one slot: nothing if the slot holds no pointer or the
\* object is marked; else the object is marked and its fields come next.
GCVisit ==
  LET p == SlotValue(Head(dfs))
  IN /\ dfs # <<>>
     /\ IF p = NULL \/ isChunkMarked(p)
        THEN /\ dfs' = Tail(dfs)
             /\ UNCHANGED header
        ELSE /\ header' = HeadersAfter({p})
             /\ dfs' = [f \in Fields |-> <<p, f>>] \o Tail(dfs)
     /\ UNCHANGED <<inUse, freeList, subList, field, mainVars, gc, worklist, sweepAt, history>>

\* markWorklist takes the next entry; it drops it whether or not the object it
\* names at the end is marked.
GCTakeWork ==
  /\ gc \in {"globals", "worklist"} /\ dfs = <<>>
  /\ \E s \in worklist : /\ dfs' = <<s>>
                         /\ worklist' = worklist \ {s}
  /\ gc' = "worklist"
  /\ UNCHANGED <<heapVars, mainVars, sweepAt, history>>

GCStartSweep ==
  /\ gc \in {"globals", "worklist"} /\ dfs = <<>> /\ worklist = {}
  /\ gc' = "sweep"
  /\ sweepAt' = 1
  /\ UNCHANGED <<heapVars, mainVars, worklist, dfs, history>>

\* Everything the main thread can reach.
Roots == {o \in Chunks : o = global \/ o = reg \/ \E i \in Slots : stack[i] = o}
Reachable == {o \in Chunks :
  \A S \in SUBSET Chunks :
    (Roots \subseteq S /\ \A p \in S : Children(p) \subseteq S) => o \in S}

\* Mutated form: the sweep leaves grey chunks grey.
Swept_keepsGrey(h) == h \ {"MARK"}

\* The bits the sweep leaves on a chunk it keeps.  A marked chunk loses its
\* mark only, a grey bit under it stays.
Swept(h) == IF "MARK" \in h THEN h \ {"MARK"} ELSE h \ {"GREY"}

\* Red or colourless: freed.  The header in memory stays as it is.
Collectable(h) == "RED" \in h \/ h = {}

SweepChunk(o) ==
  IF o \in inUse /\ Collectable(header[o])
  THEN /\ inUse' = inUse \ {o}
       /\ freeList' = IF oneByOne THEN freeList \cup {o} ELSE freeList
       /\ subList' = IF oneByOne THEN subList ELSE subList \cup {o}
       /\ age' = [age EXCEPT ![o] = 0]
       /\ UNCHANGED header
  ELSE /\ header' = IF o \in inUse THEN [header EXCEPT ![o] = Swept(@)] ELSE header
       /\ age' = [age EXCEPT ![o] = IF o \in inUse \ Reachable THEN @ + 1 ELSE 0]
       /\ UNCHANGED <<inUse, freeList, subList>>

GCSweep ==
  /\ gc = "sweep" /\ sweepAt <= N
  /\ SweepChunk(sweepAt)
  /\ sweepAt' = sweepAt + 1
  /\ UNCHANGED <<field, mainVars, gc, worklist, dfs, beside>>

\* Mutated form: the spliced chunks stay on the sublist.
GCSplice_keepsSublist ==
  /\ gc = "sweep" /\ sweepAt = N + 1
  /\ freeList' = freeList \cup subList
  /\ gc' = "done"
  /\ UNCHANGED <<subList, header, inUse, field, mainVars, worklist, dfs, sweepAt, history>>

\* addSweepListToFL.
GCSplice ==
  /\ gc = "sweep" /\ sweepAt = N + 1
  /\ freeList' = freeList \cup subList
  /\ subList' = {}
  /\ gc' = "done"
  /\ UNCHANGED <<header, inUse, field, mainVars, worklist, dfs, sweepAt, history>>

\* The end of GCrunner's loop: the next cycle may begin, and the main thread
\* is woken.
GCFinish ==
  /\ gc = "done"
  /\ gc' = "idle"
  /\ rtSync' = FALSE
  /\ blocked' = FALSE
  /\ UNCHANGED <<heapVars, stack, global, reg, wb, worklist, dfs, sweepAt, history>>

-----------------------------------------------------------------------------
Mutator ==
  \/ \E dst, src \in Operands : Move(dst, src) \/ BarrierTest(dst, src)
  \/ MarkTest \/ MarkShade \/ BarrierStore
  \/ \E o \in Chunks : Allocate(o)
  \/ \E force \in Forces : MarkStack(force)
  \/ BlockUntilDone

Collector == GCStart \/ GCVisit \/ GCTakeWork \/ GCStartSweep \/ GCSweep \/ GCSplice \/ GCFinish

Next == Mutator \/ Collector

Spec == Init /\ [][Next]_vars

\* The collector is a thread of its own that the main thread never stops.
FairSpec == Spec /\ WF_vars(Collector)
-----------------------------------------------------------------------------
(* Properties.                                                             *)

\* Every variable keeps its type, and every chunk is in exactly one place.
TypeOK ==
  /\ header \in [Chunks -> SUBSET Bits]
  /\ inUse \subseteq Chunks /\ freeList \subseteq Chunks /\ subList \subseteq Chunks
  /\ inUse \cup freeList \cup subList = Chunks
  /\ inUse \cap freeList = {} /\ inUse \cap subList = {} /\ freeList \cap subList = {}
  /\ field \in [Chunks -> [Fields -> Chunks \cup {NULL}]]
  /\ stack \in [Slots -> Chunks \cup {NULL}]
  /\ global \in Chunks \cup {NULL} /\ reg \in Chunks \cup {NULL}
  /\ rtSync \in BOOLEAN /\ blocked \in BOOLEAN
  /\ gc \in {"idle", "requested", "globals", "worklist", "sweep", "done"}
  /\ worklist \subseteq Chunks \X Fields
  /\ dfs \in Seq({<<"G">>} \cup (Chunks \X Fields))
  /\ sweepAt \in 1 .. N + 1
  /\ age \in [Chunks -> Nat]

\* The sweep frees nothing the main thread can still reach ("If it were
\* reachable, then the Red would have been marked or Shaded").
ReachableKept == Reachable \subseteq inUse

\* ... which holds as long as every collection has blocked the main thread.
KeptWhileBlocked == ~beside => ReachableKept

\* Until the sweep begins no marked object points to one that is neither
\* marked nor shaded (the tricolour abstraction of umDfsMarkObjects) ...
Tricoloured ==
  gc # "sweep" =>
    \A o \in inUse : isChunkMarked(o) => \A c \in Children(o) : ~White(header[c])

\* ... again as long as every collection has blocked the main thread.
TriColour == ~beside => Tricoloured

\* All chunks are unmarked at the end of the sweep phase (invariantForRTGC), so
\* that a mark of one cycle is never taken for a mark of the next.
NoStaleMarks == gc = "idle" => \A o \in inUse : ~isChunkMarked(o)

\* Garbage survives at most two sweeps: one if it was marked before it became
\* garbage, and one more because the sweep leaves the grey bit of a marked
\* chunk on.
FloatingGarbageBounded == \A o \in inUse : age[o] <= 2

\* A collection ends, cyclic structures included, whatever the barrier does to
\* marks meanwhile.
CollectionFinishes == gc = "requested" ~> gc = "idle"
=============================================================================
