---------------------------- MODULE UMMarkProofs ----------------------------
(***************************************************************************)
(* Proofs about UMMark, for any heap, any number of pointer fields and of  *)
(* stack slots.                                                            *)
(***************************************************************************)
EXTENDS UMMark, SequenceTheorems, TLAPS

USE UMMarkAssumption DEF UMMarkAssumption

Refs     == Chunks \cup {NULL}
DfsSlots == {<<"G">>} \cup (Chunks \X Fields)

\* A barrier under way: it has a source to shade until it assigns.
BarrierSteps == {"test", "red", "unred", "grey", "engrey", "assign"}
Barriers == {b \in [on : {TRUE}, at : BarrierSteps, dst : Operands, value : Refs,
                    source : Refs, seen : SUBSET Bits] :
               b.at # "assign" => b.source \in Chunks}

\* Types, and that the collector's stack is empty except while it marks.
TypeInv == TypeOK /\ wb \in {NoBarrier} \cup Barriers
                  /\ (dfs # <<>> => gc \in {"globals", "worklist"})

\* An operand is the register, the global, a constant, a stack slot or a field.
LEMMA OperandFacts ==
  ASSUME NEW x \in Operands
  PROVE  \/ x[1] \in {"P", "G", "const"}
         \/ x[1] = "S" /\ x[2] \in Slots
         \/ x[1] = "O" /\ x[2] \in Fields
BY DEF Operands

\* What an operand holds, and the object that holds it, are chunks or NULL.
LEMMA ValueTyped ==
  ASSUME TypeInv, NEW x \in Operands, Usable(x)
  PROVE  Value(x) \in Refs /\ SourceBase(x) \in Refs
<1>1. CASE x[1] \in {"P", "G", "const"}
  BY <1>1 DEF Value, SourceBase, Refs, TypeInv, TypeOK
<1>2. CASE x[1] = "S" /\ x[2] \in Slots
  BY <1>2 DEF Value, SourceBase, Refs, TypeInv, TypeOK
<1>3. CASE x[1] = "O" /\ x[2] \in Fields
  BY <1>3 DEF Value, SourceBase, Refs, TypeInv, TypeOK, Usable
<1> QED BY <1>1, <1>2, <1>3, OperandFacts

\* A move keeps the types of memory.
LEMMA AssignTyped ==
  ASSUME TypeInv, NEW x \in Operands, NEW v \in Refs, Assign(x, v)
  PROVE  /\ field' \in [Chunks -> [Fields -> Chunks \cup {NULL}]]
         /\ stack' \in [Slots -> Chunks \cup {NULL}]
         /\ global' \in Chunks \cup {NULL} /\ reg' \in Chunks \cup {NULL}
<1>1. CASE x[1] \in {"P", "G", "const"}
  BY <1>1 DEF Assign, Refs, TypeInv, TypeOK
<1>2. CASE x[1] = "S" /\ x[2] \in Slots
  BY <1>2 DEF Assign, Refs, TypeInv, TypeOK
<1>3. CASE x[1] = "O" /\ x[2] \in Fields
  BY <1>3 DEF Assign, Refs, TypeInv, TypeOK
<1> QED BY <1>1, <1>2, <1>3, OperandFacts

\* Marking and shading keep the types of headers.
LEMMA HeadersTyped ==
  ASSUME TypeInv, NEW S PROVE HeadersAfter(S) \in [Chunks -> SUBSET Bits]
BY DEF TypeInv, TypeOK, HeadersAfter, Shaded, Marked, Bits

\* A step of the barrier that is not the last keeps it well typed.
LEMMA BarrierTyped ==
  ASSUME TypeInv, wb.on
  PROVE  /\ wb \in Barriers /\ wb.seen \in SUBSET Bits
         /\ \A step \in BarrierSteps, h \in SUBSET Bits :
              wb.at # "assign" => Barrier(step, h) \in Barriers
<1>1. wb \in Barriers
  BY DEF TypeInv, NoBarrier
<1> QED BY <1>1 DEF Barrier, Barriers, Refs

\* What the barrier loads are mark bits.
LEMMA HeaderBits ==
  ASSUME TypeInv, wb.on, wb.at # "assign"
  PROVE  /\ wb.source \in Chunks /\ header[wb.source] \in SUBSET Bits
         /\ {} \in SUBSET Bits /\ "red" \in BarrierSteps /\ "assign" \in BarrierSteps
BY BarrierTyped DEF Barriers, BarrierSteps, TypeInv, TypeOK

\* What umDfsMarkObjects meets is a slot of its stack.
LEMMA VisitTyped ==
  ASSUME TypeInv, dfs # <<>>
  PROVE  /\ Head(dfs) \in DfsSlots /\ Tail(dfs) \in Seq(DfsSlots)
         /\ SlotValue(Head(dfs)) \in Refs
<1>1. dfs \in Seq(DfsSlots)
  BY DEF TypeInv, TypeOK, DfsSlots
<1>2. Head(dfs) \in DfsSlots /\ Tail(dfs) \in Seq(DfsSlots)
  BY <1>1, HeadTailProperties
<1>3. ASSUME NEW s \in DfsSlots PROVE SlotValue(s) \in Refs
  BY DEF DfsSlots, SlotValue, TypeInv, TypeOK, Refs
<1> QED BY <1>2, <1>3

\* Every variable keeps its type and every chunk is in exactly one place.
THEOREM TypeInvariant == Spec => []TypeInv
<1>1. Init => TypeInv
  <2> SUFFICES ASSUME Init PROVE TypeInv
    OBVIOUS
  <2>1. dfs \in Seq({<<"G">>} \cup (Chunks \X Fields))
    BY DEF Init
  <2>2. /\ header \in [Chunks -> SUBSET Bits] /\ age \in [Chunks -> Nat]
        /\ field \in [Chunks -> [Fields -> Chunks \cup {NULL}]]
        /\ stack \in [Slots -> Chunks \cup {NULL}]
    BY DEF Init
  <2>3. sweepAt \in 1 .. N + 1
    BY DEF Init
  <2> QED BY <2>1, <2>2, <2>3 DEF Init, TypeInv, TypeOK
<1>2. TypeInv /\ [Next]_vars => TypeInv'
  <2> SUFFICES ASSUME TypeInv, [Next]_vars PROVE TypeInv'
    OBVIOUS
  <2> USE DEF TypeInv, heapVars, mainVars, gcVars, history
  <2>1. ASSUME NEW dst \in Operands, NEW src \in Operands, Move(dst, src) PROVE TypeInv'
    BY <2>1, ValueTyped, AssignTyped DEF Move, TypeOK
  <2>2. ASSUME NEW dst \in Operands, NEW src \in Operands, BarrierTest(dst, src) PROVE TypeInv'
    <3>1. Value(src) \in Refs /\ SourceBase(src) \in Refs
      BY <2>2, ValueTyped DEF BarrierTest
    <3>2. wb' \in Barriers
      BY <2>2, <3>1 DEF BarrierTest, Barriers, BarrierSteps, Refs, NULL
    <3> QED BY <2>2, <3>2 DEF BarrierTest, TypeOK
  <2>3. CASE MarkTest
    <3>1. wb' \in Barriers
      BY <2>3, BarrierTyped, HeaderBits DEF MarkTest, White
    <3> QED BY <2>3, <3>1 DEF MarkTest, TypeOK
  <2>4. ASSUME NEW step \in BarrierSteps \ {"assign"}, NEW next \in BarrierSteps \ {"assign"},
               MarkLoad(step, next)
         PROVE  TypeInv'
    <3>1. wb' \in Barriers
      BY <2>4, BarrierTyped, HeaderBits DEF MarkLoad
    <3> QED BY <2>4, <3>1 DEF MarkLoad, TypeOK
  <2>5. ASSUME NEW step \in BarrierSteps \ {"assign"}, NEW next \in BarrierSteps,
               NEW h \in SUBSET Bits, MarkWrite(step, next, h)
         PROVE  TypeInv'
    <3>1. wb' \in Barriers
      BY <2>5, BarrierTyped DEF MarkWrite
    <3>2. header' \in [Chunks -> SUBSET Bits]
      BY <2>5 DEF MarkWrite, TypeOK
    <3> QED BY <2>5, <3>1, <3>2 DEF MarkWrite, TypeOK
  <2>6. CASE MarkShade
    <3>1. wb.on
      BY <2>6 DEF MarkShade, MarkLoad, MarkWrite
    <3>2. wb.seen \ {"RED"} \in SUBSET Bits /\ wb.seen \cup {"GREY"} \in SUBSET Bits
      BY <3>1, BarrierTyped DEF Bits
    <3>3. /\ {"red", "unred", "grey", "engrey"} \subseteq BarrierSteps \ {"assign"}
          /\ "assign" \in BarrierSteps
      BY DEF BarrierSteps
    <3>4. CASE MarkLoad("red", "unred") \/ MarkLoad("grey", "engrey")
      BY <2>4, <3>3, <3>4
    <3>5. CASE MarkWrite("unred", "grey", wb.seen \ {"RED"})
      BY <2>5, <3>2, <3>3, <3>5
    <3>6. CASE MarkWrite("engrey", "assign", wb.seen \cup {"GREY"})
      BY <2>5, <3>2, <3>3, <3>6
    <3> QED BY <2>6, <3>4, <3>5, <3>6 DEF MarkShade
  <2>7. CASE BarrierStore
    <3>1. wb \in Barriers
      BY <2>7 DEF BarrierStore, NoBarrier
    <3>2. Assign(wb.dst, wb.value) /\ wb.dst \in Operands /\ wb.value \in Refs
      BY <2>7, <3>1 DEF BarrierStore, Barriers
    <3> QED BY <2>7, <3>2, AssignTyped DEF BarrierStore, TypeOK
  <2>8. ASSUME NEW o \in Chunks, Allocate(o) PROVE TypeInv'
    <3>1. header' \in [Chunks -> SUBSET Bits] /\ field' \in [Chunks -> [Fields -> Chunks \cup {NULL}]]
      BY <2>8 DEF Allocate, TypeOK, Bits
    <3>2. age' \in [Chunks -> Nat]
      BY <2>8 DEF Allocate, TypeOK
    <3> QED BY <2>8, <3>1, <3>2 DEF Allocate, TypeOK
  <2>9. ASSUME NEW force \in Forces, MarkStack(force) PROVE TypeInv'
    <3>1. worklist' \subseteq Chunks \X Fields
      BY <2>9 DEF MarkStack, TypeOK
    <3> QED BY <2>9, <3>1, HeadersTyped DEF MarkStack, TypeOK
  <2>10. CASE BlockUntilDone
    BY <2>10 DEF BlockUntilDone, TypeOK
  <2>11. CASE GCStart
    <3>1. dfs' \in Seq({<<"G">>} \cup (Chunks \X Fields))
      BY <2>11 DEF GCStart
    <3> QED BY <2>11, <3>1 DEF GCStart, TypeOK
  <2>12. CASE GCVisit
    <3> DEFINE p == SlotValue(Head(dfs))
    <3>1. dfs # <<>> /\ Head(dfs) \in DfsSlots /\ Tail(dfs) \in Seq(DfsSlots) /\ p \in Refs
      BY <2>12, VisitTyped DEF GCVisit
    <3>2. dfs' \in Seq(DfsSlots)
      <4>1. CASE p = NULL \/ isChunkMarked(p)
        BY <2>12, <3>1, <4>1 DEF GCVisit
      <4>2. CASE ~(p = NULL \/ isChunkMarked(p))
        <5>1. [f \in Fields |-> <<p, f>>] \in Seq(DfsSlots)
          BY <3>1, <4>2 DEF DfsSlots, Refs, Fields
        <5>2. dfs' = [f \in Fields |-> <<p, f>>] \o Tail(dfs)
          BY <2>12, <4>2 DEF GCVisit
        <5> QED BY <3>1, <5>1, <5>2, ConcatProperties
      <4> QED BY <4>1, <4>2
    <3>3. header' \in [Chunks -> SUBSET Bits]
      BY <2>12, HeadersTyped DEF GCVisit, TypeOK
    <3>4. gc \in {"globals", "worklist"} /\ gc' = gc
      BY <2>12 DEF GCVisit
    <3> QED BY <2>12, <3>2, <3>3, <3>4 DEF GCVisit, TypeOK, DfsSlots
  <2>13. CASE GCTakeWork
    <3>1. PICK s \in worklist : dfs' = <<s>> /\ worklist' = worklist \ {s}
      BY <2>13 DEF GCTakeWork
    <3>2. s \in DfsSlots
      BY <3>1 DEF TypeOK, DfsSlots
    <3>3. dfs' \in Seq(DfsSlots)
      BY <3>1, <3>2
    <3> QED BY <2>13, <3>1, <3>3 DEF GCTakeWork, TypeOK, DfsSlots
  <2>14. CASE GCStartSweep
    BY <2>14 DEF GCStartSweep, TypeOK
  <2>15. CASE GCSweep
    <3>1. sweepAt \in Chunks /\ sweepAt' \in 1 .. N + 1
      BY <2>15 DEF GCSweep, TypeOK, Chunks
    <3>2. header' \in [Chunks -> SUBSET Bits] /\ age' \in [Chunks -> Nat]
      BY <2>15, <3>1 DEF GCSweep, SweepChunk, TypeOK, Swept
    <3>3. /\ inUse' \subseteq Chunks /\ freeList' \subseteq Chunks /\ subList' \subseteq Chunks
          /\ inUse' \cup freeList' \cup subList' = Chunks
          /\ inUse' \cap freeList' = {} /\ inUse' \cap subList' = {} /\ freeList' \cap subList' = {}
      <4>1. CASE sweepAt \in inUse /\ Collectable(header[sweepAt])
        <5>1. /\ inUse' = inUse \ {sweepAt}
              /\ \/ freeList' = freeList \cup {sweepAt} /\ subList' = subList
                 \/ freeList' = freeList /\ subList' = subList \cup {sweepAt}
          BY <2>15, <4>1 DEF GCSweep, SweepChunk
        <5>2. CASE freeList' = freeList \cup {sweepAt} /\ subList' = subList
          BY <3>1, <4>1, <5>1, <5>2 DEF TypeOK
        <5>3. CASE freeList' = freeList /\ subList' = subList \cup {sweepAt}
          BY <3>1, <4>1, <5>1, <5>3 DEF TypeOK
        <5> QED BY <5>1, <5>2, <5>3
      <4>2. CASE ~(sweepAt \in inUse /\ Collectable(header[sweepAt]))
        BY <2>15, <4>2 DEF GCSweep, SweepChunk, TypeOK
      <4> QED BY <4>1, <4>2
    <3> QED BY <2>15, <3>1, <3>2, <3>3 DEF GCSweep, TypeOK
  <2>16. CASE GCSplice
    BY <2>16 DEF GCSplice, TypeOK
  <2>17. CASE GCFinish
    BY <2>17 DEF GCFinish, TypeOK
  <2>18. CASE UNCHANGED vars
    BY <2>18 DEF vars, TypeOK
  <2> QED BY <2>1, <2>2, <2>3, <2>6, <2>7, <2>8, <2>9, <2>10, <2>11, <2>12, <2>13, <2>14, <2>15, <2>16,
          <2>17, <2>18 DEF Next, Mutator, Collector
<1> QED BY <1>1, <1>2, PTL DEF Spec

\* TypeOK: every variable of marking, barrier and sweep keeps its type.
THEOREM TypeCorrect == Spec => []TypeOK
<1>1. TypeInv => TypeOK
  BY DEF TypeInv
<1> QED BY <1>1, TypeInvariant, PTL

-----------------------------------------------------------------------------
(* Garbage.                                                                *)

\* A set of chunks that holds all the main thread can name and is closed under
\* following pointers.
Closed(C) == Roots \subseteq C /\ \A p \in C : Children(p) \subseteq C

\* Reachable is the least closed set.
LEMMA ReachableClosed ==
  ASSUME TypeInv
  PROVE  Reachable \in SUBSET Chunks /\ Closed(Reachable)
<1>1. \A p \in Chunks : Children(p) \subseteq Chunks
  BY DEF Children, TypeInv, TypeOK
<1>2. Roots \subseteq Chunks
  BY DEF Roots
<1>3. Roots \subseteq Reachable
  BY <1>2 DEF Reachable
<1>4. ASSUME NEW p \in Reachable, NEW c \in Children(p) PROVE c \in Reachable
  BY <1>1, <1>4 DEF Reachable
<1> QED BY <1>3, <1>4 DEF Closed, Reachable

\* What is reachable lies in every closed set.
LEMMA ReachableLeast ==
  ASSUME NEW C \in SUBSET Chunks
  PROVE  /\ Closed(C) => Reachable \subseteq C
         /\ Closed(C)' => Reachable' \subseteq C
BY DEF Closed, Reachable

\* What a compiled instruction reads is in every closed set.
LEMMA ValueReachable ==
  ASSUME TypeInv, NEW x \in Operands, Usable(x)
  PROVE  /\ Value(x) \in Reachable \cup {NULL}
         /\ SourceBase(x) \in Reachable \cup {NULL}
<1>0. Roots \subseteq Reachable /\ \A p \in Reachable : Children(p) \subseteq Reachable
  BY ReachableClosed DEF Closed
<1>1. reg \in Reachable \cup {NULL} /\ global \in Reachable \cup {NULL}
  BY <1>0 DEF Roots, TypeInv, TypeOK
<1>2. CASE x[1] \in {"P", "G", "const"}
  BY <1>1, <1>2 DEF Value, SourceBase
<1>3. CASE x[1] = "S" /\ x[2] \in Slots
  <2>1. stack[x[2]] \in Reachable \cup {NULL}
    BY <1>0, <1>3 DEF Roots, TypeInv, TypeOK
  <2> QED BY <1>3, <2>1 DEF Value, SourceBase
<1>4. CASE x[1] = "O" /\ x[2] \in Fields
  <2>1. reg \in Reachable
    BY <1>1, <1>4 DEF Usable
  <2>2. field[reg][x[2]] \in Reachable \cup {NULL}
    BY <1>0, <1>4, <2>1 DEF Children
  <2> QED BY <1>4, <2>1, <2>2 DEF Value, SourceBase
<1> QED BY <1>2, <1>3, <1>4, OperandFacts

\* Storing a member of a closed set leaves the set closed.
LEMMA AssignClosed ==
  ASSUME TypeInv, NEW x \in Operands, NEW C \in SUBSET Chunks, Closed(C),
         NEW v \in C \cup {NULL}, Assign(x, v)
  PROVE  Closed(C)'
<1>1. Roots' \subseteq C
  <2>1. CASE x[1] = "S" /\ x[2] \in Slots
    <3>1. reg' = reg /\ global' = global /\ stack' = [stack EXCEPT ![x[2]] = v]
      BY <2>1 DEF Assign
    <3>2. \A i \in Slots : stack'[i] = stack[i] \/ stack'[i] = v
      BY <3>1 DEF TypeInv, TypeOK
    <3> QED BY <3>1, <3>2 DEF Roots, Closed, Chunks, NULL
  <2>2. CASE x[1] # "S"
    <3>1. stack' = stack /\ (reg' = reg \/ reg' = v) /\ (global' = global \/ global' = v)
      BY <2>2 DEF Assign
    <3> QED BY <3>1 DEF Roots, Closed, Chunks, NULL
  <2> QED BY <2>1, <2>2, OperandFacts
<1>2. ASSUME NEW p \in C PROVE Children(p)' \subseteq C
  <2>1. \A f \in Fields : field'[p][f] = field[p][f] \/ field'[p][f] = v
    BY OperandFacts DEF Assign, TypeInv, TypeOK
  <2> QED BY <2>1 DEF Children, Closed
<1> QED BY <1>1, <1>2 DEF Closed

\* Taking a chunk with no pointers in it adds at most that chunk.
LEMMA AllocateClosed ==
  ASSUME TypeInv, NEW C \in SUBSET Chunks, Closed(C), NEW o \in Chunks, Allocate(o)
  PROVE  Closed(C \cup {o})'
<1>1. Roots' \subseteq C \cup {o}
  BY DEF Allocate, Roots, Closed
<1>2. Children(o)' = {}
  BY DEF Allocate, Children, TypeInv, TypeOK
<1>3. ASSUME NEW p \in C, p # o PROVE Children(p)' \subseteq C
  <2>1. field'[p] = field[p]
    BY <1>3 DEF Allocate, TypeInv, TypeOK
  <2> QED BY <2>1 DEF Children, Closed
<1> QED BY <1>1, <1>2, <1>3 DEF Closed

\* Dropping the register, or leaving memory alone, keeps a closed set closed.
LEMMA DropClosed ==
  ASSUME NEW C \in SUBSET Chunks, Closed(C), reg' = NULL \/ reg' = reg, UNCHANGED <<field, stack, global>>
  PROVE  Closed(C)'
BY DEF Closed, Roots, Children, Chunks, NULL

\* What is reachable depends on memory only.
LEMMA SameMemory ==
  ASSUME UNCHANGED <<field, stack, global, reg>>
  PROVE  Reachable' = Reachable
BY DEF Reachable, Roots, Children

\* What the main thread can reach only shrinks, except for new objects.
LEMMA ReachableShrinks ==
  ASSUME TypeInv
  PROVE  /\ reg' = NULL /\ UNCHANGED <<field, stack, global>> => Reachable' \subseteq Reachable
         /\ \A x \in Operands : \A v \in Reachable \cup {NULL} :
              Assign(x, v) => Reachable' \subseteq Reachable
         /\ \A o \in Chunks : Allocate(o) => Reachable' \subseteq Reachable \cup {o}
<1>1. PICK R \in SUBSET Chunks : R = Reachable
  BY ReachableClosed
<1>2. Closed(R)
  BY <1>1, ReachableClosed
<1>3. reg' = NULL /\ UNCHANGED <<field, stack, global>> => Closed(R)'
  BY <1>2, DropClosed
<1>4. ASSUME NEW x \in Operands, NEW v \in R \cup {NULL}, Assign(x, v) PROVE Closed(R)'
  BY <1>2, <1>4, AssignClosed
<1>5. ASSUME NEW o \in Chunks, Allocate(o) PROVE Closed(R \cup {o})'
  BY <1>2, <1>5, AllocateClosed
<1>6. Closed(R)' => Reachable' \subseteq R
  BY ReachableLeast
<1>7. \A o \in Chunks : Closed(R \cup {o})' => Reachable' \subseteq R \cup {o}
  BY ReachableLeast
<1> QED BY <1>1, <1>3, <1>4, <1>5, <1>6, <1>7

\* The slots the collector has still to visit.
PendingSlots == worklist \cup Range(dfs)

\* A concatenation holds what its parts hold.
LEMMA RangeOfConcat ==
  ASSUME NEW a \in Seq(DfsSlots), NEW b \in Seq(DfsSlots), NEW c, c = a \o b
  PROVE  Range(c) = Range(a) \cup Range(b)
BY RangeConcatenation

\* umDfsMarkObjects replaces the slot it visits by slots of the object it marks.
LEMMA VisitSlots ==
  ASSUME TypeInv, GCVisit, NEW p, p = SlotValue(Head(dfs))
  PROVE  /\ Head(dfs) \in PendingSlots
         /\ \A s \in PendingSlots : s \in PendingSlots' \/ s = Head(dfs)
         /\ p = NULL \/ isChunkMarked(p) =>
              header' = header /\ PendingSlots' \subseteq PendingSlots
         /\ ~(p = NULL \/ isChunkMarked(p)) =>
              /\ header' = HeadersAfter({p})
              /\ \A s \in PendingSlots' : s \in PendingSlots \/ \E f \in Fields : s = <<p, f>>
              /\ \A f \in Fields : <<p, f>> \in PendingSlots'
<1>1. dfs # <<>> /\ dfs \in Seq(DfsSlots)
  BY DEF GCVisit, TypeInv, TypeOK, DfsSlots
<1>2. Head(dfs) \in DfsSlots /\ Tail(dfs) \in Seq(DfsSlots) /\ p \in Refs
  BY <1>1, VisitTyped
<1>3. <<Head(dfs)>> \in Seq(DfsSlots) /\ dfs = <<Head(dfs)>> \o Tail(dfs)
  BY <1>1, <1>2
<1>4. Range(<<Head(dfs)>>) = {Head(dfs)}
  BY DEF Range
<1>5. Range(dfs) = {Head(dfs)} \cup Range(Tail(dfs))
  BY <1>2, <1>3, <1>4, RangeOfConcat, Zenon
<1>6. worklist' = worklist
  BY DEF GCVisit
<1>7. CASE p = NULL \/ isChunkMarked(p)
  BY <1>5, <1>6, <1>7 DEF GCVisit, PendingSlots
<1>8. CASE ~(p = NULL \/ isChunkMarked(p))
  <2>1. dfs' = [f \in Fields |-> <<p, f>>] \o Tail(dfs) /\ header' = HeadersAfter({p})
    BY <1>8 DEF GCVisit
  <2>2. [f \in Fields |-> <<p, f>>] \in Seq(DfsSlots)
    BY <1>2, <1>8 DEF DfsSlots, Refs, Fields
  <2>3. Range([f \in Fields |-> <<p, f>>]) = {<<p, f>> : f \in Fields}
    BY DEF Range
  <2>4. Range(dfs') = {<<p, f>> : f \in Fields} \cup Range(Tail(dfs))
    <3> DEFINE new == [f \in Fields |-> <<p, f>>]
    <3>1. new \in Seq(DfsSlots) /\ dfs' = new \o Tail(dfs) /\ Range(new) = {<<p, f>> : f \in Fields}
      BY <2>1, <2>2, <2>3
    <3> HIDE DEF new
    <3>2. Range(dfs') = Range(new) \cup Range(Tail(dfs))
      BY <1>2, <3>1, RangeOfConcat, Zenon
    <3> QED BY <3>1, <3>2, Zenon
  <2> QED BY <1>5, <1>6, <1>8, <2>1, <2>4 DEF PendingSlots
<1> QED BY <1>7, <1>8

\* What the barrier has in its hands is reachable.
BarrierInv == wb.on => /\ wb.value \in Reachable \cup {NULL}
                       /\ wb.source \in Reachable \cup {NULL}

\* An object that a sweep has met as garbage is garbage still, is not marked,
\* and after two sweeps it is not grey.
AgeInv == \A o \in inUse :
  /\ age[o] <= 2
  /\ age[o] >= 1 => o \notin Reachable /\ ~isChunkMarked(o)
  /\ age[o] = 2 => header[o] \cap {"GREY", "MARK"} = {}

\* The collector works inside a closed set that holds none of the garbage of
\* an earlier cycle, even when the owners of its slots have become garbage in
\* this one.
Scope(C) == /\ Closed(C)
            /\ \A s \in PendingSlots : s = <<"G">> \/ s[1] \in C
            /\ \A o \in inUse : age[o] >= 1 => o \notin C

Marking == gc \in {"requested", "globals", "worklist"}

ScopeInv == /\ \E C \in SUBSET Chunks : Scope(C)
            /\ ~Marking => PendingSlots = {}

GarbageInv == BarrierInv /\ AgeInv /\ ScopeInv

\* Old garbage keeps its place while no step touches its header.
LEMMA AgeKept ==
  ASSUME AgeInv, inUse' = inUse, age' = age, Reachable' \subseteq Reachable,
         \A o \in inUse : age[o] >= 1 => header'[o] = header[o]
  PROVE  AgeInv'
BY DEF AgeInv, isChunkMarked

\* Outside the objects reached and their children no header changes.
LEMMA HeadersElsewhere ==
  ASSUME TypeInv, NEW S, NEW o \in Chunks, o \notin S, \A p \in S : o \notin Children(p)
  PROVE  HeadersAfter(S)[o] = header[o]
BY DEF HeadersAfter

\* GarbageInv is inductive: marking, the barrier and the sweep never revive an
\* object that a sweep has met as garbage.
LEMMA GarbageStep ==
  ASSUME TypeInv, GarbageInv, [Next]_vars PROVE GarbageInv'
<1> USE DEF heapVars, mainVars, gcVars, history
<1>1. PICK C \in SUBSET Chunks : Scope(C)
  BY DEF GarbageInv, ScopeInv
<1>2. PICK R \in SUBSET Chunks : R = Reachable
  BY ReachableClosed
<1>3. /\ Closed(R) /\ Closed(C) /\ R \subseteq C
      /\ \A o \in inUse : age[o] >= 1 => o \notin C /\ o \notin R
  BY <1>1, <1>2, ReachableClosed, ReachableLeast DEF Scope
<1>4. BarrierInv /\ AgeInv /\ (~Marking => PendingSlots = {})
  BY DEF GarbageInv, ScopeInv
<1>5. ASSUME UNCHANGED <<field, stack, global, reg, inUse, age>>, PendingSlots' \subseteq PendingSlots,
             Marking' = Marking
      PROVE  ScopeInv'
  <2>1. Closed(C)'
    BY <1>3, <1>5, DropClosed
  <2>2. Scope(C)'
    BY <1>1, <1>5, <2>1 DEF Scope
  <2> QED BY <1>4, <1>5, <2>2 DEF ScopeInv
<1>6. ASSUME NEW dst \in Operands, NEW src \in Operands, Move(dst, src) PROVE GarbageInv'
  <2>1. Value(src) \in R \cup {NULL} /\ Assign(dst, Value(src))
    BY <1>2, <1>6, ValueReachable DEF Move
  <2>2. Reachable' \subseteq Reachable
    BY <1>2, <2>1, ReachableShrinks
  <2>3. Closed(C)'
    BY <1>3, <2>1, AssignClosed
  <2>4. AgeInv'
    BY <1>4, <1>6, <2>2, AgeKept DEF Move
  <2>5. BarrierInv'
    BY <1>6 DEF Move, Running, BarrierInv
  <2>6. Scope(C)'
    BY <1>1, <1>6, <2>3 DEF Move, Scope, PendingSlots
  <2>7. (~Marking => PendingSlots = {})'
    BY <1>4, <1>6 DEF Move, Marking, PendingSlots
  <2> QED BY <2>4, <2>5, <2>6, <2>7 DEF GarbageInv, ScopeInv
<1>7. ASSUME NEW dst \in Operands, NEW src \in Operands, BarrierTest(dst, src) PROVE GarbageInv'
  <2>1. Reachable' = Reachable
    BY <1>7, SameMemory DEF BarrierTest
  <2>2. Value(src) \in Reachable \cup {NULL} /\ SourceBase(src) \in Reachable \cup {NULL}
    BY <1>7, ValueReachable DEF BarrierTest
  <2>3. BarrierInv'
    BY <1>7, <2>1, <2>2 DEF BarrierTest, BarrierInv
  <2>4. AgeInv'
    BY <1>4, <1>7, <2>1, AgeKept DEF BarrierTest
  <2>5. ScopeInv'
    BY <1>5, <1>7 DEF BarrierTest, PendingSlots, Marking
  <2> QED BY <2>3, <2>4, <2>5 DEF GarbageInv
<1>8. CASE BarrierStore
  <2>1. wb \in Barriers /\ wb.on
    BY <1>8 DEF BarrierStore, NoBarrier, TypeInv
  <2>2. /\ wb.dst \in Operands /\ wb.value \in R \cup {NULL} /\ Assign(wb.dst, wb.value)
    BY <1>2, <1>4, <1>8, <2>1 DEF BarrierStore, Barriers, BarrierInv
  <2>3. Reachable' \subseteq Reachable
    BY <1>2, <2>2, ReachableShrinks
  <2>4. Closed(C)'
    BY <1>3, <2>2, AssignClosed
  <2>6. AgeInv'
    BY <1>4, <1>8, <2>3, AgeKept DEF BarrierStore
  <2>7. BarrierInv'
    BY <1>8 DEF BarrierStore, BarrierInv, NoBarrier
  <2>8. Scope(C)'
    BY <1>1, <1>8, <2>4 DEF BarrierStore, Scope, PendingSlots
  <2>9. (~Marking => PendingSlots = {})'
    BY <1>4, <1>8 DEF BarrierStore, Marking, PendingSlots
  <2> QED BY <2>6, <2>7, <2>8, <2>9 DEF GarbageInv, ScopeInv
<1>9. ASSUME wb.on, wb'.on => wb'.value = wb.value /\ wb'.source \in {wb.source, NULL},
              UNCHANGED <<field, stack, global, reg, inUse, age, worklist, dfs, gc>>,
              \A o \in Chunks : o # wb.source => header'[o] = header[o]
       PROVE  GarbageInv'
  <2>1. Reachable' = Reachable
    BY <1>9, SameMemory
  <2>2. BarrierInv'
    BY <1>4, <1>9, <2>1 DEF BarrierInv
  <2>3. \A o \in inUse : age[o] >= 1 => header'[o] = header[o]
    BY <1>2, <1>3, <1>4, <1>9 DEF BarrierInv, TypeInv, TypeOK, Chunks, NULL
  <2>4. AgeInv'
    BY <1>4, <1>9, <2>1, <2>3, AgeKept
  <2>5. ScopeInv'
    BY <1>5, <1>9 DEF PendingSlots, Marking
  <2> QED BY <2>2, <2>4, <2>5 DEF GarbageInv
<1>10. CASE MarkTest \/ MarkShade
  <2>1. /\ wb.on /\ UNCHANGED <<field, stack, global, reg, inUse, age, worklist, dfs, gc>>
        /\ \E step, h : step \in BarrierSteps /\ wb' = Barrier(step, h)
    BY <1>10 DEF MarkTest, MarkShade, MarkLoad, MarkWrite, BarrierSteps
  <2>2. wb'.value = wb.value /\ wb'.source \in {wb.source, NULL}
    BY <2>1 DEF Barrier
  <2>3. \A o \in Chunks : o # wb.source => header'[o] = header[o]
    BY <1>10 DEF MarkTest, MarkShade, MarkLoad, MarkWrite, TypeInv, TypeOK
  <2> QED BY <1>9, <2>1, <2>2, <2>3
<1>11. ASSUME NEW o \in Chunks, Allocate(o) PROVE GarbageInv'
  <2>1. Reachable' \subseteq Reachable \cup {o}
    BY <1>11, ReachableShrinks
  <2>2. PICK D \in SUBSET Chunks : D = C \cup {o}
    OBVIOUS
  <2>3. Closed(D)'
    BY <1>3, <1>11, <2>2, AllocateClosed
  <2>4. /\ inUse' = inUse \cup {o} /\ age'[o] = 0
        /\ \A p \in inUse : p # o => age'[p] = age[p] /\ header'[p] = header[p]
    BY <1>11 DEF Allocate, TypeInv, TypeOK
  <2>5. AgeInv'
    BY <1>4, <2>1, <2>4 DEF AgeInv, isChunkMarked
  <2>6. BarrierInv'
    BY <1>11 DEF Allocate, Running, BarrierInv
  <2>7. PendingSlots' = PendingSlots /\ Marking' = Marking
    BY <1>11 DEF Allocate, PendingSlots, Marking
  <2>8. Scope(D)'
    BY <1>1, <2>2, <2>3, <2>4, <2>7 DEF Scope
  <2> QED BY <1>4, <2>5, <2>6, <2>7, <2>8 DEF GarbageInv, ScopeInv
<1>12. ASSUME NEW force \in Forces, MarkStack(force) PROVE GarbageInv'
  <2> DEFINE S == {o \in Chunks : (\E i \in Slots : stack[i] = o) /\ ~isChunkMarked(o)}
  <2>1. S \subseteq R /\ \A p \in S : Children(p) \subseteq R
    BY <1>3 DEF Closed, Roots
  <2>2. /\ header' = HeadersAfter(S) /\ worklist' \subseteq worklist \cup (S \X Fields) /\ dfs' = dfs
        /\ reg' = NULL /\ UNCHANGED <<field, stack, global, inUse, age, wb>>
        /\ gc = "idle" /\ gc' = "requested" /\ ~wb.on
    BY <1>12 DEF MarkStack, Running
  <2> HIDE DEF S
  <2>3. Reachable' \subseteq Reachable
    BY <2>2, ReachableShrinks
  <2>4. \A o \in inUse : age[o] >= 1 => header'[o] = header[o]
    BY <1>3, <2>1, <2>2, HeadersElsewhere DEF TypeInv, TypeOK
  <2>5. AgeInv'
    BY <1>4, <2>2, <2>3, <2>4, AgeKept
  <2>6. Closed(R)'
    BY <1>3, <2>2, DropClosed
  <2>7. \A s \in PendingSlots' : s[1] \in R
    BY <1>4, <2>1, <2>2 DEF Marking, PendingSlots
  <2>8. Scope(R)'
    BY <1>3, <2>2, <2>6, <2>7 DEF Scope
  <2> QED BY <2>2, <2>5, <2>8 DEF GarbageInv, ScopeInv, BarrierInv, Marking
<1>13. CASE BlockUntilDone
  <2>1. Reachable' \subseteq Reachable
    BY <1>13, ReachableShrinks DEF BlockUntilDone
  <2>2. AgeInv'
    BY <1>4, <1>13, <2>1, AgeKept DEF BlockUntilDone
  <2>3. Closed(C)'
    BY <1>3, <1>13, DropClosed DEF BlockUntilDone
  <2>4. PendingSlots' = PendingSlots /\ Marking' = Marking
    BY <1>13 DEF BlockUntilDone, PendingSlots, Marking
  <2>5. Scope(C)'
    BY <1>1, <1>13, <2>3, <2>4 DEF BlockUntilDone, Scope
  <2> QED BY <1>4, <1>13, <2>2, <2>4, <2>5 DEF BlockUntilDone, GarbageInv, ScopeInv, BarrierInv, Running
<1>14. CASE GCStart \/ GCTakeWork \/ GCStartSweep \/ GCSplice \/ GCFinish \/ UNCHANGED vars
  <2>1. UNCHANGED <<field, stack, global, reg, inUse, age, header, wb>>
    BY <1>14 DEF GCStart, GCTakeWork, GCStartSweep, GCSplice, GCFinish, vars
  <2>2. Reachable' = Reachable
    BY <2>1, SameMemory
  <2>3. AgeInv' /\ BarrierInv'
    BY <1>4, <2>1, <2>2, AgeKept DEF BarrierInv
  <2>4. Closed(C)'
    BY <1>3, <2>1, DropClosed
  <2>5. /\ PendingSlots' \subseteq PendingSlots \cup {<<"G">>}
        /\ (~Marking => PendingSlots = {})'
    <3>1. Range(<<>>) = {} /\ \A s : Range(<<s>>) = {s}
      BY DEF Range
    <3>2. CASE GCStart
      BY <1>4, <3>1, <3>2 DEF GCStart, PendingSlots, Marking
    <3>3. CASE GCTakeWork
      BY <3>1, <3>3 DEF GCTakeWork, PendingSlots, Marking
    <3>4. CASE GCStartSweep
      BY <3>1, <3>4 DEF GCStartSweep, PendingSlots, Marking
    <3>5. CASE GCSplice \/ GCFinish \/ UNCHANGED vars
      BY <1>4, <3>5 DEF GCSplice, GCFinish, vars, PendingSlots, Marking
    <3> QED BY <1>14, <3>2, <3>3, <3>4, <3>5
  <2>6. Scope(C)'
    BY <1>1, <2>1, <2>4, <2>5 DEF Scope
  <2> QED BY <2>3, <2>5, <2>6 DEF GarbageInv, ScopeInv
<1>15. CASE GCVisit
  <2>1. PICK p : p = SlotValue(Head(dfs))
    OBVIOUS
  <2>2. UNCHANGED <<field, stack, global, reg, inUse, age, wb, gc>>
    BY <1>15 DEF GCVisit
  <2>3. Reachable' = Reachable
    BY <2>2, SameMemory
  <2>4. Closed(C)'
    BY <1>3, <2>2, DropClosed
  <2>5. p \in C \cup {NULL}
    <3>1. Head(dfs) = <<"G">> \/ Head(dfs)[1] \in C
      BY <1>1, <1>15, <2>1, VisitSlots DEF Scope
    <3>2. Head(dfs) \in DfsSlots
      BY <1>15, VisitTyped DEF GCVisit
    <3>3. CASE Head(dfs) = <<"G">>
      BY <1>3, <2>1, <3>3 DEF SlotValue, Closed, Roots, TypeInv, TypeOK
    <3>4. CASE Head(dfs) # <<"G">>
      BY <1>3, <2>1, <3>1, <3>2, <3>4 DEF SlotValue, Closed, Children, DfsSlots
    <3> QED BY <3>3, <3>4
  <2>6. \A o \in inUse : age[o] >= 1 => header'[o] = header[o]
    <3>1. CASE p = NULL \/ isChunkMarked(p)
      BY <1>15, <2>1, <3>1, VisitSlots
    <3>2. CASE ~(p = NULL \/ isChunkMarked(p))
      <4>1. header' = HeadersAfter({p}) /\ p \in C /\ Children(p) \subseteq C
        BY <1>3, <1>15, <2>1, <2>5, <3>2, VisitSlots DEF Closed
      <4> QED BY <1>3, <4>1, HeadersElsewhere DEF TypeInv, TypeOK
    <3> QED BY <3>1, <3>2
  <2>7. AgeInv' /\ BarrierInv'
    BY <1>4, <2>2, <2>3, <2>6, AgeKept DEF BarrierInv
  <2>8. \A s \in PendingSlots' : s = <<"G">> \/ s[1] \in C
    <3>1. CASE p = NULL \/ isChunkMarked(p)
      BY <1>1, <1>15, <2>1, <3>1, VisitSlots DEF Scope
    <3>2. CASE ~(p = NULL \/ isChunkMarked(p))
      <4>1. p \in C /\ \A s \in PendingSlots' : s \in PendingSlots \/ \E f \in Fields : s = <<p, f>>
        BY <1>15, <2>1, <2>5, <3>2, VisitSlots
      <4>2. \A s \in PendingSlots : s = <<"G">> \/ s[1] \in C
        BY <1>1 DEF Scope
      <4>3. \A f \in Fields : <<p, f>>[1] = p
        OBVIOUS
      <4> QED BY <4>1, <4>2, <4>3
    <3> QED BY <3>1, <3>2
  <2>9. Scope(C)'
    BY <1>1, <2>2, <2>4, <2>8 DEF Scope
  <2>10. Marking'
    BY <1>15 DEF GCVisit, Marking, TypeInv
  <2> QED BY <2>7, <2>9, <2>10 DEF GarbageInv, ScopeInv
<1>16. CASE GCSweep
  <2>1. sweepAt \in Chunks
    BY <1>16 DEF GCSweep, TypeInv, TypeOK, Chunks
  <2>2. /\ UNCHANGED <<field, stack, global, reg, wb, worklist, dfs, gc>>
        /\ gc = "sweep" /\ SweepChunk(sweepAt)
    BY <1>16 DEF GCSweep
  <2>3. Reachable' = Reachable
    BY <2>2, SameMemory
  <2>4. /\ inUse' \subseteq inUse /\ inUse \subseteq Chunks
        /\ \A o \in Chunks : o # sweepAt => age'[o] = age[o] /\ header'[o] = header[o]
    BY <2>1, <2>2 DEF SweepChunk, TypeInv, TypeOK
  <2>5. sweepAt \in inUse' =>
          /\ age'[sweepAt] = 0 \/ age'[sweepAt] = age[sweepAt] + 1
          /\ age'[sweepAt] # 0 => sweepAt \notin Reachable
          /\ header'[sweepAt] = Swept(header[sweepAt])
          /\ header[sweepAt] \cap {"GREY", "MARK"} # {}
    <3>1. CASE sweepAt \in inUse /\ Collectable(header[sweepAt])
      BY <2>2, <3>1 DEF SweepChunk
    <3>2. CASE sweepAt \in inUse /\ ~Collectable(header[sweepAt])
      <4>1. header[sweepAt] \cap {"GREY", "MARK"} # {}
        BY <2>1, <3>2 DEF Collectable, TypeInv, TypeOK, Bits
      <4>2. /\ header' = [header EXCEPT ![sweepAt] = Swept(@)]
            /\ age' = [age EXCEPT ![sweepAt] = IF sweepAt \in inUse \ Reachable THEN @ + 1 ELSE 0]
        BY <2>2, <3>2 DEF SweepChunk
      <4> QED BY <2>1, <4>1, <4>2 DEF TypeInv, TypeOK
    <3>3. CASE sweepAt \notin inUse
      BY <2>4, <3>3
    <3> QED BY <3>1, <3>2, <3>3
  <2>6. ASSUME NEW o \in inUse'
        PROVE  /\ age'[o] <= 2
               /\ age'[o] >= 1 => o \notin Reachable /\ "MARK" \notin header'[o]
               /\ age'[o] = 2 => header'[o] \cap {"GREY", "MARK"} = {}
    <3>1. o \in inUse /\ o \in Chunks /\ age[o] \in Nat
      BY <2>4, <2>6 DEF TypeInv, TypeOK
    <3>2. /\ age[o] <= 2
          /\ age[o] >= 1 => o \notin Reachable /\ "MARK" \notin header[o]
          /\ age[o] = 2 => header[o] \cap {"GREY", "MARK"} = {}
      BY <1>4, <3>1 DEF AgeInv, isChunkMarked
    <3>3. CASE o # sweepAt
      BY <2>4, <3>1, <3>2, <3>3
    <3>4. CASE o = sweepAt
      <4>1. age[o] \in {0, 1}
        BY <2>5, <2>6, <3>1, <3>2, <3>4
      <4>2. "MARK" \notin header'[o]
        BY <2>5, <2>6, <3>4 DEF Swept
      <4>3. age[o] = 1 => header'[o] \cap {"GREY", "MARK"} = {}
        BY <2>5, <2>6, <3>2, <3>4 DEF Swept
      <4> QED BY <2>5, <2>6, <3>4, <4>1, <4>2, <4>3
    <3> QED BY <3>3, <3>4
  <2>7. AgeInv'
    BY <2>3, <2>6 DEF AgeInv, isChunkMarked
  <2>8. PendingSlots' = {} /\ BarrierInv'
    BY <1>4, <2>2, <2>3 DEF PendingSlots, Marking, BarrierInv
  <2>9. Closed(R)'
    BY <1>3, <2>2, DropClosed
  <2>10. Scope(R)'
    BY <1>2, <2>3, <2>7, <2>8, <2>9 DEF Scope, AgeInv
  <2> QED BY <2>7, <2>8, <2>10 DEF GarbageInv, ScopeInv
<1> QED BY <1>6, <1>7, <1>8, <1>10, <1>11, <1>12, <1>13, <1>14, <1>15, <1>16 DEF Next, Mutator, Collector

\* The invariant from its initial state on.
THEOREM GarbageInvariant == Spec => []GarbageInv
<1>1. Init => GarbageInv
  <2> SUFFICES ASSUME Init PROVE GarbageInv
    OBVIOUS
  <2>1. Closed({})
    BY DEF Init, Closed, Roots, Chunks, NULL
  <2>2. PendingSlots = {}
    BY DEF Init, PendingSlots, Range
  <2>3. Scope({})
    BY <2>1, <2>2 DEF Scope
  <2> QED BY <2>2, <2>3 DEF Init, GarbageInv, BarrierInv, NoBarrier, AgeInv, ScopeInv
<1>2. TypeInv /\ GarbageInv /\ [Next]_vars => GarbageInv'
  BY GarbageStep
<1> QED BY <1>1, <1>2, TypeInvariant, PTL DEF Spec

\* FloatingGarbageBounded: an unreachable object survives at most two sweeps,
\* whether or not the main thread runs during the collection.
THEOREM GarbageIsCollected == Spec => []FloatingGarbageBounded
<1>1. GarbageInv => FloatingGarbageBounded
  BY DEF GarbageInv, AgeInv, FloatingGarbageBounded
<1> QED BY <1>1, GarbageInvariant, PTL
-----------------------------------------------------------------------------
(* Collections that block the main thread.                                 *)

\* The main thread stands still throughout the cycle, with nothing in a
\* register and no barrier begun.
StandStill ==
  /\ wb = NoBarrier
  /\ blocked = rtSync
  /\ rtSync <=> gc # "idle"
  /\ gc # "idle" => reg = NULL

\* A mark excludes the red bit, and only objects carry it.
MarkInv == \A o \in Chunks : isChunkMarked(o) => "RED" \notin header[o] /\ o \in inUse

\* While the collector marks: what it has marked is reachable, and what hangs
\* from a marked object is marked or in a slot it has still to visit.
MarkingInv == Marking =>
  /\ \A o \in Chunks : isChunkMarked(o) => o \in Reachable
  /\ \A i \in Slots : stack[i] # NULL => isChunkMarked(stack[i])
  /\ global # NULL /\ gc # "requested" => isChunkMarked(global) \/ <<"G">> \in PendingSlots
  /\ \A o \in Chunks : isChunkMarked(o) =>
       \A f \in Fields : field[o][f] # NULL =>
         isChunkMarked(field[o][f]) \/ <<o, f>> \in PendingSlots
  /\ \A s \in PendingSlots : s # <<"G">> => isChunkMarked(s[1])

\* Ahead of the sweep everything reachable is marked.
SweepInv == gc = "sweep" => \A o \in Reachable : o >= sweepAt => isChunkMarked(o)

\* Behind the sweep no object is marked.
CleanBehindSweep ==
  /\ gc = "sweep" => \A o \in inUse : o < sweepAt => ~isChunkMarked(o)
  /\ gc \in {"done", "idle"} => \A o \in inUse : ~isChunkMarked(o)

BlockedInv == /\ StandStill /\ MarkInv /\ MarkingInv /\ SweepInv
              /\ ReachableKept /\ Tricoloured

\* The sweep clears every mark and nobody sets one behind it while the main
\* thread stands still.
LEMMA CleanStep ==
  ASSUME TypeInv, StandStill, CleanBehindSweep, [Next]_vars
  PROVE  CleanBehindSweep'
<1> USE DEF CleanBehindSweep, isChunkMarked, heapVars, mainVars, gcVars, history
<1>1. ASSUME NEW dst \in Operands, NEW src \in Operands, Move(dst, src) \/ BarrierTest(dst, src)
      PROVE  CleanBehindSweep'
  BY <1>1 DEF Move, BarrierTest
<1>2. ~MarkTest /\ ~MarkShade /\ ~BarrierStore
  BY DEF StandStill, NoBarrier, MarkTest, MarkShade, MarkLoad, MarkWrite, BarrierStore
<1>3. ASSUME NEW o \in Chunks, Allocate(o) PROVE CleanBehindSweep'
  BY <1>3 DEF Allocate, TypeInv, TypeOK
<1>4. ASSUME NEW force \in Forces, MarkStack(force) PROVE CleanBehindSweep'
  BY <1>4 DEF MarkStack
<1>5. CASE BlockUntilDone \/ GCStart \/ GCTakeWork
  BY <1>5 DEF BlockUntilDone, GCStart, GCTakeWork
<1>6. CASE GCVisit
  BY <1>6 DEF GCVisit, TypeInv
<1>7. CASE GCStartSweep
  BY <1>7 DEF GCStartSweep, TypeInv, TypeOK, Chunks
<1>8. CASE GCSweep
  <2>0. sweepAt \in Chunks /\ sweepAt' = sweepAt + 1 /\ gc' = gc
    BY <1>8 DEF GCSweep, TypeInv, TypeOK, Chunks
  <2>1. /\ header \in [Chunks -> SUBSET Bits] /\ inUse \subseteq Chunks
        /\ sweepAt \in Chunks /\ sweepAt' = sweepAt + 1 /\ gc' = gc
    BY <2>0 DEF TypeInv, TypeOK
  <2>2. inUse' \subseteq inUse
    BY <1>8 DEF GCSweep, SweepChunk
  <2>3. \A o \in Chunks : o # sweepAt => header'[o] = header[o]
    BY <1>8, <2>1 DEF GCSweep, SweepChunk
  <2>4. sweepAt \in inUse' => "MARK" \notin header'[sweepAt]
    BY <1>8, <2>1 DEF GCSweep, SweepChunk, Swept
  <2>5. ASSUME NEW o \in inUse', o < sweepAt' PROVE "MARK" \notin header'[o]
    BY <1>8, <2>1, <2>2, <2>3, <2>4, <2>5 DEF GCSweep, Chunks
  <2> QED BY <1>8, <2>1, <2>5 DEF GCSweep
<1>9. CASE GCSplice
  BY <1>9 DEF GCSplice, TypeInv, TypeOK, Chunks
<1>10. CASE GCFinish
  BY <1>10 DEF GCFinish
<1>11. CASE UNCHANGED vars
  BY <1>11 DEF vars
<1> QED BY <1>1, <1>2, <1>3, <1>4, <1>5, <1>6, <1>7, <1>8, <1>9, <1>10, <1>11
        DEF Next, Mutator, Collector

\* Roots are reachable.
LEMMA RootsReachable == Roots \subseteq Reachable /\ Roots' \subseteq Reachable'
<1>1. Roots \subseteq Chunks /\ Roots' \subseteq Chunks
  BY DEF Roots
<1> QED BY <1>1 DEF Reachable

\* A slot of an object is not the global.
LEMMA SlotNotGlobal == \A o, f : <<o, f>> # <<"G">> /\ <<o, f>>[1] = o /\ <<o, f>>[2] = f
<1>1. \A o, f : Len(<<o, f>>) = 2 /\ Len(<<"G">>) = 1
  OBVIOUS
<1> QED BY <1>1

\* What marking the objects S does to the bits.
LEMMA HeadersFacts ==
  ASSUME TypeInv, NEW S, NEW o \in Chunks
  PROVE  /\ "MARK" \in HeadersAfter(S)[o] <=> (o \in S \/ isChunkMarked(o))
         /\ "RED" \in HeadersAfter(S)[o] => "RED" \in header[o] /\ o \notin S
         /\ ~White(header[o]) => ~White(HeadersAfter(S)[o])
         /\ o \in S => ~White(HeadersAfter(S)[o])
         /\ \A p \in S : o \in Children(p) => ~White(HeadersAfter(S)[o])
<1>1. CASE o \in S
  <2>1. HeadersAfter(S)[o] = Marked(Shaded(header[o]))
    BY <1>1 DEF HeadersAfter
  <2> QED BY <1>1, <2>1 DEF Marked, Shaded, White
<1>2. CASE o \notin S /\ \E p \in S : o \in Children(p)
  <2>1. HeadersAfter(S)[o] = Shaded(header[o])
    BY <1>2 DEF HeadersAfter
  <2> QED BY <1>2, <2>1 DEF Shaded, White, isChunkMarked
<1>3. CASE o \notin S /\ ~\E p \in S : o \in Children(p)
  <2>1. HeadersAfter(S)[o] = header[o]
    BY <1>3 DEF HeadersAfter
  <2> QED BY <1>3, <2>1 DEF isChunkMarked
<1> QED BY <1>1, <1>2, <1>3

\* BlockedInv is inductive while GC_collect blocks its caller.
LEMMA BlockedStep ==
  ASSUME ~beside', TypeInv, CleanBehindSweep, GarbageInv, BlockedInv, [Next]_vars
  PROVE  BlockedInv'
<1> USE DEF heapVars, mainVars, gcVars, history
<1>1. StandStill /\ MarkInv /\ MarkingInv /\ SweepInv /\ ReachableKept /\ Tricoloured
  BY DEF BlockedInv
<1>2. ~Marking => PendingSlots = {}
  BY DEF GarbageInv, ScopeInv
<1>3. Running => gc = "idle" /\ ~rtSync /\ ~blocked
  BY <1>1 DEF StandStill, Running, TypeInv, TypeOK
<1>4. gc \in {"idle", "done"} => \A o \in Chunks : ~isChunkMarked(o)
  BY <1>1 DEF MarkInv, CleanBehindSweep
<1>5. ASSUME NEW dst \in Operands, NEW src \in Operands, Move(dst, src) PROVE BlockedInv'
  <2>1. Value(src) \in Reachable \cup {NULL} /\ Assign(dst, Value(src))
    BY <1>5, ValueReachable DEF Move
  <2>2. Reachable' \subseteq Reachable
    BY <2>1, ReachableShrinks
  <2>3. gc = "idle" /\ UNCHANGED <<header, inUse, rtSync, blocked, wb, gc>>
    BY <1>3, <1>5 DEF Move
  <2> QED BY <1>1, <1>4, <2>2, <2>3 DEF BlockedInv, StandStill, MarkInv, MarkingInv, Marking, SweepInv,
          ReachableKept, Tricoloured, isChunkMarked, TypeInv, TypeOK
<1>6. ASSUME NEW dst \in Operands, NEW src \in Operands, BarrierTest(dst, src) PROVE FALSE
  BY <1>3, <1>6 DEF BarrierTest
<1>7. ~MarkTest /\ ~MarkShade /\ ~BarrierStore /\ ~BlockUntilDone
  BY <1>1, <1>3 DEF BarrierStore, MarkTest, MarkShade, MarkLoad, MarkWrite, BlockUntilDone, StandStill,
     NoBarrier
<1>8. ASSUME NEW o \in Chunks, Allocate(o) PROVE BlockedInv'
  <2>1. Reachable' \subseteq Reachable \cup {o}
    BY <1>8, ReachableShrinks
  <2>2. /\ gc = "idle" /\ UNCHANGED <<rtSync, blocked, wb, gc>> /\ inUse' = inUse \cup {o}
        /\ header' = [header EXCEPT ![o] = {"RED"}]
    BY <1>3, <1>8 DEF Allocate
  <2>3. \A p \in Chunks : "MARK" \notin header'[p]
    BY <1>4, <2>2 DEF isChunkMarked, TypeInv, TypeOK
  <2> QED BY <1>1, <2>1, <2>2, <2>3 DEF BlockedInv, StandStill, MarkInv, MarkingInv, Marking, SweepInv,
          ReachableKept, Tricoloured, isChunkMarked, TypeInv, TypeOK
<1>9. ASSUME NEW force \in Forces, MarkStack(force) PROVE BlockedInv'
  <2> DEFINE S == {o \in Chunks : (\E i \in Slots : stack[i] = o) /\ ~isChunkMarked(o)}
  <2>1. /\ header' = HeadersAfter(S)
        /\ worklist' = worklist \cup {s \in S \X Fields : field[s[1]][s[2]] # NULL}
        /\ gc = "idle" /\ gc' = "requested" /\ rtSync' = TRUE /\ blocked' = force /\ reg' = NULL
        /\ UNCHANGED <<inUse, field, stack, global, wb, dfs>>
    BY <1>9 DEF MarkStack
  <2>2. force = TRUE
    BY <1>9 DEF MarkStack
  <2>3. StandStill'
    BY <1>1, <2>1, <2>2 DEF StandStill
  <2>4. Reachable' \subseteq Reachable
    BY <2>1, ReachableShrinks
  <2>5. S = {o \in Chunks : \E i \in Slots : stack[i] = o} /\ S \subseteq Roots' /\ S \subseteq Chunks
    BY <1>4, <2>1 DEF Roots
  <2>6. \A o \in Chunks : "MARK" \in header'[o] <=> o \in S
    BY <1>4, <2>1, HeadersFacts
  <2>7. S \subseteq Reachable' /\ ReachableKept'
    BY <1>1, <2>1, <2>4, <2>5, RootsReachable DEF ReachableKept
  <2>8. MarkInv'
    <3>1. ASSUME NEW o \in Chunks, "MARK" \in header'[o] PROVE "RED" \notin header'[o] /\ o \in inUse'
      BY <2>1, <2>6, <2>7, <3>1, HeadersFacts DEF ReachableKept
    <3> QED BY <3>1 DEF MarkInv, isChunkMarked
  <2>9. PendingSlots' = {s \in S \X Fields : field[s[1]][s[2]] # NULL}
    BY <1>2, <2>1 DEF PendingSlots, Marking
  <2>10. MarkingInv'
    <3>1. \A i \in Slots : stack[i] # NULL => stack[i] \in S
      BY <2>5 DEF TypeInv, TypeOK
    <3>2. \A o \in S : \A f \in Fields : field[o][f] # NULL => <<o, f>> \in PendingSlots'
      BY <2>9
    <3>3. \A s \in PendingSlots' : s[1] \in S
      BY <2>9
    <3> HIDE DEF S
    <3> QED BY <2>1, <2>5, <2>6, <2>7, <3>1, <3>2, <3>3 DEF MarkingInv, isChunkMarked
  <2>11. Tricoloured'
    <3>1. ASSUME NEW o \in Chunks, "MARK" \in header'[o], NEW c \in Children(o)
          PROVE  ~White(header'[c])
      <4>1. o \in S /\ c \in Chunks
        BY <2>6, <3>1 DEF Children, TypeInv, TypeOK
      <4> QED BY <2>1, <4>1, HeadersFacts
    <3>2. \A o : Children(o)' = Children(o)
      BY <2>1 DEF Children
    <3> QED BY <2>1, <3>1, <3>2 DEF Tricoloured, isChunkMarked, TypeInv, TypeOK
  <2> QED BY <2>1, <2>3, <2>7, <2>8, <2>10, <2>11 DEF BlockedInv, SweepInv
<1>10. ASSUME UNCHANGED <<field, stack, global, reg, header, inUse>>, PendingSlots \subseteq PendingSlots',
              PendingSlots' \subseteq PendingSlots \cup {<<"G">>}, Marking, Marking',
              gc' # "requested" => gc # "requested" \/ <<"G">> \in PendingSlots'
       PROVE  MarkInv' /\ MarkingInv' /\ ReachableKept' /\ Tricoloured'
  <2>1. Reachable' = Reachable
    BY <1>10, SameMemory
  <2>2. MarkInv' /\ ReachableKept'
    BY <1>1, <1>10, <2>1 DEF MarkInv, ReachableKept, isChunkMarked
  <2>3. MarkingInv'
    BY <1>1, <1>10, <2>1 DEF MarkingInv, isChunkMarked
  <2>4. Tricoloured'
    BY <1>1, <1>10 DEF Tricoloured, isChunkMarked, Children, Marking
  <2> QED BY <2>2, <2>3, <2>4
<1>11. CASE GCStart
  <2>1. PendingSlots' = PendingSlots \cup {<<"G">>}
    BY <1>11 DEF GCStart, PendingSlots, Range, TypeInv
  <2>2. MarkInv' /\ MarkingInv' /\ ReachableKept' /\ Tricoloured'
    BY <1>10, <1>11, <2>1 DEF GCStart, Marking
  <2> QED BY <1>1, <1>11, <2>2 DEF GCStart, BlockedInv, StandStill, SweepInv
<1>12. CASE GCTakeWork
  <2>1. PendingSlots' = PendingSlots
    BY <1>12 DEF GCTakeWork, PendingSlots, Range
  <2>2. MarkInv' /\ MarkingInv' /\ ReachableKept' /\ Tricoloured'
    BY <1>10, <1>12, <2>1 DEF GCTakeWork, Marking
  <2> QED BY <1>1, <1>12, <2>2 DEF GCTakeWork, BlockedInv, StandStill, SweepInv
<1>13. CASE GCVisit
  <2>1. PICK p : p = SlotValue(Head(dfs))
    OBVIOUS
  <2>2. /\ Marking /\ gc # "requested"
        /\ UNCHANGED <<field, stack, global, reg, inUse, wb, gc, rtSync, blocked>>
    BY <1>13 DEF GCVisit, Marking, TypeInv
  <2>3. Reachable' = Reachable /\ StandStill'
    BY <1>1, <2>2, SameMemory DEF StandStill
  <2>4. /\ \A s \in PendingSlots : s \in PendingSlots' \/ s = Head(dfs)
        /\ Head(dfs) \in PendingSlots
    BY <1>13, <2>1, VisitSlots
  <2>5. \A s \in PendingSlots : /\ s = <<"G">> => s \in PendingSlots' \/ p = global
                                /\ s # <<"G">> => s \in PendingSlots' \/ p = field[s[1]][s[2]]
    BY <2>1, <2>4 DEF SlotValue
  <2>6. CASE p = NULL \/ isChunkMarked(p)
    <3>1. header' = header /\ PendingSlots' \subseteq PendingSlots
      BY <1>13, <2>1, <2>6, VisitSlots
    <3>2. global # NULL => isChunkMarked(global) \/ <<"G">> \in PendingSlots'
      BY <1>1, <2>2, <2>5, <2>6 DEF MarkingInv
    <3>3. ASSUME NEW o \in Chunks, isChunkMarked(o), NEW f \in Fields, field[o][f] # NULL
          PROVE  isChunkMarked(field[o][f]) \/ <<o, f>> \in PendingSlots'
      BY <1>1, <2>2, <2>5, <2>6, <3>3, SlotNotGlobal DEF MarkingInv
    <3>4. MarkingInv'
      BY <1>1, <2>2, <2>3, <3>1, <3>2, <3>3 DEF MarkingInv, isChunkMarked
    <3>5. MarkInv' /\ ReachableKept'
      BY <1>1, <2>2, <2>3, <3>1 DEF MarkInv, ReachableKept, isChunkMarked
    <3>6. Tricoloured' /\ SweepInv'
      BY <1>1, <2>2, <3>1 DEF Tricoloured, isChunkMarked, Children, SweepInv, Marking
    <3> QED BY <2>3, <3>4, <3>5, <3>6 DEF BlockedInv
  <2>7. CASE ~(p = NULL \/ isChunkMarked(p))
    <3>1. /\ header' = HeadersAfter({p})
          /\ \A s \in PendingSlots' : s \in PendingSlots \/ \E f \in Fields : s = <<p, f>>
          /\ \A f \in Fields : <<p, f>> \in PendingSlots'
      BY <1>13, <2>1, <2>7, VisitSlots
    <3>2. p \in Reachable /\ p \in Chunks
      <4>1. Head(dfs) \in DfsSlots /\ p \in Refs
        BY <1>13, <2>1, VisitTyped DEF GCVisit
      <4>2. CASE Head(dfs) = <<"G">>
        BY <2>1, <2>7, <4>1, <4>2, RootsReachable DEF SlotValue, Roots, Refs
      <4>3. CASE Head(dfs) # <<"G">>
        <5>1. Head(dfs)[1] \in Chunks /\ Head(dfs)[2] \in Fields /\ p = field[Head(dfs)[1]][Head(dfs)[2]]
          BY <2>1, <4>1, <4>3 DEF SlotValue, DfsSlots
        <5>2. Head(dfs)[1] \in Reachable
          BY <1>1, <2>2, <2>4, <4>3, <5>1 DEF MarkingInv
        <5>3. p \in Children(Head(dfs)[1])
          BY <2>7, <5>1 DEF Children
        <5> QED BY <2>7, <4>1, <5>2, <5>3, ReachableClosed DEF Closed, Refs
      <4> QED BY <4>2, <4>3
    <3>3. \A o \in Chunks : "MARK" \in header'[o] <=> (o = p \/ isChunkMarked(o))
      BY <3>1, HeadersFacts
    <3>4. MarkInv' /\ ReachableKept'
      <4>1. ASSUME NEW o \in Chunks, "MARK" \in header'[o] PROVE "RED" \notin header'[o] /\ o \in inUse
        BY <1>1, <3>1, <3>2, <3>3, <4>1, HeadersFacts DEF MarkInv, ReachableKept
      <4> QED BY <1>1, <2>2, <2>3, <4>1 DEF MarkInv, ReachableKept, isChunkMarked
    <3>5. global # NULL => "MARK" \in header'[global] \/ <<"G">> \in PendingSlots'
      BY <1>1, <2>2, <2>5, <3>3 DEF MarkingInv, TypeInv, TypeOK
    <3>6. ASSUME NEW o \in Chunks, "MARK" \in header'[o], NEW f \in Fields, field[o][f] # NULL
          PROVE  "MARK" \in header'[field[o][f]] \/ <<o, f>> \in PendingSlots'
      <4>1. field[o][f] \in Chunks
        BY <3>6 DEF TypeInv, TypeOK
      <4>2. CASE o = p
        BY <3>1, <4>2
      <4>3. CASE o # p
        <5>1. isChunkMarked(field[o][f]) \/ <<o, f>> \in PendingSlots
          BY <1>1, <2>2, <3>3, <3>6, <4>3 DEF MarkingInv
        <5>2. <<o, f>> \in PendingSlots => <<o, f>> \in PendingSlots' \/ p = field[o][f]
          BY <2>5, SlotNotGlobal
        <5> QED BY <3>3, <4>1, <5>1, <5>2
      <4> QED BY <4>2, <4>3
    <3>7. ASSUME NEW s \in PendingSlots', s # <<"G">> PROVE "MARK" \in header'[s[1]]
      <4>1. CASE s \in PendingSlots
        <5>1. isChunkMarked(s[1]) /\ s[1] \in Chunks
          <6>1. PendingSlots \subseteq DfsSlots
            BY RangeOfSeq DEF PendingSlots, DfsSlots, TypeInv, TypeOK
          <6> QED BY <1>1, <2>2, <3>7, <4>1, <6>1 DEF MarkingInv, DfsSlots
        <5> QED BY <3>3, <5>1
      <4>2. CASE \E f \in Fields : s = <<p, f>>
        BY <3>2, <3>3, <4>2
      <4> QED BY <3>1, <4>1, <4>2
    <3>8. \A o \in Chunks : "MARK" \in header'[o] => o \in Reachable
      BY <1>1, <2>2, <3>2, <3>3 DEF MarkingInv
    <3>9. \A i \in Slots : stack[i] # NULL => "MARK" \in header'[stack[i]]
      BY <1>1, <2>2, <3>3 DEF MarkingInv, TypeInv, TypeOK
    <3>10. MarkingInv'
      BY <2>2, <2>3, <3>5, <3>6, <3>7, <3>8, <3>9 DEF MarkingInv, isChunkMarked
    <3>11. Tricoloured' /\ SweepInv'
      <4>1. ASSUME NEW o \in inUse, "MARK" \in header'[o], NEW c \in Children(o)
            PROVE  ~White(header'[c])
        <5>1. c \in Chunks /\ o \in Chunks
          BY DEF Children, TypeInv, TypeOK
        <5>2. CASE o = p
          BY <3>1, <5>1, <5>2, HeadersFacts
        <5>3. CASE o # p
          <6>1. ~White(header[c])
            BY <1>1, <2>2, <3>3, <4>1, <5>1, <5>3 DEF Tricoloured, Marking
          <6> QED BY <3>1, <5>1, <6>1, HeadersFacts
        <5> QED BY <5>2, <5>3
      <4>2. \A o : Children(o)' = Children(o)
        BY <2>2 DEF Children
      <4> QED BY <2>2, <4>1, <4>2 DEF Tricoloured, isChunkMarked, SweepInv, Marking
    <3> QED BY <2>3, <3>4, <3>10, <3>11 DEF BlockedInv
  <2> QED BY <2>6, <2>7
<1>14. CASE GCStartSweep
  <2>1. /\ gc \in {"globals", "worklist"} /\ gc' = "sweep" /\ Marking
        /\ UNCHANGED <<field, stack, global, reg, inUse, wb, header, rtSync, blocked>>
    BY <1>14 DEF GCStartSweep, Marking
  <2>2. Reachable' = Reachable /\ StandStill'
    BY <1>1, <2>1, SameMemory DEF StandStill
  <2>3. PendingSlots = {}
    BY <1>14 DEF GCStartSweep, PendingSlots, Range
  <2>4. PICK M \in SUBSET Chunks : M = {o \in Chunks : isChunkMarked(o)}
    OBVIOUS
  <2>5. Closed(M)
    <3>1. Roots \subseteq M
      <4>1. reg = NULL
        BY <1>1, <2>1 DEF StandStill
      <4>2. global # NULL => isChunkMarked(global)
        BY <1>1, <2>1, <2>3 DEF MarkingInv
      <4>3. \A i \in Slots : stack[i] # NULL => isChunkMarked(stack[i])
        BY <1>1, <2>1 DEF MarkingInv
      <4> QED BY <2>4, <4>1, <4>2, <4>3 DEF Roots, Chunks, NULL
    <3>2. ASSUME NEW o \in M, NEW c \in Children(o) PROVE c \in M
      <4>1. PICK f \in Fields : c = field[o][f] /\ c # NULL
        BY <3>2 DEF Children
      <4> QED BY <1>1, <2>1, <2>3, <2>4, <4>1 DEF MarkingInv, TypeInv, TypeOK
    <3> QED BY <3>1, <3>2 DEF Closed
  <2>6. SweepInv'
    BY <2>1, <2>2, <2>4, <2>5, ReachableLeast DEF SweepInv, isChunkMarked
  <2> QED BY <1>1, <2>1, <2>2, <2>6 DEF BlockedInv, MarkInv, ReachableKept, isChunkMarked, MarkingInv,
          Marking, Tricoloured
<1>15. CASE GCSweep
  <2>1. sweepAt \in Chunks /\ sweepAt' = sweepAt + 1 /\ sweepAt \in Nat
    BY <1>15 DEF GCSweep, TypeInv, TypeOK, Chunks
  <2>2. /\ UNCHANGED <<field, stack, global, reg, wb, rtSync, blocked, gc>>
        /\ gc = "sweep" /\ SweepChunk(sweepAt)
    BY <1>15 DEF GCSweep
  <2>3. Reachable' = Reachable /\ StandStill' /\ Reachable \subseteq Chunks
    BY <1>1, <2>2, SameMemory DEF StandStill, Reachable
  <2>4. \A o \in Chunks : o # sweepAt => header'[o] = header[o]
    BY <2>1, <2>2 DEF SweepChunk, TypeInv, TypeOK
  <2>5. header'[sweepAt] \subseteq header[sweepAt]
    BY <2>1, <2>2 DEF SweepChunk, Swept, TypeInv, TypeOK
  <2>6. /\ inUse \ {sweepAt} \subseteq inUse' /\ inUse' \subseteq inUse
        /\ sweepAt \in inUse /\ ~Collectable(header[sweepAt]) => sweepAt \in inUse'
        /\ sweepAt \notin inUse' => header' = header
    BY <2>2 DEF SweepChunk
  <2>7. isChunkMarked(sweepAt) => sweepAt \in inUse'
    BY <1>1, <2>1, <2>6 DEF MarkInv, Collectable, isChunkMarked
  <2>8. MarkInv'
    BY <1>1, <2>1, <2>4, <2>5, <2>6, <2>7 DEF MarkInv, isChunkMarked
  <2>9. sweepAt \in Reachable => isChunkMarked(sweepAt)
    BY <1>1, <2>1, <2>2 DEF SweepInv
  <2>10. ReachableKept'
    BY <1>1, <2>3, <2>6, <2>7, <2>9 DEF ReachableKept
  <2>11. SweepInv'
    <3>1. ASSUME NEW o \in Reachable, o >= sweepAt + 1 PROVE "MARK" \in header'[o]
      <4>1. o \in Chunks /\ o # sweepAt /\ o >= sweepAt
        BY <2>1, <2>3, <3>1 DEF Chunks
      <4> QED BY <1>1, <2>2, <2>4, <3>1, <4>1 DEF SweepInv, isChunkMarked
    <3> QED BY <2>1, <2>3, <3>1 DEF SweepInv, isChunkMarked
  <2> QED BY <2>2, <2>3, <2>8, <2>10, <2>11 DEF BlockedInv, MarkingInv, Marking, Tricoloured
<1>16. CASE GCSplice \/ GCFinish
  <2>1. /\ UNCHANGED <<field, stack, global, reg, wb, header, inUse>>
        /\ gc' \in {"done", "idle"}
    BY <1>16 DEF GCSplice, GCFinish
  <2>2. \A o \in inUse : ~isChunkMarked(o)
    BY <1>16 DEF GCSplice, GCFinish, CleanBehindSweep, TypeInv, TypeOK, Chunks
  <2>3. Reachable' = Reachable
    BY <2>1, SameMemory
  <2>4. StandStill'
    BY <1>1, <1>16 DEF GCSplice, GCFinish, StandStill
  <2>5. MarkInv' /\ ReachableKept'
    BY <1>1, <2>1, <2>3 DEF MarkInv, ReachableKept, isChunkMarked
  <2>6. Tricoloured' /\ MarkingInv' /\ SweepInv'
    BY <2>1, <2>2 DEF Tricoloured, MarkingInv, SweepInv, Marking, isChunkMarked
  <2> QED BY <2>4, <2>5, <2>6 DEF BlockedInv
<1>17. CASE UNCHANGED vars
  <2>1. /\ UNCHANGED <<field, stack, global, reg, wb, header, inUse, rtSync, blocked, gc, worklist, dfs, sweepAt>>
    BY <1>17 DEF vars
  <2>2. Reachable' = Reachable /\ PendingSlots' = PendingSlots /\ Marking' = Marking
    BY <2>1, SameMemory DEF PendingSlots, Marking
  <2>3. StandStill' /\ MarkInv' /\ ReachableKept' /\ SweepInv'
    BY <1>1, <2>1, <2>2 DEF StandStill, MarkInv, ReachableKept, SweepInv, isChunkMarked
  <2>4. MarkingInv'
    BY <1>1, <2>1, <2>2 DEF MarkingInv, isChunkMarked
  <2>5. Tricoloured'
    BY <1>1, <2>1 DEF Tricoloured, isChunkMarked, Children
  <2> QED BY <2>3, <2>4, <2>5 DEF BlockedInv
<1> QED BY <1>5, <1>6, <1>7, <1>8, <1>9, <1>11, <1>12, <1>13, <1>14, <1>15, <1>16, <1>17
        DEF Next, Mutator, Collector

\* As long as every collection has blocked the main thread.
QuietInv == ~beside => CleanBehindSweep /\ BlockedInv

\* A collection that did not block the main thread is never forgotten.
LEMMA BesideKept ==
  ASSUME TypeInv, [Next]_vars, beside PROVE beside'
BY DEF Next, Mutator, Collector, Move, BarrierTest, MarkTest, MarkShade, MarkLoad, MarkWrite, BarrierStore,
   Allocate, MarkStack, BlockUntilDone, GCStart, GCVisit, GCTakeWork, GCStartSweep, GCSweep, GCSplice,
   GCFinish, vars, history

\* The invariant of a program whose every collection so far has blocked the
\* main thread.
THEOREM BlockedInvariant == Spec => []QuietInv
<1>1. Init => QuietInv
  <2> SUFFICES ASSUME Init PROVE BlockedInv /\ CleanBehindSweep
    BY DEF QuietInv
  <2>1. Closed({})
    BY DEF Init, Closed, Roots, Chunks, NULL
  <2>2. Reachable = {}
    BY <2>1, ReachableLeast
  <2>3. \A o \in Chunks : ~isChunkMarked(o)
    BY DEF Init, isChunkMarked
  <2> QED BY <2>2, <2>3 DEF Init, BlockedInv, StandStill, MarkInv, MarkingInv, Marking, SweepInv,
          ReachableKept, Tricoloured, CleanBehindSweep
<1>2. TypeInv /\ GarbageInv /\ QuietInv /\ [Next]_vars => QuietInv'
  <2> SUFFICES ASSUME TypeInv, GarbageInv, QuietInv, [Next]_vars, ~beside'
               PROVE  CleanBehindSweep' /\ BlockedInv'
    BY DEF QuietInv
  <2>1. CleanBehindSweep /\ BlockedInv
    BY BesideKept DEF QuietInv
  <2>2. CleanBehindSweep'
    BY <2>1, CleanStep DEF BlockedInv
  <2> QED BY <2>1, <2>2, BlockedStep
<1> QED BY <1>1, <1>2, TypeInvariant, GarbageInvariant, PTL DEF Spec

\* KeptWhileBlocked: as long as every collection blocks the main thread, the
\* sweep frees nothing the main thread can still reach.
THEOREM SweepIsSafe == Spec => []KeptWhileBlocked
<1>1. QuietInv => KeptWhileBlocked
  BY DEF QuietInv, BlockedInv, KeptWhileBlocked
<1> QED BY <1>1, BlockedInvariant, PTL

\* TriColour: ... and no marked object points to one neither marked nor shaded.
THEOREM NoBlackToWhite == Spec => []TriColour
<1>1. QuietInv => TriColour
  BY DEF QuietInv, BlockedInv, TriColour
<1> QED BY <1>1, BlockedInvariant, PTL
=============================================================================
