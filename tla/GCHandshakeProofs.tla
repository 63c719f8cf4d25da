-------------------------- MODULE GCHandshakeProofs --------------------------
(***************************************************************************)
(* Proofs about GCHandshake, for every number of threads, heap size and    *)
(* choice of reservers.                                                    *)
(***************************************************************************)
EXTENDS GCHandshake, SumLemmas, TLAPS

\* rtSync_lock is held by exactly the thread whose pc says so.
LockInv ==
  /\ \A t \in Mutators : pc[t] \in InHandshake <=> rtSync_lock = t
  /\ pc[GC] \in GCHoldsLock <=> rtSync_lock = GC

\* rtSync says which mutators are still owed to the collector: nobody but the
\* main thread, only while it is unsynced, takes part in the handshake, and a
\* request implies that everyone is synced.
SyncInv ==
  /\ \A t \in Mutators \ {Main} : rtSync[t]
  /\ \A t \in Mutators : pc[t] \in InHandshake \cup {"rtlock"} => ~rtSync[t]
  /\ dirty => \A t \in Mutators : rtSync[t]

\* What the collector's position says about the shared flags.
CollectorInv ==
  /\ isGCRunning <=> pc[GC] \in {"collecting", "finishing"}
  /\ isGCRunning => dirty
  /\ SignalNotLost

\* The inductive invariant.
HandshakeInv == TypeOK /\ LockInv /\ SyncInv /\ CollectorInv

USE ConstantsAssumption

\* The collector and the main thread are threads, and different ones.
LEMMA ThreadFacts ==
  /\ Main \in Mutators /\ GC \in Threads /\ GC \notin Mutators
  /\ Mutators \subseteq Threads /\ Nobody \notin Threads
  BY DEF Main, GC, Mutators, Threads, Nobody

\* GCHandshake starts well typed and every step of mutators and collector
\* keeps every variable's type.
THEOREM TypeCorrect == Spec => []TypeOK
<1>1. Init => TypeOK
  <2> SUFFICES ASSUME Init PROVE TypeOK
    OBVIOUS
  <2>1. /\ pc \in [Threads -> MutatorPC \cup GCPC]
        /\ pc[GC] \in GCPC /\ \A t \in Mutators : pc[t] \in MutatorPC
    BY ThreadFacts DEF Init, MutatorPC, GCPC
  <2>2. site \in [Mutators -> Sites] /\ need \in [Mutators -> Nat]
    BY DEF Init, Sites
  <2>3. rtSync \in [Threads -> BOOLEAN]
    BY DEF Init
  <2>4. /\ grow \in Nat /\ threadsBlockedForGC \in Nat /\ attempts \in Nat
        /\ fl_chunks \in Nat /\ reserved \in Int /\ stackChunks \in Nat
    BY DEF Init
  <2>5. /\ rtSync_lock \in Threads \cup {Nobody}
        /\ dirty \in BOOLEAN /\ isGCRunning \in BOOLEAN /\ died \in BOOLEAN
    BY Zenon DEF Init
  <2> QED BY <2>1, <2>2, <2>3, <2>4, <2>5 DEF TypeOK
<1>2. TypeOK /\ [Next]_vars => TypeOK'
  <2> SUFFICES ASSUME TypeOK, [Next]_vars PROVE TypeOK'
    OBVIOUS
  <2> USE ThreadFacts DEF TypeOK, MutatorPC, GCPC, Sites, Goto, mutatorVars, syncVars, heapVars
  <2>1. ASSUME NEW t \in Mutators, MutatorCall(t) PROVE TypeOK'
    <3>1. ASSUME NEW n \in Requests, CompiledCheck(t, n) PROVE TypeOK'
      BY <3>1 DEF CompiledCheck, CompiledReserve
    <3>2. ASSUME NEW n \in Requests, ReserveAllocation(t, n) PROVE TypeOK'
      BY <3>2 DEF ReserveAllocation, ReserveRound
    <3>3. ASSUME NEW n \in Requests, ReserveTooMuch(t, n) PROVE TypeOK'
      BY <3>3 DEF ReserveTooMuch
    <3>4. CASE ExplicitCollect(t)
      BY <3>4 DEF ExplicitCollect
    <3> QED BY <2>1, <3>1, <3>2, <3>3, <3>4 DEF MutatorCall
  <2>2. ASSUME NEW t \in Mutators, MutatorStep(t) PROVE TypeOK'
    <3>1. CASE CompiledRecheck(t)
      BY <3>1 DEF CompiledRecheck, CompiledReserve
    <3>2. CASE ReserveAllocationRetry(t)
      BY <3>2 DEF ReserveAllocationRetry, ReserveRound
    <3>3. ASSUME NEW k \in 1 .. maxChunksAvailable, AllocateChunks(t, k) PROVE TypeOK'
      BY <3>3 DEF AllocateChunks
    <3>4. CASE AllocateFault(t)
      BY <3>4 DEF AllocateFault
    <3>5. CASE CollectSynced(t)
      BY <3>5 DEF CollectSynced, AfterSync, SiteAfterSync
    <3>6. CASE CollectUnsynced(t)
      BY <3>6 DEF CollectUnsynced
    <3>7. CASE RTSyncLock(t)
      BY <3>7 DEF RTSyncLock
    <3>8. ASSUME NEW g \in Growths, MarkStack(t, g) PROVE TypeOK'
      BY <3>8 DEF MarkStack
    <3>9. CASE GrowReserve(t)
      BY <3>9 DEF GrowReserve
    <3>10. CASE GrowAlloc(t)
      BY <3>10 DEF GrowAlloc
    <3>11. CASE SyncAndUnlock(t)
      BY <3>11 DEF SyncAndUnlock, AfterSync, SiteAfterSync
    <3>12. CASE BlockEmpty(t)
      BY <3>12 DEF BlockEmpty
    <3> QED BY <2>2, <3>1, <3>2, <3>3, <3>4, <3>5, <3>6, <3>7, <3>8, <3>9, <3>10, <3>11, <3>12
            DEF MutatorStep
  <2>3. ASSUME NEW t \in Mutators, SpuriousWakeup(t) PROVE TypeOK'
    BY <2>3 DEF SpuriousWakeup
  <2>4. CASE GCStep
    <3>1. CASE GCLock
      BY <3>1 DEF GCLock
    <3>2. CASE GCSleep
      BY <3>2 DEF GCSleep
    <3>3. CASE GCStart
      BY <3>3 DEF GCStart
    <3>4. CASE GCSweep
      BY <3>4 DEF GCSweep
    <3>5. CASE GCFinish
      BY <3>5 DEF GCFinish
    <3>6. CASE GCBroadcast
      BY <3>6 DEF GCBroadcast
    <3> QED BY <2>4, <3>1, <3>2, <3>3, <3>4, <3>5, <3>6 DEF GCStep
  <2>5. CASE GCSpuriousWakeup
    BY <2>5 DEF GCSpuriousWakeup
  <2>6. CASE UNCHANGED vars
    BY <2>6 DEF vars
  <2> QED BY <2>1, <2>2, <2>3, <2>4, <2>5, <2>6 DEF Next
<1> QED BY <1>1, <1>2, PTL DEF Spec

-----------------------------------------------------------------------------
\* The inductive invariant holds: rtSync_lock, rtSync, dirty and isGCRunning
\* stay consistent through GC_collect and GCrunner.
THEOREM HandshakeInvariant == Spec => []HandshakeInv
<1>1. Init => LockInv /\ SyncInv /\ CollectorInv
  <2> SUFFICES ASSUME Init PROVE LockInv /\ SyncInv /\ CollectorInv
    OBVIOUS
  <2> USE ThreadFacts DEF Init
  <2>1. LockInv
    BY DEF LockInv, InHandshake, GCHoldsLock
  <2>2. SyncInv
    BY DEF SyncInv, InHandshake
  <2>3. CollectorInv
    BY DEF CollectorInv, SignalNotLost
  <2> QED BY <2>1, <2>2, <2>3
<1>2. HandshakeInv /\ [Next]_vars => (LockInv /\ SyncInv /\ CollectorInv)'
  <2> SUFFICES ASSUME HandshakeInv, [Next]_vars
               PROVE  (LockInv /\ SyncInv /\ CollectorInv)'
    OBVIOUS
  <2> DEFINE Goal == (LockInv /\ SyncInv /\ CollectorInv)'
  <2> USE ThreadFacts DEF HandshakeInv, TypeOK, LockInv, SyncInv, CollectorInv, SignalNotLost,
          InHandshake, GCHoldsLock, Goto, syncVars
  \* A step of a mutator that neither enters nor leaves the handshake.
  <2>0. ASSUME NEW t \in Mutators, NEW to \in MutatorPC,
               pc[t] \notin InHandshake, to \notin InHandshake \cup {"rtlock"},
               pc' = [pc EXCEPT ![t] = to], UNCHANGED <<rtSync_lock, syncVars>>
        PROVE  Goal
    BY <2>0 DEF MutatorPC, GCPC
  <2>1. ASSUME NEW t \in Mutators, MutatorCall(t) PROVE Goal
    <3>1. ASSUME NEW n \in Requests, CompiledCheck(t, n) PROVE Goal
      BY <2>0, <3>1 DEF CompiledCheck, CompiledReserve, MutatorPC
    <3>2. ASSUME NEW n \in Requests, ReserveAllocation(t, n) PROVE Goal
      BY <2>0, <3>2 DEF ReserveAllocation, ReserveRound, MutatorPC
    <3>3. ASSUME NEW n \in Requests, ReserveTooMuch(t, n) PROVE Goal
      BY <3>3 DEF ReserveTooMuch
    <3>4. CASE ExplicitCollect(t)
      BY <2>0, <3>4 DEF ExplicitCollect, MutatorPC
    <3> QED BY <2>1, <3>1, <3>2, <3>3, <3>4 DEF MutatorCall
  <2>2. ASSUME NEW t \in Mutators, MutatorStep(t) PROVE Goal
    <3>1. CASE CompiledRecheck(t)
      BY <2>0, <3>1 DEF CompiledRecheck, CompiledReserve, MutatorPC
    <3>2. CASE ReserveAllocationRetry(t)
      BY <2>0, <3>2 DEF ReserveAllocationRetry, ReserveRound, MutatorPC
    <3>3. ASSUME NEW k \in 1 .. maxChunksAvailable, AllocateChunks(t, k) PROVE Goal
      BY <2>0, <3>3 DEF AllocateChunks, MutatorPC
    <3>4. CASE AllocateFault(t)
      BY <3>4 DEF AllocateFault
    <3>5. CASE CollectSynced(t)
      BY <2>0, <3>5 DEF CollectSynced, AfterSync, MutatorPC
    <3>6. CASE CollectUnsynced(t)
      BY <3>6 DEF CollectUnsynced, MutatorPC, GCPC
    <3>7. CASE RTSyncLock(t)
      BY <3>7 DEF RTSyncLock, MutatorPC, GCPC
    <3>8. ASSUME NEW g \in Growths, MarkStack(t, g) PROVE Goal
      BY <3>8 DEF MarkStack, MutatorPC, GCPC
    <3>9. CASE GrowReserve(t)
      BY <3>9 DEF GrowReserve, MutatorPC, GCPC
    <3>10. CASE GrowAlloc(t)
      BY <3>10 DEF GrowAlloc, MutatorPC, GCPC
    <3>11. CASE SyncAndUnlock(t)
      <4>1. t = Main /\ ~dirty /\ ~isGCRunning /\ rtSync_lock = t
        BY <3>11 DEF SyncAndUnlock
      <4>2. /\ dirty' /\ ~isGCRunning' /\ rtSync_lock' = Nobody
            /\ \A i \in Mutators : rtSync'[i]
        BY <3>11, <4>1 DEF SyncAndUnlock
      <4>3. /\ pc'[GC] = IF pc[GC] = "asleep" THEN "signalled" ELSE pc[GC]
            /\ \A i \in Mutators \ {t} : pc'[i] = pc[i]
            /\ pc'[t] \notin InHandshake \cup {"rtlock"}
        BY <3>11, <4>1 DEF SyncAndUnlock, AfterSync, MutatorPC
      <4>4. LockInv'
        BY <4>1, <4>2, <4>3 DEF GCPC, MutatorPC
      <4>5. SyncInv'
        BY <4>1, <4>2, <4>3 DEF MutatorPC
      <4>6. CollectorInv'
        BY <4>1, <4>2, <4>3 DEF GCPC
      <4> QED BY <4>4, <4>5, <4>6
    <3>12. CASE BlockEmpty(t)
      BY <2>0, <3>12 DEF BlockEmpty, MutatorPC
    <3> QED BY <2>2, <3>1, <3>2, <3>3, <3>4, <3>5, <3>6, <3>7, <3>8, <3>9, <3>10, <3>11, <3>12
            DEF MutatorStep
  <2>3. ASSUME NEW t \in Mutators, SpuriousWakeup(t) PROVE Goal
    BY <2>0, <2>3 DEF SpuriousWakeup, MutatorPC
  <2>4. CASE GCStep
    <3>1. CASE GCLock
      BY <3>1 DEF GCLock, MutatorPC, GCPC
    <3>2. CASE GCSleep
      BY <3>2 DEF GCSleep, MutatorPC, GCPC
    <3>3. CASE GCStart
      BY <3>3 DEF GCStart, MutatorPC, GCPC
    <3>4. CASE GCSweep
      BY <3>4 DEF GCSweep, MutatorPC, GCPC
    <3>5. CASE GCFinish
      BY <3>5 DEF GCFinish, MutatorPC, GCPC
    <3>6. CASE GCBroadcast
      BY <3>6 DEF GCBroadcast, MutatorPC, GCPC
    <3> QED BY <2>4, <3>1, <3>2, <3>3, <3>4, <3>5, <3>6 DEF GCStep
  <2>5. CASE GCSpuriousWakeup
    BY <2>5 DEF GCSpuriousWakeup, MutatorPC, GCPC
  <2>6. CASE UNCHANGED vars
    BY <2>6 DEF vars
  <2> QED BY <2>1, <2>2, <2>3, <2>4, <2>5, <2>6 DEF Next
<1> QED BY <1>1, <1>2, TypeCorrect, PTL DEF Spec, HandshakeInv

\* The asserts of GC_collect and markStack never fail, and no collection runs
\* before every thread is synced, however many threads there are.
THEOREM MarkingExcludesCollecting == Spec => []MarkExcludesCollect
<1>1. HandshakeInv => MarkExcludesCollect
  BY ThreadFacts DEF HandshakeInv, TypeOK, LockInv, SyncInv, CollectorInv, MarkExcludesCollect,
     InHandshake, GCHoldsLock
<1> QED BY <1>1, HandshakeInvariant, PTL

\* The collector never sleeps through a request.
THEOREM NoLostSignal == Spec => []SignalNotLost
<1>1. HandshakeInv => SignalNotLost
  BY DEF HandshakeInv, CollectorInv
<1> QED BY <1>1, HandshakeInvariant, PTL

-----------------------------------------------------------------------------
\* GCHandshake implements GCCycle: each collection follows exactly one mark of
\* the main stack, and chunks come back only while one runs.
THEOREM ImplementsCycle == Spec => CycleSpec
<1> USE DEF Cycle!vars
<1>1. Init => Cycle!Init
  BY ThreadFacts DEF Init, Cycle!Init
<1>2. HandshakeInv /\ [Next]_vars => [Cycle!Next]_(Cycle!vars)
  <2> SUFFICES ASSUME HandshakeInv, [Next]_vars
               PROVE  [Cycle!Next]_(Cycle!vars)
    OBVIOUS
  <2> USE ThreadFacts DEF HandshakeInv, TypeOK, Goto, mutatorVars, syncVars, heapVars
  <2> DEFINE Goal == [Cycle!Next]_(Cycle!vars)
  <2>0. ASSUME fl_chunks' <= fl_chunks, UNCHANGED <<rtSync, dirty, isGCRunning>>
        PROVE  Goal
    BY <2>0 DEF Cycle!Next, Cycle!Allocate
  <2>1. ASSUME NEW t \in Mutators, MutatorCall(t) PROVE Goal
    BY <2>0, <2>1 DEF MutatorCall, CompiledCheck, ReserveAllocation, ReserveTooMuch, ExplicitCollect
  <2>2. ASSUME NEW t \in Mutators, MutatorStep(t), ~SyncAndUnlock(t) PROVE Goal
    BY <2>0, <2>2 DEF MutatorStep, CompiledRecheck, ReserveAllocationRetry, AllocateChunks,
       AllocateFault, CollectSynced, CollectUnsynced, RTSyncLock, MarkStack, GrowReserve,
       GrowAlloc, BlockEmpty
  <2>3. ASSUME NEW t \in Mutators, SyncAndUnlock(t) PROVE Goal
    <3>1. t = Main /\ ~rtSync[Main] /\ ~dirty /\ ~isGCRunning
      BY <2>3 DEF SyncAndUnlock, LockInv, SyncInv, CollectorInv, InHandshake, GCHoldsLock
    <3>2. dirty' /\ ~isGCRunning' /\ rtSync'[Main] = TRUE /\ fl_chunks' = fl_chunks
      BY <2>3, <3>1 DEF SyncAndUnlock, SyncInv
    <3> QED BY <3>1, <3>2 DEF Cycle!Next, Cycle!MarkAndRequest
  <2>4. ASSUME NEW t \in Mutators, SpuriousWakeup(t) PROVE Goal
    BY <2>0, <2>4 DEF SpuriousWakeup
  <2>5. CASE GCLock \/ GCSleep \/ GCBroadcast \/ GCSpuriousWakeup
    BY <2>0, <2>5 DEF GCLock, GCSleep, GCBroadcast, GCSpuriousWakeup
  <2>6. CASE GCStart
    BY <2>6 DEF GCStart, CollectorInv, Cycle!Next, Cycle!Start
  <2>7. CASE GCSweep
    BY <2>7 DEF GCSweep, CollectorInv, Cycle!Next, Cycle!Reclaim
  <2>8. CASE GCFinish
    <3>1. isGCRunning /\ ~isGCRunning' /\ ~dirty' /\ rtSync'[Main] = FALSE /\ fl_chunks' = fl_chunks
      BY <2>8 DEF GCFinish, CollectorInv
    <3> QED BY <3>1 DEF Cycle!Next, Cycle!Finish
  <2>9. CASE UNCHANGED vars
    BY <2>0, <2>9 DEF vars
  <2> QED BY <2>1, <2>2, <2>3, <2>4, <2>5, <2>6, <2>7, <2>8, <2>9 DEF Next, GCStep
<1> QED BY <1>1, <1>2, HandshakeInvariant, PTL DEF Spec, CycleSpec, Cycle!Spec

-----------------------------------------------------------------------------
\* Every step but the re-check of a compiled block leaves the reservations
\* covered: it keeps the difference between free and reserved chunks, only adds
\* free ones, or reserves after comparing with reserved and need together.
LEMMA StepCovers ==
  ASSUME TypeOK, ReservationsCovered, [Next]_vars, \A t \in Mutators : ~CompiledRecheck(t)
  PROVE  ReservationsCovered'
<1> USE ThreadFacts DEF TypeOK, ReservationsCovered, Goto, mutatorVars, syncVars, heapVars
<1>1. ASSUME NEW t \in Mutators, MutatorCall(t) PROVE ReservationsCovered'
  <2>1. ASSUME NEW n \in Requests, CompiledCheck(t, n) PROVE ReservationsCovered'
    BY <2>1 DEF CompiledCheck, CompiledReserve
  <2>2. ASSUME NEW n \in Requests, ReserveAllocation(t, n) PROVE ReservationsCovered'
    BY <2>2 DEF ReserveAllocation, ReserveRound
  <2>3. CASE (\E n \in Requests : ReserveTooMuch(t, n)) \/ ExplicitCollect(t)
    BY <2>3 DEF ReserveTooMuch, ExplicitCollect
  <2> QED BY <1>1, <2>1, <2>2, <2>3 DEF MutatorCall
<1>2. ASSUME NEW t \in Mutators, MutatorStep(t) PROVE ReservationsCovered'
  <2>1. CASE ReserveAllocationRetry(t)
    BY <2>1 DEF ReserveAllocationRetry, ReserveRound
  <2>2. CASE \E k \in 1 .. maxChunksAvailable : AllocateChunks(t, k)
    BY <2>2 DEF AllocateChunks
  <2>3. CASE CollectSynced(t) \/ SyncAndUnlock(t)
    BY <2>3 DEF CollectSynced, SyncAndUnlock
  <2>4. CASE GrowReserve(t) \/ GrowAlloc(t)
    BY <2>4 DEF GrowReserve, GrowAlloc
  <2>5. CASE \/ AllocateFault(t) \/ CollectUnsynced(t) \/ RTSyncLock(t) \/ BlockEmpty(t)
             \/ \E g \in Growths : MarkStack(t, g)
    BY <2>5 DEF AllocateFault, CollectUnsynced, RTSyncLock, BlockEmpty, MarkStack
  <2> QED BY <1>2, <2>1, <2>2, <2>3, <2>4, <2>5 DEF MutatorStep
<1>3. CASE GCSweep
  BY <1>3 DEF GCSweep
<1>4. CASE \/ GCLock \/ GCSleep \/ GCStart \/ GCFinish \/ GCBroadcast \/ GCSpuriousWakeup
           \/ \E t \in Mutators : SpuriousWakeup(t)
  BY <1>4 DEF GCLock, GCSleep, GCStart, GCFinish, GCBroadcast, GCSpuriousWakeup, SpuriousWakeup
<1>5. CASE UNCHANGED vars
  BY <1>5 DEF vars
<1> QED BY <1>1, <1>2, <1>3, <1>4, <1>5 DEF Next, GCStep

\* OverdrawnOnlyByRecheck: of all the ways to reserve chunks, by any number of
\* threads, only the compiled re-check reserves what is not on the free list.
THEOREM OnlyRecheckOverdraws == Spec => OverdrawnOnlyByRecheck
<1>1. TypeOK /\ [Next]_vars =>
        [ReservationsCovered /\ ~ReservationsCovered' => \E t \in Mutators : CompiledRecheck(t)]_vars
  BY StepCovers
<1> QED BY <1>1, TypeCorrect, PTL DEF Spec, OverdrawnOnlyByRecheck

\* Without compiled checks no thread ever waits in one.
LEMMA NoneCompiled ==
  ASSUME TypeOK, [Next]_vars, CompiledReservers = {}, \A t \in Mutators : site[t] # "compiled"
  PROVE  \A t \in Mutators : site'[t] # "compiled"
<1> USE DEF TypeOK, mutatorVars
<1>1. ASSUME NEW t \in Mutators, MutatorCall(t) PROVE \A u \in Mutators : site'[u] # "compiled"
  BY <1>1 DEF MutatorCall, CompiledCheck, ReserveAllocation, ReserveRound, ReserveTooMuch, ExplicitCollect
<1>2. ASSUME NEW t \in Mutators, MutatorStep(t) PROVE \A u \in Mutators : site'[u] # "compiled"
  <2>1. CASE CollectSynced(t) \/ SyncAndUnlock(t)
    BY <2>1 DEF CollectSynced, SyncAndUnlock, SiteAfterSync
  <2>2. CASE ReserveAllocationRetry(t)
    BY <2>2 DEF ReserveAllocationRetry, ReserveRound
  <2>3. CASE ~(CollectSynced(t) \/ SyncAndUnlock(t) \/ ReserveAllocationRetry(t))
    BY <1>2, <2>3 DEF MutatorStep, CompiledRecheck, AllocateChunks, AllocateFault, CollectUnsynced, RTSyncLock,
       MarkStack, GrowReserve, GrowAlloc, BlockEmpty
  <2> QED BY <2>1, <2>2, <2>3
<1>3. CASE \/ GCStep \/ GCSpuriousWakeup \/ UNCHANGED vars
           \/ \E t \in Mutators : SpuriousWakeup(t)
  BY <1>3 DEF GCStep, GCLock, GCSleep, GCStart, GCSweep, GCFinish, GCBroadcast, GCSpuriousWakeup, SpuriousWakeup,
     vars
<1> QED BY <1>1, <1>2, <1>3 DEF Next

\* reserveAllocation is sound for any number of threads: if no thread goes
\* through a compiled check, every reserved chunk is on the free list.
THEOREM RuntimeReservationsCovered ==
  ASSUME CompiledReservers = {} PROVE Spec => []ReservationsCovered
<1> DEFINE NoCompiled == \A t \in Mutators : site[t] # "compiled"
<1>1. Init => ReservationsCovered /\ NoCompiled
  BY DEF Init, ReservationsCovered
<1>2. TypeOK /\ ReservationsCovered /\ NoCompiled /\ [Next]_vars
        => ReservationsCovered' /\ NoCompiled'
  BY StepCovers, NoneCompiled DEF CompiledRecheck
<1> QED BY <1>1, <1>2, TypeCorrect, PTL DEF Spec

-----------------------------------------------------------------------------
\* threadsBlockedForGC counts no thread but the main one, and that at most
\* once per cycle, for any number of real-time threads.
THEOREM CountsOnlyMain == Spec => []OnlyMainCounted
<1>1. Init => OnlyMainCounted
  BY ThreadFacts DEF Init, OnlyMainCounted
<1>2. HandshakeInv /\ OnlyMainCounted /\ [Next]_vars => OnlyMainCounted'
  <2> SUFFICES ASSUME HandshakeInv, OnlyMainCounted, [Next]_vars PROVE OnlyMainCounted'
    OBVIOUS
  <2> USE ThreadFacts DEF HandshakeInv, TypeOK, OnlyMainCounted, syncVars
  <2>0. ASSUME UNCHANGED <<rtSync, threadsBlockedForGC>> PROVE OnlyMainCounted'
    BY <2>0
  <2>1. ASSUME NEW t \in Mutators, MutatorCall(t) PROVE OnlyMainCounted'
    BY <2>0, <2>1 DEF MutatorCall, CompiledCheck, ReserveAllocation, ReserveTooMuch, ExplicitCollect
  <2>2. ASSUME NEW t \in Mutators, MutatorStep(t), ~SyncAndUnlock(t) PROVE OnlyMainCounted'
    BY <2>0, <2>2 DEF MutatorStep, CompiledRecheck, ReserveAllocationRetry, AllocateChunks,
       AllocateFault, CollectSynced, CollectUnsynced, RTSyncLock, MarkStack, GrowReserve,
       GrowAlloc, BlockEmpty
  \* Only an unsynced thread gets to the end of the handshake, and only the
  \* main thread is ever unsynced.
  <2>3. ASSUME NEW t \in Mutators, SyncAndUnlock(t) PROVE OnlyMainCounted'
    <3>1. t = Main /\ ~rtSync[Main]
      BY <2>3 DEF SyncAndUnlock, SyncInv, InHandshake
    <3>2. rtSync'[Main] /\ threadsBlockedForGC' <= 1
      BY <2>3, <3>1 DEF SyncAndUnlock
    <3> QED BY <3>2
  <2>4. CASE GCFinish
    BY <2>4 DEF GCFinish
  <2>5. CASE \/ GCLock \/ GCSleep \/ GCStart \/ GCSweep \/ GCBroadcast \/ GCSpuriousWakeup
             \/ \E t \in Mutators : SpuriousWakeup(t)
    BY <2>0, <2>5 DEF GCLock, GCSleep, GCStart, GCSweep, GCBroadcast, GCSpuriousWakeup, SpuriousWakeup
  <2>6. CASE UNCHANGED vars
    BY <2>0, <2>6 DEF vars
  <2> QED BY <2>1, <2>2, <2>3, <2>4, <2>5, <2>6 DEF Next, GCStep
<1> QED BY <1>1, <1>2, HandshakeInvariant, PTL DEF Spec

\* GCrunner has counted no cycle in which every mutator was blocked.
NoAttemptCounted == attempts = 0

\* With two real-time threads or more (realtime_thread.h has four) GCrunner's
\* test for exhausted memory, threadsBlockedForGC == MAXPRI - 2, never
\* succeeds: it never counts an attempt, and so never gives up.
THEOREM ExhaustionUndetected ==
  ASSUME MAXPRI >= 4 PROVE Spec => []NoAttemptCounted
<1>1. Init => NoAttemptCounted
  BY DEF Init, NoAttemptCounted
<1>2. TypeOK /\ OnlyMainCounted /\ NoAttemptCounted /\ [Next]_vars => NoAttemptCounted'
  <2> SUFFICES ASSUME TypeOK, OnlyMainCounted, attempts = 0, [Next]_vars PROVE attempts' = 0
    BY DEF NoAttemptCounted
  <2> USE DEF syncVars
  <2>1. ASSUME NEW t \in Mutators, MutatorCall(t) PROVE attempts' = attempts
    BY <2>1 DEF MutatorCall, CompiledCheck, ReserveAllocation, ReserveTooMuch, ExplicitCollect
  <2>2. ASSUME NEW t \in Mutators, MutatorStep(t) PROVE attempts' = attempts
    BY <2>2 DEF MutatorStep, CompiledRecheck, ReserveAllocationRetry, AllocateChunks,
       AllocateFault, CollectSynced, CollectUnsynced, RTSyncLock, MarkStack, GrowReserve,
       GrowAlloc, SyncAndUnlock, BlockEmpty
  <2>3. CASE GCStart
    <3>1. threadsBlockedForGC # MAXPRI - 2
      BY DEF TypeOK, OnlyMainCounted
    <3> QED BY <2>3, <3>1 DEF GCStart
  <2>4. CASE \/ GCLock \/ GCSleep \/ GCSweep \/ GCFinish \/ GCBroadcast \/ GCSpuriousWakeup
             \/ \E t \in Mutators : SpuriousWakeup(t)
    BY <2>4 DEF GCLock, GCSleep, GCSweep, GCFinish, GCBroadcast, GCSpuriousWakeup, SpuriousWakeup
  <2>5. CASE UNCHANGED vars
    BY <2>5 DEF vars
  <2> QED BY <2>1, <2>2, <2>3, <2>4, <2>5 DEF Next, GCStep
<1> QED BY <1>1, <1>2, TypeCorrect, CountsOnlyMain, PTL DEF Spec

-----------------------------------------------------------------------------
\* A thread holds a reservation while it allocates, and from a compiled check
\* through the collection its heuristic branch asks for; for the growth of
\* the stack it marks, from the reservation to the allocation.
HoldsNeed(t) == \/ pc[t] = "alloc"
                \/ site[t] = "heuristic" /\ pc[t] \in {"collect", "rtlock"} \cup InHandshake

Held == [t \in Mutators |-> (IF HoldsNeed(t) THEN need[t] ELSE 0)
                              + (IF pc[t] = "growalloc" THEN grow ELSE 0)]

\* The counter reserved is exactly what the threads hold between them.
Ledger == \E f : Sums(f, Held, Mutators) /\ reserved = f[Mutators]

\* A step in which one thread's holdings and the counter change by the same
\* amount keeps the ledger.
LEMMA LedgerStep ==
  ASSUME TypeOK, TypeOK', Ledger, NEW t \in Mutators,
         \A u \in Mutators \ {t} : Held'[u] = Held[u],
         reserved' - reserved = Held'[t] - Held[t]
  PROVE  Ledger'
<1>1. PICK f : Sums(f, Held, Mutators) /\ reserved = f[Mutators]
  BY DEF Ledger
<1>2. Held \in [Mutators -> Nat] /\ Held' \in [Mutators -> Nat]
  BY DEF Held, TypeOK
<1>3. PICK g : Sums(g, Held', Mutators) /\ g[Mutators] = f[Mutators] - Held[t] + Held'[t]
  <2> HIDE DEF Held
  <2> QED BY <1>1, <1>2, SumUpdate
<1>4. reserved' = g[Mutators]
  <2>1. Held[t] \in Nat /\ Held'[t] \in Nat /\ reserved \in Int /\ reserved' \in Int
    BY <1>2 DEF TypeOK
  <2> QED BY <1>1, <1>3, <2>1
<1> QED BY <1>3, <1>4 DEF Ledger

\* Every reservation is entered in the counter when it is made, survives the
\* collections in between and is given back chunk by chunk, in all threads.
THEOREM ReservedIsHeld == Spec => []Ledger
<1>1. Init => Ledger
  <2> SUFFICES ASSUME Init PROVE Ledger
    OBVIOUS
  <2>1. \A t \in Mutators : Held[t] = 0
    BY ThreadFacts DEF Init, Held, HoldsNeed, InHandshake
  <2>2. \E f : Sums(f, Held, Mutators) /\ f[Mutators] = 0
    BY <2>1, SumZero
  <2> QED BY <2>2 DEF Init, Ledger
<1>2. HandshakeInv /\ TypeOK' /\ Ledger /\ [Next]_vars => Ledger'
  <2> SUFFICES ASSUME HandshakeInv, TypeOK', Ledger, [Next]_vars PROVE Ledger'
    OBVIOUS
  <2> TypeOK
    BY DEF HandshakeInv
  \* A step of one thread.
  <2> DEFINE Pays(t) == /\ \A u \in Mutators \ {t} : Held'[u] = Held[u]
                        /\ reserved' - reserved = Held'[t] - Held[t]
  \* Nobody's holdings change.
  <2>0. ASSUME UNCHANGED <<Held, reserved>> PROVE Ledger'
    BY <2>0 DEF Ledger
  <2>1. ASSUME NEW t \in Mutators, MutatorCall(t) PROVE Ledger'
    <3> USE ThreadFacts DEF TypeOK, Held, HoldsNeed, Goto, InHandshake, mutatorVars, heapVars
    <3>1. ASSUME NEW n \in Requests, CompiledCheck(t, n) PROVE Pays(t)
      BY <3>1 DEF CompiledCheck, CompiledReserve
    <3>2. ASSUME NEW n \in Requests, ReserveAllocation(t, n) PROVE Pays(t)
      BY <3>2 DEF ReserveAllocation, ReserveRound
    <3>3. ASSUME NEW n \in Requests, ReserveTooMuch(t, n) PROVE Pays(t)
      BY <3>3 DEF ReserveTooMuch
    <3>4. CASE ExplicitCollect(t)
      <4>1. Pays(t)
        BY <3>4 DEF ExplicitCollect
      <4> QED BY <4>1, LedgerStep
    <3> QED BY <2>1, <3>1, <3>2, <3>3, <3>4, LedgerStep DEF MutatorCall
  <2>2. ASSUME NEW t \in Mutators, MutatorStep(t) PROVE Ledger'
    <3> USE ThreadFacts DEF TypeOK, Held, HoldsNeed, Goto, InHandshake, mutatorVars, heapVars
    <3>1. CompiledRecheck(t) => Pays(t)
      BY DEF CompiledRecheck, CompiledReserve
    <3>2. ReserveAllocationRetry(t) => Pays(t)
      BY DEF ReserveAllocationRetry, ReserveRound
    <3>3. ASSUME NEW k \in 1 .. maxChunksAvailable, AllocateChunks(t, k) PROVE Pays(t)
      BY <3>3 DEF AllocateChunks
    <3>4. AllocateFault(t) => Pays(t)
      BY DEF AllocateFault
    <3>5. CollectSynced(t) => Pays(t)
      BY DEF CollectSynced, AfterSync, SiteAfterSync, Forced
    <3>6. CollectUnsynced(t) => Pays(t)
      BY DEF CollectUnsynced
    <3>7. RTSyncLock(t) => Pays(t)
      BY DEF RTSyncLock
    \* grow is of the thread that holds rtSync_lock, so nobody else's
    \* holdings depend on it.
    <3>8. ASSUME pc[t] \in InHandshake
          PROVE  \A u \in Mutators \ {t} : pc[u] # "growalloc"
      BY <3>8 DEF HandshakeInv, LockInv
    <3>9. ASSUME NEW g \in Growths, MarkStack(t, g) PROVE Pays(t)
      BY <3>8, <3>9 DEF MarkStack
    <3>10. GrowReserve(t) => Pays(t)
      BY <3>8 DEF GrowReserve
    <3>11. GrowAlloc(t) => Pays(t)
      BY DEF GrowAlloc
    <3>12. ASSUME SyncAndUnlock(t) PROVE Pays(t)
      <4>1. \A u \in Mutators \ {t} : pc'[u] = pc[u] /\ site'[u] = site[u] /\ need'[u] = need[u]
        BY <3>12 DEF SyncAndUnlock, SiteAfterSync
      <4>2. \A u \in Mutators \ {t} : Held'[u] = Held[u]
        BY <3>8, <3>12, <4>1 DEF SyncAndUnlock
      <4>3. pc'[t] = AfterSync(t) /\ site' = SiteAfterSync(t) /\ pc[t] = "sync"
        BY <3>12 DEF SyncAndUnlock
      <4>4. Held'[t] = Held[t]
        BY <3>12, <4>3 DEF SyncAndUnlock, AfterSync, SiteAfterSync, Forced
      <4> QED BY <3>12, <4>2, <4>4 DEF SyncAndUnlock
    <3>13. BlockEmpty(t) => Pays(t)
      BY DEF BlockEmpty
    <3>14. Pays(t)
      <4> HIDE DEF Pays
      <4> QED BY <2>2, <3>1, <3>2, <3>3, <3>4, <3>5, <3>6, <3>7, <3>9, <3>10, <3>11, <3>12, <3>13
              DEF MutatorStep
    <3> QED BY <3>14, LedgerStep
  <2>3. ASSUME NEW t \in Mutators, SpuriousWakeup(t) PROVE Ledger'
    <3>1. Pays(t)
      BY <2>3 DEF SpuriousWakeup, TypeOK, Held, HoldsNeed, Goto, InHandshake, mutatorVars, heapVars
    <3> QED BY <3>1, LedgerStep
  <2>4. CASE GCStep \/ GCSpuriousWakeup \/ UNCHANGED vars
    <3>1. UNCHANGED <<need, grow, site, reserved>>
      BY <2>4 DEF GCStep, GCLock, GCSleep, GCStart, GCSweep, GCFinish, GCBroadcast,
         GCSpuriousWakeup, mutatorVars, heapVars, vars
    <3>2. \A t \in Mutators : pc'[t] = pc[t] \/ (pc[t] = "waiting" /\ pc'[t] = "woken")
      BY <2>4, ThreadFacts DEF GCStep, GCLock, GCSleep, GCStart, GCSweep, GCFinish, GCBroadcast,
         GCSpuriousWakeup, Goto, TypeOK, vars
    <3>3. Held' = Held
      BY <3>1, <3>2 DEF Held, HoldsNeed, InHandshake
    <3> QED BY <2>0, <3>1, <3>3
  <2> QED BY <2>1, <2>2, <2>3, <2>4 DEF Next
<1> QED BY <1>1, <1>2, HandshakeInvariant, TypeCorrect, PTL DEF Spec

\* allocateChunks' assertion holds in every thread, whatever the other threads
\* reserve, allocate or grow their stacks by meanwhile.
THEOREM AllocationsBacked == Spec => []AllocationBacked
<1>1. TypeOK /\ Ledger => AllocationBacked
  <2> SUFFICES ASSUME TypeOK, Ledger, NEW t \in Mutators, pc[t] = "alloc"
               PROVE  need[t] <= reserved
    BY DEF AllocationBacked
  <2>1. PICK f : Sums(f, Held, Mutators) /\ reserved = f[Mutators]
    BY DEF Ledger
  <2>2. Held[t] = need[t] /\ Held[t] \in Nat
    BY DEF Held, HoldsNeed, TypeOK
  <2> HIDE DEF Held
  <2> QED BY <2>1, <2>2, SumBound
<1> QED BY <1>1, ReservedIsHeld, TypeCorrect, PTL

-----------------------------------------------------------------------------
\* Nobody but the main thread asks for chunks; the others may ask for
\* collections.  What the main thread holds is all there is in reserved, so
\* reserved is 0 where gc-check.fun's second test leaves it out.
MainOnly ==
  /\ \A t \in Mutators \ {Main} : pc[t] \in {"run", "collect"} /\ site[t] \in {"none", "explicit"}
  /\ reserved = Held[Main]
  /\ ReservationsCovered

\* As long as the main thread alone reserves chunks, through compiled checks
\* and through reserveAllocation, every reserved chunk is on the free list.
THEOREM MainReservationsCovered ==
  ASSUME CompiledReservers \subseteq {Main}, RuntimeReservers \subseteq {Main}
  PROVE  Spec => []ReservationsCovered
<1>1. Init => MainOnly
  BY ThreadFacts DEF Init, MainOnly, Held, HoldsNeed, InHandshake, ReservationsCovered
<1>2. HandshakeInv /\ MainOnly /\ [Next]_vars => MainOnly'
  <2> SUFFICES ASSUME HandshakeInv, MainOnly, [Next]_vars PROVE MainOnly'
    OBVIOUS
  <2> USE ThreadFacts DEF MainOnly, ReservationsCovered, TypeOK, Goto, Held, HoldsNeed,
          InHandshake, mutatorVars, syncVars, heapVars
  <2> TypeOK
    BY DEF HandshakeInv
  <2>1. ASSUME NEW t \in Mutators, MutatorCall(t) PROVE MainOnly'
    <3>1. ASSUME NEW n \in Requests, CompiledCheck(t, n) PROVE MainOnly'
      BY <3>1 DEF CompiledCheck, CompiledReserve
    <3>2. ASSUME NEW n \in Requests, ReserveAllocation(t, n) PROVE MainOnly'
      BY <3>2 DEF ReserveAllocation, ReserveRound
    <3>3. ASSUME NEW n \in Requests, ReserveTooMuch(t, n) PROVE MainOnly'
      BY <3>3 DEF ReserveTooMuch
    <3>4. CASE ExplicitCollect(t)
      BY <3>4 DEF ExplicitCollect
    <3> QED BY <2>1, <3>1, <3>2, <3>3, <3>4 DEF MutatorCall
  \* A real-time thread does nothing but come back from GC_collect.
  <2>2. ASSUME NEW t \in Mutators \ {Main}, MutatorStep(t) PROVE MainOnly'
    <3>1. pc[t] \in {"run", "collect"} /\ site[t] \in {"none", "explicit"} /\ rtSync[t]
      BY DEF HandshakeInv, SyncInv
    <3>2. CollectSynced(t)
      BY <2>2, <3>1 DEF MutatorStep, CompiledRecheck, ReserveAllocationRetry, AllocateChunks,
         AllocateFault, CollectUnsynced, RTSyncLock, MarkStack, GrowReserve, GrowAlloc,
         SyncAndUnlock, BlockEmpty
    <3> QED BY <3>1, <3>2 DEF CollectSynced, AfterSync, SiteAfterSync, Forced
  <2>3. CASE MutatorStep(Main)
    <3>1. CASE CompiledRecheck(Main)
      BY <3>1 DEF CompiledRecheck, CompiledReserve
    <3>2. CASE ReserveAllocationRetry(Main)
      BY <3>2 DEF ReserveAllocationRetry, ReserveRound
    <3>3. ASSUME NEW k \in 1 .. maxChunksAvailable, AllocateChunks(Main, k) PROVE MainOnly'
      BY <3>3 DEF AllocateChunks
    <3>4. CASE AllocateFault(Main)
      BY <3>4 DEF AllocateFault
    <3>5. CASE CollectSynced(Main)
      BY <3>5 DEF CollectSynced, AfterSync, SiteAfterSync, Forced
    <3>6. CASE CollectUnsynced(Main) \/ RTSyncLock(Main) \/ BlockEmpty(Main)
      BY <3>6 DEF CollectUnsynced, RTSyncLock, BlockEmpty
    <3>7. ASSUME NEW g \in Growths, MarkStack(Main, g) PROVE MainOnly'
      BY <3>7 DEF MarkStack
    <3>8. CASE GrowReserve(Main)
      BY <3>8 DEF GrowReserve
    <3>9. CASE GrowAlloc(Main)
      BY <3>9 DEF GrowAlloc
    <3>10. CASE SyncAndUnlock(Main)
      <4>1. \A u \in Mutators \ {Main} : pc'[u] = pc[u] /\ site'[u] = site[u]
        BY <3>10 DEF SyncAndUnlock, SiteAfterSync
      <4>2. pc'[Main] = AfterSync(Main) /\ site' = SiteAfterSync(Main) /\ pc[Main] = "sync"
        BY <3>10 DEF SyncAndUnlock
      <4>3. Held'[Main] = Held[Main]
        BY <3>10, <4>2 DEF SyncAndUnlock, AfterSync, SiteAfterSync, Forced
      <4>4. UNCHANGED <<reserved, fl_chunks>>
        BY <3>10 DEF SyncAndUnlock
      <4> HIDE DEF Held, Goto, HoldsNeed
      <4> QED BY <4>1, <4>3, <4>4
    <3> QED BY <2>3, <3>1, <3>2, <3>3, <3>4, <3>5, <3>6, <3>7, <3>8, <3>9, <3>10 DEF MutatorStep
  <2>4. ASSUME NEW t \in Mutators, SpuriousWakeup(t) PROVE MainOnly'
    BY <2>4 DEF SpuriousWakeup
  <2>5. CASE GCStep \/ GCSpuriousWakeup \/ UNCHANGED vars
    <3>1. UNCHANGED <<need, grow, site, reserved>> /\ fl_chunks' \in Nat /\ fl_chunks' >= fl_chunks
      BY <2>5 DEF GCStep, GCLock, GCSleep, GCStart, GCSweep, GCFinish, GCBroadcast,
         GCSpuriousWakeup, vars
    <3>2. \A t \in Mutators : pc'[t] = pc[t] \/ (pc[t] = "waiting" /\ pc'[t] = "woken")
      BY <2>5 DEF GCStep, GCLock, GCSleep, GCStart, GCSweep, GCFinish, GCBroadcast,
         GCSpuriousWakeup, vars
    <3>3. Held'[Main] = Held[Main]
      BY <3>1, <3>2
    <3>4. \A t \in Mutators \ {Main} : pc'[t] \in {"run", "collect"} /\ site'[t] \in {"none", "explicit"}
      BY <3>1, <3>2
    <3> HIDE DEF Held, Goto, HoldsNeed
    <3> QED BY <3>1, <3>3, <3>4
  <2> QED BY <2>1, <2>2, <2>3, <2>4, <2>5 DEF Next
<1>3. MainOnly => ReservationsCovered
  BY DEF MainOnly
<1> QED BY <1>1, <1>2, <1>3, HandshakeInvariant, PTL DEF Spec

\* allocNextChunk never finds the free list empty: what a thread is about to
\* take is there.  AllocateFault is exactly the negation.
ChunksThere ==
  \A t \in Mutators : /\ pc[t] = "alloc" => need[t] <= fl_chunks
                      /\ pc[t] = "growalloc" => grow <= fl_chunks

\* Reservation by counting is enough: if either no thread runs compiled checks
\* or the main thread alone reserves, no allocation dereferences a NULL
\* fl_head, although the counter never says whose chunks are reserved.
THEOREM NoEmptyFreeList ==
  ASSUME \/ CompiledReservers = {}
         \/ CompiledReservers \subseteq {Main} /\ RuntimeReservers \subseteq {Main}
  PROVE  Spec => []ChunksThere
<1>1. TypeOK /\ Ledger /\ ReservationsCovered => ChunksThere
  <2> SUFFICES ASSUME TypeOK, Ledger, ReservationsCovered, NEW t \in Mutators
               PROVE  /\ pc[t] = "alloc" => need[t] <= fl_chunks
                      /\ pc[t] = "growalloc" => grow <= fl_chunks
    BY DEF ChunksThere
  <2>1. PICK f : Sums(f, Held, Mutators) /\ reserved = f[Mutators]
    BY DEF Ledger
  <2>2. /\ Held[t] \in Nat
        /\ pc[t] = "alloc" => Held[t] = need[t]
        /\ pc[t] = "growalloc" => grow <= Held[t]
    BY DEF Held, HoldsNeed, TypeOK
  <2>3. Held[t] <= reserved
    <3> HIDE DEF Held
    <3> QED BY <2>1, <2>2, SumBound
  <2> HIDE DEF Held
  <2> QED BY <2>2, <2>3 DEF TypeOK, ReservationsCovered
<1>2. Spec => []ReservationsCovered
  BY RuntimeReservationsCovered, MainReservationsCovered
<1> QED BY <1>1, <1>2, ReservedIsHeld, TypeCorrect, PTL
=============================================================================
