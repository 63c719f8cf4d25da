----------------------------- MODULE GCHandshake -----------------------------
(***************************************************************************)
(* How mutators and the collector thread of the RTMLton runtime meet.      *)
(*                                                                         *)
(* A mutator that needs heap chunks first reserves them, either in the     *)
(* check the compiler puts before a basic block (gc-check.fun) or in       *)
(* reserveAllocation (um.c).  When the free list is too short it calls     *)
(* GC_collect, which marks the caller's stack under rtSync_lock, signals   *)
(* the collector once every thread is synced, and waits on fl_empty_cond   *)
(* until the collector broadcasts.  GCrunner is the collector's loop.      *)
(*                                                                         *)
(* Thread 0 is the main thread, thread 1 the collector, threads            *)
(* 2 .. MAXPRI-1 the real-time threads.  Code protected by fl_lock alone   *)
(* never blocks, so each such section is one step; rtSync_lock is held     *)
(* across several steps and is modelled by its owner.  Chunks are counted, *)
(* not named: the free list itself is the subject of UMHeap.               *)
(***************************************************************************)
EXTENDS Integers

CONSTANTS
  MAXPRI,              \* number of threads, the collector included
  maxChunksAvailable,  \* chunks in the heap
  heuristicChunks,     \* below this many free chunks a collection is hinted
  Requests,            \* sizes a mutator may ask for
  Growths,             \* sizes markStack's maybe_growstack may ask for; 0: none
  CompiledReservers,   \* threads that run compiler-inserted checks
  RuntimeReservers,    \* threads that call reserveAllocation
  SpuriousWakeups      \* may pthread_cond_wait return without a signal

GC   == 1
Main == 0
Mutators == (0 .. MAXPRI - 1) \ {GC}
Threads  == 0 .. MAXPRI - 1
Nobody   == MAXPRI      \* "no owner" of rtSync_lock

ASSUME ConstantsAssumption ==
  /\ MAXPRI \in Nat /\ MAXPRI >= 2
  /\ maxChunksAvailable \in Nat /\ heuristicChunks \in Nat
  /\ Requests \subseteq Nat \ {0}
  /\ Growths \subseteq 0 .. maxChunksAvailable
  /\ CompiledReservers \subseteq Mutators
  /\ RuntimeReservers \subseteq Mutators
  /\ SpuriousWakeups \in BOOLEAN

VARIABLES
  pc,                  \* where each thread is
  site,                \* who called GC_collect, per mutator
  need,                \* chunks the mutator asked for (and holds in "alloc")
  grow,                \* chunks the stack marked under rtSync_lock grows by
  rtSync_lock,         \* owner of the mutex, or Nobody
  rtSync,              \* has the thread's stack been marked for this cycle
  dirty,               \* a collection was requested
  isGCRunning,
  threadsBlockedForGC,
  attempts,            \* consecutive cycles in which everybody was blocked
  fl_chunks,           \* length of the free list
  reserved,            \* reserved but not yet allocated
  stackChunks,         \* chunks given to stacks since boot
  died                 \* the process has ended: die(), or a fault

mutatorVars == <<site, need, grow>>
syncVars    == <<rtSync, dirty, isGCRunning, threadsBlockedForGC, attempts>>
heapVars    == <<fl_chunks, reserved, stackChunks>>
vars == <<pc, mutatorVars, rtSync_lock, syncVars, heapVars, died>>

-----------------------------------------------------------------------------
MutatorPC == {"run", "collect", "rtlock", "marking", "grow", "growalloc",
              "relock", "sync", "block", "waiting", "woken", "alloc"}
GCPC      == {"idle", "test", "asleep", "signalled", "collecting",
              "finishing", "broadcast"}
Sites     == {"none", "compiled", "runtime", "heuristic", "explicit"}

\* GC_collect's argument force: reserveAllocation and the blocking branch of
\* the compiled check pass true, the heuristic branch and MLton.GC.collect
\* pass false.
Forced(t) == site[t] \in {"compiled", "runtime"}

Goto(t, from, to) == /\ ~died
                     /\ pc[t] = from
                     /\ pc' = [pc EXCEPT ![t] = to]

\* init.c: the real-time threads count as synced for ever.
Init ==
  /\ pc = [t \in Threads |-> IF t = GC THEN "idle" ELSE "run"]
  /\ site = [t \in Mutators |-> "none"]
  /\ need = [t \in Mutators |-> 0]
  /\ grow = 0
  /\ rtSync_lock = Nobody
  /\ rtSync = [t \in Threads |-> t \notin {Main, GC}]
  /\ dirty = FALSE
  /\ isGCRunning = FALSE
  /\ threadsBlockedForGC = 0
  /\ attempts = 0
  /\ fl_chunks = maxChunksAvailable
  /\ reserved = 0
  /\ stackChunks = 0
  /\ died = FALSE

-----------------------------------------------------------------------------
(* Reserving and allocating chunks.                                        *)

\* The successful end of a compiled check, entered with fl_lock held: reserve
\* the block's chunks, then hint a collection if the free list is short.
CompiledReserve(t, from, n) ==
  /\ reserved' = reserved + n
  /\ \/ /\ fl_chunks < heuristicChunks
        /\ Goto(t, from, "collect")
        /\ site' = [site EXCEPT ![t] = "heuristic"]
     \/ /\ fl_chunks >= heuristicChunks
        /\ Goto(t, from, "alloc")
        /\ site' = [site EXCEPT ![t] = "none"]

\* gc-check.fun: the check in front of a basic block that allocates n chunks.
CompiledCheck(t, n) ==
  /\ t \in CompiledReservers
  /\ n <= maxChunksAvailable
  /\ need' = [need EXCEPT ![t] = n]
  /\ \/ /\ fl_chunks < reserved + n
        /\ Goto(t, "run", "collect")
        /\ site' = [site EXCEPT ![t] = "compiled"]
        /\ UNCHANGED reserved
     \/ /\ fl_chunks >= reserved + n
        /\ CompiledReserve(t, "run", n)
  /\ UNCHANGED <<grow, rtSync_lock, syncVars, fl_chunks, stackChunks, died>>

\* The same check after GC_collect returned: gc-check.fun compares with the
\* block's own need only, not with what others have reserved.
CompiledRecheck(t) ==
  /\ pc[t] = "woken" /\ site[t] = "compiled"
  /\ \/ /\ fl_chunks < need[t]
        /\ Goto(t, "woken", "collect")
        /\ UNCHANGED <<site, reserved>>
     \/ /\ fl_chunks >= need[t]
        /\ CompiledReserve(t, "woken", need[t])
  /\ UNCHANGED <<need, grow, rtSync_lock, syncVars, fl_chunks, stackChunks, died>>

\* One round of reserveAllocation's loop, from its entry or after a wake-up.
ReserveRound(t, from, n) ==
  \/ /\ fl_chunks < reserved + n
     /\ Goto(t, from, "collect")
     /\ site' = [site EXCEPT ![t] = "runtime"]
     /\ UNCHANGED reserved
  \/ /\ fl_chunks >= reserved + n
     /\ Goto(t, from, "alloc")
     /\ site' = [site EXCEPT ![t] = "none"]
     /\ reserved' = reserved + n

\* reserveAllocation: arrays, threads, stacks and weak pointers.
ReserveAllocation(t, n) ==
  /\ t \in RuntimeReservers
  /\ n <= maxChunksAvailable
  /\ need' = [need EXCEPT ![t] = n]
  /\ ReserveRound(t, "run", n)
  /\ UNCHANGED <<grow, rtSync_lock, syncVars, fl_chunks, stackChunks, died>>

ReserveAllocationRetry(t) ==
  /\ pc[t] = "woken" /\ site[t] = "runtime"
  /\ ReserveRound(t, "woken", need[t])
  /\ UNCHANGED <<need, grow, rtSync_lock, syncVars, fl_chunks, stackChunks, died>>

\* reserveAllocation refuses what the whole heap could not satisfy.
ReserveTooMuch(t, n) ==
  /\ t \in RuntimeReservers /\ pc[t] = "run" /\ ~died
  /\ n > maxChunksAvailable
  /\ died' = TRUE
  /\ UNCHANGED <<pc, mutatorVars, rtSync_lock, syncVars, heapVars>>

\* Mutated form: the first object gives back the whole reservation.
AllocateChunks_returnsAll(t, k) ==
  /\ k \in 1 .. need[t] /\ k <= fl_chunks
  /\ Goto(t, "alloc", IF k = need[t] THEN "run" ELSE "alloc")
  /\ need' = [need EXCEPT ![t] = @ - k]
  /\ fl_chunks' = fl_chunks - k
  /\ reserved' = reserved - need[t]
  /\ UNCHANGED <<site, grow, rtSync_lock, syncVars, stackChunks, died>>

\* allocateChunks: k of the reserved chunks become an object.  Each
\* allocNextChunk takes one from the free list and one from the reservation.
AllocateChunks(t, k) ==
  /\ k \in 1 .. need[t] /\ k <= fl_chunks
  /\ Goto(t, "alloc", IF k = need[t] THEN "run" ELSE "alloc")
  /\ need' = [need EXCEPT ![t] = @ - k]
  /\ fl_chunks' = fl_chunks - k
  /\ reserved' = reserved - k
  /\ UNCHANGED <<site, grow, rtSync_lock, syncVars, stackChunks, died>>

\* allocNextChunk dereferences fl_head without looking: on an empty free list
\* the process faults.
AllocateFault(t) ==
  /\ ~died
  /\ \/ pc[t] = "alloc" /\ fl_chunks < need[t]
     \/ pc[t] = "growalloc" /\ fl_chunks < grow
  /\ died' = TRUE
  /\ UNCHANGED <<pc, mutatorVars, rtSync_lock, syncVars, heapVars>>

-----------------------------------------------------------------------------
(* GC_collect.                                                             *)

\* MLton.GC.collect, compiled to GC_collect(s, 0, false, true) by
\* ssa-to-rssa.fun:1235-1243: a collection is asked for, nothing waited for.
ExplicitCollect(t) ==
  /\ Goto(t, "run", "collect")
  /\ site' = [site EXCEPT ![t] = "explicit"]
  /\ UNCHANGED <<need, grow, rtSync_lock, syncVars, heapVars, died>>

\* Where control goes when GC_collect is through with rtSync_lock.
AfterSync(t) == IF Forced(t) THEN "block"
                ELSE IF site[t] = "heuristic" THEN "alloc" ELSE "run"

SiteAfterSync(t) == IF Forced(t) THEN site ELSE [site EXCEPT ![t] = "none"]

\* A thread whose stack counts as marked skips the handshake.  The flag is
\* read without a lock.
CollectSynced(t) ==
  /\ rtSync[t]
  /\ Goto(t, "collect", AfterSync(t))
  /\ site' = SiteAfterSync(t)
  /\ UNCHANGED <<need, grow, rtSync_lock, syncVars, heapVars, died>>

CollectUnsynced(t) ==
  /\ ~rtSync[t]
  /\ Goto(t, "collect", "rtlock")
  /\ UNCHANGED <<mutatorVars, rtSync_lock, syncVars, heapVars, died>>

RTSyncLock(t) ==
  /\ rtSync_lock = Nobody
  /\ Goto(t, "rtlock", "marking")
  /\ rtSync_lock' = t
  /\ UNCHANGED <<mutatorVars, syncVars, heapVars, died>>

\* markStack; its last act, maybe_growstack, may want more chunks.
MarkStack(t, g) ==
  /\ Goto(t, "marking", IF g = 0 THEN "sync" ELSE "grow")
  /\ grow' = g
  /\ UNCHANGED <<site, need, rtSync_lock, syncVars, heapVars, died>>

\* Mutated form: the stack grows by chunks reserved for somebody else.
GrowReserve_ignoresReserved(t) ==
  /\ fl_chunks >= grow
  /\ Goto(t, "grow", "growalloc")
  /\ reserved' = reserved + grow
  /\ UNCHANGED <<mutatorVars, rtSync_lock, syncVars, fl_chunks, stackChunks, died>>

\* maybe_growstack's reserveAllocation, with rtSync_lock held.  If chunks are
\* missing it calls GC_collect, which finds the caller not yet synced and
\* takes rtSync_lock a second time.
GrowReserve(t) ==
  /\ \/ /\ fl_chunks < reserved + grow
        /\ Goto(t, "grow", "relock")
        /\ UNCHANGED reserved
     \/ /\ fl_chunks >= reserved + grow
        /\ Goto(t, "grow", "growalloc")
        /\ reserved' = reserved + grow
  /\ UNCHANGED <<mutatorVars, rtSync_lock, syncVars, fl_chunks, stackChunks, died>>

GrowAlloc(t) ==
  /\ grow <= fl_chunks
  /\ Goto(t, "growalloc", "sync")
  /\ fl_chunks' = fl_chunks - grow
  /\ reserved' = reserved - grow
  /\ stackChunks' = stackChunks + grow
  /\ UNCHANGED <<mutatorVars, rtSync_lock, syncVars, died>>

\* Mutated form: dirty is set but RTSYNC_SIGNAL is forgotten.
SyncAndUnlock_noSignal(t) ==
  LET allSynced == \A i \in Mutators \ {t} : rtSync[i]
  IN /\ Goto(t, "sync", AfterSync(t))
     /\ rtSync' = [rtSync EXCEPT ![t] = TRUE]
     /\ threadsBlockedForGC' = threadsBlockedForGC + (IF Forced(t) THEN 1 ELSE 0)
     /\ dirty' = (dirty \/ allSynced)
     /\ site' = SiteAfterSync(t)
     /\ grow' = 0
     /\ rtSync_lock' = Nobody
     /\ UNCHANGED <<need, isGCRunning, attempts, heapVars, died>>

\* Mutated form: a thread that is going to block keeps rtSync_lock.
SyncAndUnlock_keepsLock(t) ==
  LET allSynced == \A i \in Mutators \ {t} : rtSync[i]
  IN /\ ~died /\ pc[t] = "sync"
     /\ rtSync' = [rtSync EXCEPT ![t] = TRUE]
     /\ threadsBlockedForGC' = threadsBlockedForGC + (IF Forced(t) THEN 1 ELSE 0)
     /\ dirty' = (dirty \/ allSynced)
     /\ pc' = [pc EXCEPT ![t] = AfterSync(t),
                         ![GC] = IF allSynced /\ @ = "asleep" THEN "signalled" ELSE @]
     /\ site' = SiteAfterSync(t)
     /\ grow' = 0
     /\ rtSync_lock' = IF Forced(t) THEN rtSync_lock ELSE Nobody
     /\ UNCHANGED <<need, isGCRunning, attempts, heapVars, died>>

\* rtSync[me] = true; the last thread to sync wakes the collector.
SyncAndUnlock(t) ==
  LET allSynced == \A i \in Mutators \ {t} : rtSync[i]
  IN /\ ~died /\ pc[t] = "sync"
     /\ rtSync' = [rtSync EXCEPT ![t] = TRUE]
     /\ threadsBlockedForGC' = threadsBlockedForGC + (IF Forced(t) THEN 1 ELSE 0)
     /\ dirty' = (dirty \/ allSynced)
     /\ pc' = [pc EXCEPT ![t] = AfterSync(t),
                         ![GC] = IF allSynced /\ @ = "asleep" THEN "signalled" ELSE @]
     /\ site' = SiteAfterSync(t)
     /\ grow' = 0
     /\ rtSync_lock' = Nobody
     /\ UNCHANGED <<need, isGCRunning, attempts, heapVars, died>>

\* LOCK_FL; BLOCK_EMPTY: there is no predicate around the wait.
BlockEmpty(t) ==
  /\ Goto(t, "block", "waiting")
  /\ UNCHANGED <<mutatorVars, rtSync_lock, syncVars, heapVars, died>>

\* pthread_cond_wait may return without a broadcast.
SpuriousWakeup(t) ==
  /\ SpuriousWakeups
  /\ Goto(t, "waiting", "woken")
  /\ UNCHANGED <<mutatorVars, rtSync_lock, syncVars, heapVars, died>>

-----------------------------------------------------------------------------
(* GCrunner.                                                               *)

\* RTSYNC_LOCK at the top of the loop, or on the way out of RTSYNC_BLOCK.
GCLock ==
  /\ rtSync_lock = Nobody
  /\ \/ Goto(GC, "idle", "test")
     \/ Goto(GC, "signalled", "test")
  /\ rtSync_lock' = GC
  /\ UNCHANGED <<mutatorVars, syncVars, heapVars, died>>

\* Mutated form: RTSYNC_BLOCK without the while (!dirty) around it.
GCSleep_untested ==
  /\ Goto(GC, "test", "asleep")
  /\ rtSync_lock' = Nobody
  /\ UNCHANGED <<mutatorVars, syncVars, heapVars, died>>

GCSleep ==
  /\ ~dirty
  /\ Goto(GC, "test", "asleep")
  /\ rtSync_lock' = Nobody
  /\ UNCHANGED <<mutatorVars, syncVars, heapVars, died>>

GCSpuriousWakeup ==
  /\ SpuriousWakeups
  /\ Goto(GC, "asleep", "signalled")
  /\ UNCHANGED <<mutatorVars, rtSync_lock, syncVars, heapVars, died>>

\* Every mutator that could block did: memory may be exhausted, and the third
\* such cycle in a row gives up.
GCStart ==
  LET tries == IF threadsBlockedForGC = MAXPRI - 2 THEN attempts + 1 ELSE 0
  IN /\ dirty
     /\ Goto(GC, "test", "collecting")
     /\ isGCRunning' = TRUE
     /\ attempts' = tries
     /\ died' = (tries > 2)
     /\ UNCHANGED <<mutatorVars, rtSync_lock, rtSync, dirty, threadsBlockedForGC, heapVars>>

\* performGC_helper: the sweep returns k chunks, none of them a stack's, and
\* splices them into the free list under fl_lock (addSweepListToFL).
GCSweep ==
  /\ Goto(GC, "collecting", "finishing")
  /\ \E k \in 0 .. maxChunksAvailable - fl_chunks - stackChunks :
       fl_chunks' = fl_chunks + k
  /\ UNCHANGED <<mutatorVars, rtSync_lock, syncVars, reserved, stackChunks, died>>

\* Mutated forms: the count is decremented instead of reset; the request
\* outlives the collection; the main thread stays synced; the count stays.
GCFinish_decrements ==
  /\ Goto(GC, "finishing", "broadcast")
  /\ dirty' = FALSE
  /\ rtSync' = [rtSync EXCEPT ![Main] = FALSE]
  /\ threadsBlockedForGC' = threadsBlockedForGC - 1
  /\ isGCRunning' = FALSE
  /\ rtSync_lock' = Nobody
  /\ UNCHANGED <<mutatorVars, attempts, heapVars, died>>
GCFinish_keepsDirty ==
  /\ Goto(GC, "finishing", "broadcast")
  /\ rtSync' = [rtSync EXCEPT ![Main] = FALSE]
  /\ threadsBlockedForGC' = 0
  /\ isGCRunning' = FALSE
  /\ rtSync_lock' = Nobody
  /\ UNCHANGED <<mutatorVars, dirty, attempts, heapVars, died>>
GCFinish_keepsSync ==
  /\ Goto(GC, "finishing", "broadcast")
  /\ dirty' = FALSE
  /\ threadsBlockedForGC' = 0
  /\ isGCRunning' = FALSE
  /\ rtSync_lock' = Nobody
  /\ UNCHANGED <<mutatorVars, rtSync, attempts, heapVars, died>>

GCFinish_keepsCount ==
  /\ Goto(GC, "finishing", "broadcast")
  /\ dirty' = FALSE
  /\ rtSync' = [rtSync EXCEPT ![Main] = FALSE]
  /\ isGCRunning' = FALSE
  /\ rtSync_lock' = Nobody
  /\ UNCHANGED <<mutatorVars, threadsBlockedForGC, attempts, heapVars, died>>

GCFinish ==
  /\ Goto(GC, "finishing", "broadcast")
  /\ dirty' = FALSE
  /\ rtSync' = [rtSync EXCEPT ![Main] = FALSE]
  /\ threadsBlockedForGC' = 0
  /\ isGCRunning' = FALSE
  /\ rtSync_lock' = Nobody
  /\ UNCHANGED <<mutatorVars, attempts, heapVars, died>>

\* Mutated form: pthread_cond_broadcast is forgotten.
GCBroadcast_silent ==
  /\ Goto(GC, "broadcast", "idle")
  /\ UNCHANGED <<mutatorVars, rtSync_lock, syncVars, heapVars, died>>

\* LOCK_FL; BROADCAST; UNLOCK_FL.
GCBroadcast ==
  /\ ~died /\ pc[GC] = "broadcast"
  /\ pc' = [t \in Threads |-> IF t = GC THEN "idle"
                              ELSE IF pc[t] = "waiting" THEN "woken" ELSE pc[t]]
  /\ UNCHANGED <<mutatorVars, rtSync_lock, syncVars, heapVars, died>>

-----------------------------------------------------------------------------
\* What a mutator does of its own accord.
MutatorCall(t) ==
  \/ \E n \in Requests : CompiledCheck(t, n)
  \/ \E n \in Requests : ReserveAllocation(t, n)
  \/ \E n \in Requests : ReserveTooMuch(t, n)
  \/ ExplicitCollect(t)

\* What it does once inside the runtime.
MutatorStep(t) ==
  \/ CompiledRecheck(t) \/ ReserveAllocationRetry(t)
  \/ \E k \in 1 .. maxChunksAvailable : AllocateChunks(t, k)
  \/ AllocateFault(t)
  \/ CollectSynced(t) \/ CollectUnsynced(t) \/ RTSyncLock(t)
  \/ \E g \in Growths : MarkStack(t, g)
  \/ GrowReserve(t) \/ GrowAlloc(t) \/ SyncAndUnlock(t) \/ BlockEmpty(t)

GCStep == GCLock \/ GCSleep \/ GCStart \/ GCSweep \/ GCFinish \/ GCBroadcast

Next ==
  \/ \E t \in Mutators : MutatorCall(t) \/ MutatorStep(t) \/ SpuriousWakeup(t)
  \/ GCStep
  \/ GCSpuriousWakeup

Spec == Init /\ [][Next]_vars

\* The operating system keeps running a thread that is not blocked; nothing
\* obliges a mutator to call the runtime, or a wait to return spuriously.  A
\* mutex that is released again and again is eventually granted.
Fairness == /\ WF_vars(GCStep) /\ SF_vars(GCLock)
            /\ \A t \in Mutators : WF_vars(MutatorStep(t)) /\ SF_vars(RTSyncLock(t))

FairSpec == Spec /\ Fairness
-----------------------------------------------------------------------------
(* Properties.                                                             *)

\* The steps of GC_collect that run with rtSync_lock held.
InHandshake == {"marking", "grow", "growalloc", "relock", "sync"}
GCHoldsLock == {"test", "collecting", "finishing"}

\* Every variable keeps its type.
TypeOK ==
  /\ pc \in [Threads -> MutatorPC \cup GCPC]
  /\ pc[GC] \in GCPC /\ \A t \in Mutators : pc[t] \in MutatorPC
  /\ site \in [Mutators -> Sites]
  /\ need \in [Mutators -> Nat]
  /\ grow \in Nat
  /\ rtSync_lock \in Threads \cup {Nobody}
  /\ rtSync \in [Threads -> BOOLEAN]
  /\ dirty \in BOOLEAN /\ isGCRunning \in BOOLEAN
  /\ threadsBlockedForGC \in Nat /\ attempts \in Nat
  /\ fl_chunks \in Nat /\ reserved \in Int /\ stackChunks \in Nat
  /\ died \in BOOLEAN

\* No stack is marked while a collection is pending or running (the asserts of
\* GC_collect and markStack), and a collection only runs on a heap for which
\* every thread has synced, however the unlocked read of rtSync interleaves
\* with the collector.
MarkExcludesCollect ==
  /\ \A t \in Mutators : pc[t] \in InHandshake => ~isGCRunning /\ ~dirty
  /\ isGCRunning => dirty /\ \A t \in Mutators : rtSync[t] /\ pc[t] # "rtlock"

\* RTSYNC_SIGNAL is never lost: with a collection requested, the collector is
\* not left sleeping on rtSync_cond.
SignalNotLost == dirty => pc[GC] # "asleep"

\* Every reserved chunk is on the free list, so a block that has reserved its
\* chunks never finds fl_head NULL in allocNextChunk.
ReservationsCovered == reserved <= fl_chunks

\* Of all that threads do between reserving chunks and taking them - checks,
\* growth of a stack that is being marked, retries after wake-ups that may be
\* spurious or come too late - only the re-check of a compiled block ever
\* reserves chunks that are not on the free list.
OverdrawnOnlyByRecheck ==
  [][ReservationsCovered /\ ~ReservationsCovered' => \E t \in Mutators : CompiledRecheck(t)]_vars

\* allocateChunks' assertion: what a thread is about to allocate is reserved.
AllocationBacked == \A t \in Mutators : pc[t] = "alloc" => need[t] <= reserved

\* What GCrunner compares with MAXPRI - 2 to detect exhaustion counts only the
\* main thread, and only in a cycle it has synced for: whoever else waits for
\* chunks, the count never exceeds 1.
OnlyMainCounted == threadsBlockedForGC <= IF rtSync[Main] THEN 1 ELSE 0

\* A requested collection is carried out.
SignalledGCRuns == dirty ~> (~dirty \/ died)

\* A main thread that waits in GC_collect(force) while the broadcast of a
\* collection is still to come is woken by it.  One that gets to its wait only
\* after the broadcast (GC_collect releases rtSync_lock first and the wait has
\* no predicate) is left out: nothing wakes it.
WokenUnlessLate ==
  pc[Main] = "waiting" /\ (dirty \/ pc[GC] = "broadcast") ~> pc[Main] # "waiting" \/ died

\* A mutator that takes rtSync_lock in GC_collect gives it back, unless its
\* stack has to grow and chunks are short: then it asks for the lock it holds.
RTSyncLockReleased ==
  rtSync_lock \in Mutators
    ~> rtSync_lock \notin Mutators \/ died \/ \E t \in Mutators : pc[t] = "relock"

\* The handshake implements the abstract cycle.
Cycle == INSTANCE GCCycle WITH
           phase  <- IF isGCRunning THEN "collecting"
                     ELSE IF dirty THEN "requested" ELSE "mutating",
           marked <- rtSync[Main],
           free   <- fl_chunks

\* Threads, locks and wake-ups only ever produce what the abstract cycle
\* allows: one mark per collection, and no chunk freed outside one.
CycleSpec == Cycle!Spec
=============================================================================
