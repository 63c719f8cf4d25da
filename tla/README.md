# RTMLton: a verification of its real-time memory manager

RTMLton is MLton with a concurrent, non-moving garbage collector over a heap of
fixed-size chunks and with real-time threads. The compiler proper is MLton's;
what is RTMLton's own, concurrent and hard to test is the run-time system in
`runtime/gc` and the places that talk to it: in the compiler the allocation
checks of `mlton/backend/gc-check.fun`, the pointer moves of
`mlton/codegen/c-codegen/c-codegen.fun`, the atomic sections of
`ssa-to-rssa.fun` and the handler frames of `backend.fun`; in the library
`primthread.sml`, `thread.sml` and `signal.sml`. That is what is modelled here.

Run `tlc -config X.cfg M` in this directory for a run `X` of module `M` (see
the table of runs) and `tlapm M.tla` for the proofs of a module `M` whose name
ends in `Proofs`, or of `SumLemmas`.

## 1. The system's parts

| part | state it keeps | operations | talks to | what makes it correct |
|---|---|---|---|---|
| collector handshake (`garbage-collection.c`, `gc-check.fun`) | `rtSync_lock`, `rtSync[]`, `dirty`, `isGCRunning`, `threadsBlockedForGC`, conditions `rtSync_cond`, `fl_empty_cond` | `GC_collect`, `GCrunner`, the compiled check | marking, reservation, sweep | marking and collecting exclude each other; no request is lost; whoever waits is woken; exhaustion ends the program |
| reservation (`um.c`, `gc-check.fun`) | `reserved`, `fl_chunks`, under `fl_lock` | `reserveAllocation`, compiled reservation, the decrement in `allocNextChunk` | handshake, free list | every reserved chunk is on the free list |
| marking (`ummark.c`, `foreach.c`) | mark, grey and red bits of chunk headers, the worklist | `markStack`, `startMarking`, `markWorklist`, `umDfsMarkObjects` | write barrier, sweep | nothing reachable is left white; marking ends |
| write barrier (`um.c`, `c-chunk.h`, `c-codegen.fun`) | header bits, `casLock` | `WB`, `writeBarrier` | marking | the mutator cannot hide an object from the collector |
| sweep (`garbage-collection.c`) | header bits, sweep list | `sweep`, `addSweepListToFL` | marking, free list | frees exactly what is neither marked nor shaded, resets the bits |
| chunked heap (`umheap.c`) | free list, sweep list, chunk types, counters | `createUMHeap`, `allocateChunks`, `allocateArrayChunks`, `insertChunkToFL`, `insertChunktoSubList` | reservation, sweep | lists stay lists, counters count, no chunk is lost or handed out twice |
| chunked arrays (`umarray-allocate.c`, `um.c`) | the tree of an array's chunks | `GC_arrayAllocate`, `UM_Array_offset`, `UM_walk_array_leafs` | reservation, marking, I/O | the tree takes exactly the chunks reserved; lookup and walk meet the right leaf |
| stacks (`garbage-collection.c`, `umstack.c`, `c-chunk.h`, `backend.fun`) | a thread's list of stack chunks, `currentFrame[]`, `stackDepth[]`, `exnStack[]` | push, return, raise, install and remove a handler, `maybe_growstack`, `um_copyStack` | handshake, reservation | no frame falls outside its stack; a raise goes to the innermost handler |
| green threads (`switch-thread.c`, `copy-thread.c`, `new-object.c`, `enter_leave.c`) | `currentThread[]`, `savedThread[]`, thread objects | switch, copy, new | stacks, marking (roots) | a thread in use survives the collections its creation and copying cause; it is resumed with what it was left with |
| atomic sections and signals (`atomic.c`, `handler.c`, `Posix/Signal.c`, `signal.sml`, `thread.sml`, `ssa-to-rssa.fun`) | `atomicState`, `limit`, `signalIsPending`, `signalsPending`, `amInSignalHandler`, the signal mask | `GC_handler`, `beginAtomic`, `endAtomic`, compiled `atomicBegin`/`atomicEnd`, start and finish of the handler thread, `suspend`, calls from C | green threads | the counter is balanced; the handler runs alone; every signal noted is found |
| real-time threads (`realtime_thread.c`, `primthread.sml`) | boot flag, `rtThreads_lock`, `ML_mutex`, work queue | `realtimeThreadInit`, `realtimeRunner`, `RT_init`, `ML_lock`, `addWork`, `getWork` | green threads, shut-down | every thread boots, prepared; work is done once and in order |
| shut-down (`done.c`) | - | `RTGC_done` | handshake | the program ends |

Threads: number 0 is the main thread, 1 the collector, 2 .. `MAXPRI`-1 the
real-time threads (`MAXPRI` is 6). They share `GC_state`. The hard behaviours
are the interleavings of mutators, collector and sweep at the granularity of
single reads of unlocked flags and headers, wake-ups without predicate,
re-entrance of `GC_collect` through stack growth, and the limits of the free
list. `PROJECT.json` lists each with its line under `hazards`.

## 2. Modules

| module | stands for | composed of |
|---|---|---|
| `GCCycle` | abstract specification: collections one at a time, one mark of the main stack each, chunks freed only inside one | - |
| `GCHandshake` | `GC_collect`, `GCrunner`, reservation and compiled checks, thread by thread | refines `GCCycle` (`Cycle == INSTANCE GCCycle WITH ...`) |
| `UMMark` | marking, barrier, sweep: which objects are freed | - |
| `UMHeapSpec` | abstract specification: sets of free, swept and held chunks | - |
| `UMHeap` | free list and sweep list: how they are freed and allocated | refines `UMHeapSpec` (`Heap == INSTANCE UMHeapSpec WITH ...`) |
| `ArrayTree` | array trees | - |
| `Stacklets` | stacks and green threads of the main POSIX thread | - |
| `RTThreads` | boot of the real-time threads, their work queue, shut-down | - |
| `Signals` | atomic sections, signals, the handler thread, calls from C | - |
| `SumLemmas` | lemmas about sums over a finite set, used by the modules below | - |
| `GCHandshakeProofs`, `UMMarkProofs`, `UMHeapProofs`, `ArrayTreeProofs`, `StackletsProofs`, `RTThreadsProofs`, `SignalsProofs` | theorems about the module they are named after (section 4) | extend it |
| `MCGCHandshake`, `MCUMMark`, `MCUMHeap`, `MCArrayTree`, `MCStacklets`, `MCRTThreads`, `MCSignals` | the instances TLC runs; the constants are in the `.cfg` files | extend the module they are named after |

Definitions whose comment says "mutated form" are plausible mistakes in the
definition that follows them. They are used by no specification; replacing the
definition by one of them must break the property it is listed with in
`PROJECT.json`, which shows that the property depends on that code.

### GCHandshake

`pc[t]` is the place of thread `t` between two points where another thread can
interfere. A section under `fl_lock` never blocks and is one step.
`rtSync_lock` is held across steps and modelled by its owner. Actions and code:

- `CompiledCheck`, `CompiledReserve`, `CompiledRecheck`: the blocks
  `gc-check.fun` inserts. The first test is `fl_chunks < reserved + n`, the
  one after a collection only `fl_chunks < n`, as in the code.
- `ReserveAllocation`, `ReserveAllocationRetry`, `ReserveTooMuch`:
  `reserveAllocation`. `AllocateChunks` and `AllocateFault`: `allocateChunks`,
  which on an empty free list dereferences NULL.
- `CollectSynced`, `CollectUnsynced`, `RTSyncLock`, `MarkStack`,
  `GrowReserve`, `GrowAlloc`, `SyncAndUnlock`, `BlockEmpty`: `GC_collect` from
  its unlocked read of `rtSync[me]` to the wait on `fl_empty_cond`. `relock` is
  the place of a thread that locks the (non-recursive) mutex a second time; no
  action leaves it.
- `ExplicitCollect`: a call of `GC_collect` by the program.
- `GCLock`, `GCSleep`, `GCStart`, `GCSweep`, `GCFinish`, `GCBroadcast`:
  `GCrunner`. `GCSweep` returns any number of chunks that are neither free nor
  a stack's; which ones is the subject of `UMMark`.
- `SpuriousWakeup`, `GCSpuriousWakeup`: `pthread_cond_wait` may return by itself.

How much a stack grows is a free choice from `Growths`.

### UMMark

One main thread and the collector; an object is one chunk with `numObjptrs`
fields. The main thread has a register (a C local of compiled code), stack
slots and one global. `Move` is a move without barrier: always into a register,
elsewhere while `rtSync` is false. `BarrierTest` is `WB`'s look at the
destination, `MarkTest` the test of the source's header, `MarkShade` the two
assignments of `markChunk` (`&= ~RED`, `|= GREY`), each a load and a store, and
`BarrierStore` the program's assignment after them: five steps between which the
collector may run, because it does not take `casLock`. `SourceBase` and
`DestBase` are what `getbase` passes: for a field the object that holds it.
`MarkStack` is `markStack` under `rtSync_lock`; calls spill live registers, so
none survives it. `GCVisit` is one activation of `umDfsMarkObjects` and
`GCSweep` the sweep's look at one chunk; each is one step: the collector's own
read-modify-writes of headers are not cut, since between the statements of a
visit the mutator could only add references the activation visits anyway
afterwards (it reads the fields after the object is marked). The
worklist is a set; the code empties it in order. `age` and `beside` are history
variables: how many sweeps an object has survived as garbage, and whether a
collection has begun beside a running main thread.

### UMHeap

Chunks are positions of the heap; `next` is the link the free lists run
through. `allocNextChunk` is three steps (type, link, header) because the sweep
reads type and header without `fl_lock`; the allocator owns `fl_lock` from
`AllocateLock` to the last `AllocHeader`. The sweep's reading (`SweepTest`) and
its freeing of the chunk, with `oneByOne` under `fl_lock` (`SweepFree`), are two
steps. Which chunks are marked is a free
choice in `StartSweep`. The header is abstracted to what the sweep tells apart.
Freed chunks keep their header: the sweep cleans a local variable only.
`Overtakes` names the step that goes wrong: the sweep decides to free the chunk
`allocNextChunk` is taking, whose type is set and whose header is still the old
one. `ConcurrentCycles` says which collections have the allocator running beside
them (`GC_collect` without force); `oneByOne`, an option of the runtime, is
chosen in `Init`. Array
chunks go through the same three steps and count as normal ones. The chunks of
a list are `Following(next, head)`, the least set that holds its head and is
closed under the links, which says the same as walking the list and can be
reasoned about. The mapping to `UMHeapSpec` shows an observer these sets, `held`
and whether a sweep is on; an allocation is the step that takes the head off.

### ArrayTree

Chunks are numbered in the order `POPCHUNK` takes them, leaves in the same order
(`LeafNumber`). `calls` is the recursion of `create_array_tree`. `Pow` is `ipow`,
as a recursive function so that it can be reasoned about. `Heights` allows the extra level that
rounding of `ceil(log(l)/log(fan))` may give when the quotient is a whole
number. The width of a slice is computed modulo `SizeRange`, the size of a
`size_t`. `Lookup` takes the quotient of `UM_Array_offset` exactly; the code
computes it in single precision, on the x87 in the -m32 build. For an array of
no elements `log(0)` converts to 0 in that build, which is what `Heights` says.

### Stacklets

Every chunk of a stack holds one frame, so a frame is an index into its stack;
of a frame only the exception link slot is kept. `size[t]` is
`stackSizeInChunks`; `frame`, `depth`, `exn` are the registers of `GC_state`,
`saved[t]` what the thread object holds while the thread is not running.

- `Push`, `PushGrow`, `PushGrown`, `PushFault`: `STACKLET_Push` with room, with
  a forced growth (reserve, then append), and on the last chunk, where
  `cf->next_chunk` is NULL. `Pop`: return, and the negative push of the
  continuation. `InstallHandler`, `RemoveHandler`, `Raise`: the statements of
  `backend.fun` and `STACKLET_Raise`; the handler's negative push takes one off
  `StackDepth`, however many frames are skipped, so the depth is from then on
  larger than the position in the stack.
- `SwitchToThread`, `CopyThread`, `NewThread`, `NewStack`, `GetSavedThread`:
  `GC_switchToThread`, `GC_copyThread`/`GC_copyCurrentThread` with `copyThread`
  and `newThread`, cut at their two reservations, where a collection may come in.
- `Collect`: a collection the main thread waits for. `Roots` is what
  `foreachGlobalThreadObjptr` visits; it is called from `markStack`, on the
  thread whose stack is marked, so that its `PTHREAD_NUM` is that thread's.
  Then `maybe_growstack` keeps, grows or shrinks the current stack, and the
  sweep frees unreached thread objects but never a stack's chunks.

Four values of `op` are ends the model stops at, with the state the code is in:
`fault` (NULL is dereferenced: a push with growing disabled, where the code
means to say "out of stack", or `um_copyStack` on a source longer than the
fresh stack), `wild` (a raise follows a copied link slot into another thread's
stack), `freed` (the new thread object, held in a C local only, was freed while
`newStack_um` waited) and `relock` (growth during marking asks for the lock
that is held, see `GCHandshake`).

### RTThreads

`pc[t]` is the place of a POSIX thread. `realtimeThreadInit` may fail in
`pthread_create`; without the option `useRTThreads` it only pretends.
`RTInitCopy` .. `RTInitUnlock` are `RT_init`; the `Runner` actions are
`realtimeRunner`, whose loop waits with the mutex the first time and without it
afterwards, and which leaves the mutex locked when the flag was set at the first
test. The test (`RunnerTest`) and the wait (`RunnerSleep`) are two steps, since
from the second round on neither has the mutex. `MLLock`, `ReadList`, `AddWork`, `GetWork`, `MLUnlock` are `addWork` and
`getWork`, the read of a list and its update being separate steps. `DoneTest`,
`DoneBlock`, `DoneFree` are `RTGC_done`; the collector is reduced to
`isGCRunning` and the broadcast.

### Signals

One step per statement between which another thread or `GC_handler` can come.
C code changes `atomicState` under a lock (`Add`), compiled code loads and
stores it (`Load`, `Store`). `nest[t]`, a history variable, is what thread `t`
has contributed. `h[r]` is `GC_handler` on the POSIX thread the kernel chose:
thread 0 is interrupted by it, and never while it blocks signals; elsewhere it
runs beside the program, and its test of `atomicState` (`GCHandlerTest`) and its
store of `limit` (`GCHandlerLimit`) are apart. `HandlerSaved` .. `FinishSignalHandler` are the
handler thread; `Suspend..` is `Signal.suspend`; `CallFromC` .. `CallFromCDone`
a call from C into ML with the worker thread of `thread.sml`.

Nothing in the code prevents some collisions: compiled code on two threads
updating the counter at once, `setAtomic (2)` over what another thread has
added, `GC_handler` on the collector's thread (which never blocks signals)
between the handler's look at the pending set and its reset. `Collision` lists
them, and the model goes no further than the first: the properties say that
nothing else is wrong, in particular nothing that one thread does alone or that
the lock of `atomic.c` and the mask are there to prevent.

## 3. Runs

| run | expect | shows |
|---|---|---|
| `handshake` | pass | with three threads, three chunks, both ways of reserving, growing stacks, requests larger than the heap and spurious wake-ups: marking excludes collecting, no signal is lost, `GCCycle` is implemented, a requested collection is carried out, and only the compiled re-check reserves what is not free |
| `reserve_compiled` | violation | two threads with compiled checks reserve the same chunk: the re-check ignores `reserved` |
| `mark` | pass | collections that block the main thread and collections beside it: as long as all have blocked it nothing reachable is freed and the tricolour abstraction holds until the sweep; in both modes garbage survives at most two sweeps and collections end |
| `mark_lost` | violation | with the main thread running, an object moved from a global to a register during marking is freed |
| `mark_stale` | violation | the barrier loads a header the collector has marked and stores it back after the sweep has cleared it: a mark outlives its collection |
| `heap_lists` | pass | three collections, the first beside a running allocator, with and without `oneByOne`: lists and counters stay right, no chunk is lost, and `UMHeapSpec` is implemented |
| `heap_alloc_race` | violation | from the second collection on the sweep may free a chunk that is just being allocated |
| `array_lookup` | pass | arrays up to 60 elements, trees up to height 4: exact chunk count, exact lookup, leaf walk complete up to height 2 |
| `array_walk` | violation | the same arrays: in a tree of height 3 the walk ends at the first cousin, with leaves still to come |
| `stacklets` | pass | three green threads in 15 chunks: no frame outside its stack, in the program's first thread `exnStack` names the innermost handler, no thread in use is freed |
| `rt_threads` | pass | two real-time threads, failing creation, spurious wake-ups, a work queue, exit beside a collection: nobody runs unprepared, work is conserved in order, all that `RT_init` reaches boot unless one came late, whoever waits at exit for a broadcast to come leaves |
| `signals` | pass | a main and a real-time thread, signals on the main and the collector's thread: the counter is balanced, the handler exclusive, no signal lost, `limit` zero only for a signal |

Several properties say exactly how far the code keeps a promise, instead of
showing only that it does not:

- `WokenUnlessLate`: whoever waits on `fl_empty_cond` with the broadcast still
  to come is woken. `GC_collect` releases `rtSync_lock` before it waits and has
  no predicate, so a broadcast in between is lost and the thread sleeps on.
- `RTSyncLockReleased`: the lock comes back except where a stack must grow with
  chunks short (place `relock`).
- `OverdrawnOnlyByRecheck`: of all steps that reserve chunks only the compiled
  re-check goes beyond the free list; which it does is `reserve_compiled`.
- `KeptWhileBlocked`, `TriColour`: nothing is lost up to the first collection
  that runs beside the main thread; what happens then is `mark_lost`.
- `OnlyMainCounted`: only the main thread counts itself as blocked, so the count
  never reaches `MAXPRI - 2` with `MAXPRI` = 6, and a heap that stays full is
  collected for ever instead of ending the program.
- `LowTreesWalked`: `UM_walk_array_leafs` meets every leaf up to height 2. In
  higher trees it stops after the first `Fan ^ 2`, whose cousins are not linked
  (`array_walk`; theorem `WalkEndsAtCousins`), so arrays of pointers with more
  leaves than that are marked in part only.
- `LookupExact` is claimed as long as the width of the tree fits into a `size_t`.
- `BootsUnlessLate`: every thread that `RT_init` still reaches boots, unless one
  came late, which leaves `rtThreads_lock` locked for good, for `RT_init` and
  the threads after it. A thread that found the flag down without the lock
  (after a spurious wake-up) and sleeps only after the broadcast is not reached:
  it sleeps on, contrary to what `realtime_thread.c:313` expects.
- `ExitAfterCollection`: whoever waits at exit with the broadcast still to come
  is woken. `RTGC_done` reads `isGCRunning` without a lock, so the broadcast may
  be over by then, and nothing wakes it.
- `LimitForPending`: `limit` is zero only on account of a signal: one that is
  noted or about to be, or one whose handler is being started or runs, since a
  `GC_handler` beside the program may store `limit` late. How soon a signal is
  seen is not claimed.

A real-time thread counts as synced for ever, so one that runs short of chunks
blocks (`CollectSynced`, `BlockEmpty`) without asking for a collection; this can
be read off `GCHandshake` and has no property.

The counter `stackDepth` has no property of its own: a raise takes one off it
(`c-chunk.h:390-401`) however many frames it skips, so the counter drifts
above the position of the frame, and `maybe_growstack`, which decides by it
(`garbage-collection.c:146-147`), grows a stack earlier and shrinks it later
than its use asks for. The assertion at `invariant.c:112` (`stackDepth <=
stackSizeInChunks`) can be false for that reason, but is never evaluated: its
function is called by `cheney-copy.c`, which is not compiled, behind the early
return of `invariantForMutator`, and in lines that are commented out.
`FramesInside` needs of the depth only that it is never below the position,
which is part of its inductive invariant.

Each violation is a disagreement between the code and a comment, assertion or
message of the repository, quoted in `PROJECT.json` under `findings`.

Bounds. Two mutators and two or three chunks are enough for every
reservation conflict, since a conflict needs two threads and one chunk; chunk
counts above that only repeat it. In `handshake` a request of 2 can be met out
of 3 chunks and one of 4 cannot, so that exhaustion and refusal happen. Two
objects with one field each, a stack slot, a global and a register give cycles,
sharing and every order of the barrier's loads and stores with the collector's;
`mark_lost` has a third object, so that one is freed and used again.
`mark` follows the main thread up to the first loss of an object it can reach
(`UpToFirstLoss`): what a program does with freed memory is no longer the code's
matter; the theorems of section 4 make no such cut. Three collections let
a header survive one free/allocate round and meet a third sweep; in
`heap_lists` only the first has the allocator beside it (`ConcurrentCycles`),
since no free chunk has a stale header then; the race needs a second. Fan-out 3
stands for 41 or more in the code: the computations
are uniform in it, and small fans reach heights the code reaches only with
millions of elements. `SizeRange` 256 stands for 2^32 and is above every width
of these trees.

`Stacklets` scales the code's stacks of 20 chunks, growth by at least 10 and
shrinking by a tenth down to 4, 2 and 30 per cent; what the proportions must
satisfy is its assumption, checked over every stack size the heap allows. The
growth threshold is 70 per cent where the code has 90, so that a depth of 3 in 4
chunks is above it and a collection grows the stack unforced, with `relock` as
one of the ends; the threshold 10000 disables growing, as in the code. Three
frames, three threads and one data object that takes a third of the heap make
growth, shrinking, waiting, freeing and a copy of a copy happen. `RTThreads` has
two real-time threads, so that one can be late and one on time, and three pieces
of work in one queue. `Signals` has two signals and three arrivals, enough for
one to be pending, one to come while the handler looks and one after.

`Cycles`, `MaxElements`, `K`, `MaxFrames`, `MaxDepth`, `MaxWork`, `MaxArrivals`
and `MaxNest` are the only bounds in guards. `MaxDepth` also cuts off the drift
of the depth counter; the theorems hold for every `MaxDepth`.

Deadlock checking is off where a stop is legitimate: `GCHandshake` (a dead
process), `UMMark` and `UMHeap` (`Cycles` used up, or every chunk in use), `Stacklets` (the
ends listed above), `RTThreads` (the process has ended) and `Signals` (a
collision). It is on for `ArrayTree`.

Fairness. The collector and a mutator inside the runtime are threads the
operating system keeps running: weak fairness of `GCStep` and of each
`MutatorStep`. A mutex released again and again is eventually granted to a
waiter: strong fairness of `GCLock` and `RTSyncLock`. Nothing obliges a
mutator to call the runtime or a wait to return spuriously: `MutatorCall` and
the spurious wake-ups have no fairness. In `UMMark` only `Collector` is fair. In
`RTThreads` the threads run while they boot and leave (weak fairness of
`MainBoot`, `Runner`, `Done` and of the collector's steps) and a mutex freed
again and again is granted (strong fairness of the three acquisitions of
`rtThreads_lock`); ML code may loop and the spin lock `ML_lock` favours nobody,
so neither has any.

## 4. Proofs

Every theorem holds for all values of the constants that satisfy the assumption
of its module (`ConstantsAssumption`, `UMMarkAssumption`, ...); what a theorem
assumes beyond that is named below. TLC checks every inductive invariant's
consequences, and checked the invariants themselves, on the instances of
section 3; not `TreeInv` and the parts that are sums, whose witnesses are
functions TLC does not enumerate.

### Handshake and reservation (`GCHandshakeProofs`)

- `TypeCorrect`: `Spec => []TypeOK`.
- `HandshakeInvariant`: `Spec => []HandshakeInv`. `MarkExcludesCollect` is not
  inductive: that no one is marking while a collection is on follows from who
  holds `rtSync_lock` and from what its holder may rely on. `HandshakeInv` adds
  `LockInv` (being in the handshake and owning the lock are the same),
  `SyncInv` (only the main thread is ever unsynced, only an unsynced thread is
  on its way to the lock, and a request implies that all are synced) and
  `CollectorInv` (`isGCRunning` is the collector's position; it implies
  `dirty`; the collector does not sleep on a request). The proof goes action by
  action.
- `MarkingExcludesCollecting`, `NoLostSignal`: consequences of it.
- `ImplementsCycle`: `Spec => CycleSpec`. With `HandshakeInv`, `SyncAndUnlock`
  is `MarkAndRequest`, `GCStart` is `Start`, `GCSweep` is `Reclaim`, `GCFinish`
  is `Finish`, allocations are `Allocate`, and every other step stutters.
- `CountsOnlyMain`: `OnlyMainCounted`; and `ExhaustionUndetected`: from
  `MAXPRI` = 4 on the test for exhaustion never succeeds.
- `ReservedIsHeld`: `reserved` is the sum of what the threads still hold. From
  it `AllocationsBacked`: `AllocationBacked`.
- `OnlyRecheckOverdraws`: `OverdrawnOnlyByRecheck`, for any number of threads.
  `RuntimeReservationsCovered`: hence without compiled checks
  `Spec => []ReservationsCovered`.
  `MainReservationsCovered`: also with compiled checks, when only the main
  thread reserves; then `NoEmptyFreeList`: no allocation meets an empty list.
  `reserve_compiled` shows why neither holds for two threads with compiled
  checks.

### Marking, barrier and sweep (`UMMarkProofs`)

- `TypeCorrect`, from `TypeInv`, which also types a barrier under way.
- `GarbageIsCollected`: `FloatingGarbageBounded`. That old garbage is never
  shaded again needs `GarbageInv`: what the barrier holds is reachable, garbage
  of an earlier cycle is unmarked and white after its second sweep, and there is
  a set, closed under pointers, that holds the roots and the collector's
  pending slots and none of that garbage. The set is not `Reachable`: an object
  can become garbage while the collector still has its slots to visit.
- `SweepIsSafe` (`KeptWhileBlocked`) and `NoBlackToWhite` (`TriColour`) follow
  from `QuietInv`: as long as every collection has blocked the main thread,
  it stands still during one, every root and every child of a marked object is
  shaded, marked or pending, nothing is pending when the sweep starts, ahead of
  the sweep everything reachable is marked, and behind it nothing is. `mark_lost`
  and `mark_stale` show why the condition is needed.

### Chunked heap (`UMHeapProofs`)

For any number of chunks and collections, with the allocator beside any of
them, in every execution in which the sweep does not overtake the allocator
(`Spec /\ [][~Overtakes]_vars`). `FirstSweepInTurn`: with
`ConcurrentCycles \subseteq {1}`, as in `heap_lists`, that is every execution of
`Spec`. With a second concurrent collection it is not, and `heap_alloc_race`
shows that the lists are then broken; a mutator beside the second collection is
the normal case of the code.

- `HeapInvariant`: `HeapInv` holds at every step of an allocation, where
  `ListsWellFormed` and `ChunksConserved` speak of a free `fl_lock` only. Its
  parts: both lists are in good order (`WellLinked`: besides length and tail,
  no chunk links back to the head or to the successor of another), every chunk
  is in one place, only the chunk being taken is on a list and not empty, the
  allocator finds as many chunks as it needs and its local `nc` is still
  the head's link, what the sweep is about to free is held (`FreeInv`), and
  during the first collection free chunks ahead of the sweep have clean headers.
- `TypeCorrect`, `ListsStayWellFormed`, `NoChunkIsLost`, `HeldChunksAreNotFree`:
  consequences.
- `ImplementsHeap`: `HeapSpec`. The lemmas before it are about
  `Following`: what inserting, popping and splicing do to the set of a list.

### Chunked arrays (`ArrayTreeProofs`)

For every fan-out above 1, chunk capacity and array length, and whichever way
`ceil(log(l)/log(fan))` is rounded.

- `TreeInvariant`: `TreeInv` is inductive; it has two parts, about a count `made`
  of the nodes of each height and a list `row` of them, which exist without being
  variables. `Counts` says how many nodes each
  height has so far: no more than `Level` says the tree needs; under the calls in
  progress as many as their loops have counted; below the innermost call, while
  chunks are left, `Fan` for each node above. The chunks left are the sum of what
  the heights still need (`SumLemmas`). The steps rest on `RoomAtTop` and
  `RoomForLeaves`: if the height being filled were full with chunks left, every
  height below would be full since its parents have all their children, and every
  height above since its last node has a child; then none is left. `Shape` says
  which chunks those are: child `j` of the `x`-th node of a height is node
  `(x - 1) * Fan + j` of the height below (`Children`), the node of each call in
  progress is the last of its height (`InHand`), and the `x`-th leaf is linked to
  the next one within the first `Fan * Fan` (`Ordered`).
- `TypeCorrect`, and `NoChunkIsLeaked`: `TreeUsesAllChunks`.
- `LookupFindsElement`: `LookupExact`. At height `h` the node whose slice has
  element `i` is number `i \div (Pow[h] * PerChunk)` (`Slice`); the index that
  `UM_Array_offset` computes at a node leads from one to the other
  (`ChildHasElement`, from the arithmetic of `Descend`), and every slice with an
  element has a node (`SliceHasNode`). It is claimed where the width of the
  whole tree is below `SizeRange` (`WidthFits`), whatever that is, and for the
  exact quotient: single-precision division is not modelled (section 5).
- `WalkEndsAtCousins`: the walk returns the leaves in order, the first
  `Fan * Fan` at most, and then NULL, from the links in `Ordered` (`FirstLeaf`,
  `WalkPath`). `WalkMeetsLeaves`: hence `LowTreesWalked`; and the walk is short
  in every higher tree, not only in the instance of `array_walk`.
- The lemmas before them are about `Level` and `Pow`: `Level` at height `k` is the
  least number of nodes with `leaves` under them (`LevelBound`), so one root is
  enough at the height that `Heights` gives (`NeedFacts`). Induction is over
  sets of numbers (`NatSetInduction`), from the well-founded order of the
  naturals, and functions are defined by `Recursion`.

### Stacks and green threads (`StackletsProofs`)

`StackletsInvariant`: `Inv` is inductive, with no hypothesis; from it
`TypeCorrect`, `FramesStayInside`, `UsedThreadsStayLive`,
`ExnStackIsInnermost`. `ExnStackInnermost` speaks of the program's first thread
only, while it runs and when it can be resumed;
`LinkInv` says the same of every handler frame and every thread at rest, copied
threads included, whose link slots may name frames of the original. `ChunkInv`,
a sum over the stacks, keeps the chunk counts within the heap. That shrinking
never cuts off a frame is `KeptFacts`, from the arithmetic part of the module's
assumption.

### Real-time threads (`RTThreadsProofs`)

`BootInv` (the flag is up only after `RT_init` has prepared every thread and
`ML_mutex`; nobody is in ML before) gives `ThreadsRunPrepared`. `QueueInv`
(whoever is between read and write of a list owns `ML_mutex`, and what it has
read is still the list) gives `WorkIsConserved`, with two lemmas about
sequences. `TypeCorrect` as everywhere.

### Signals (`SignalsProofs`)

Every theorem assumes `Switchers \subseteq {Main}`, as `signals.cfg` does: that
only the main thread calls `Thread.switch`. Nothing in the code forbids it to a
real-time thread, which could then start the handler without having one
(section 5); of such programs the theorems say nothing.

- `ControlInvariant`: `ControlInv` says, place by place, at which level of
  `atomicState` each thread returns from the call it is in, what it has saved,
  and that only the main thread is in the handler or on its way there. With the
  sum of the shares (`SumLemmas`) it gives `AtomicIsBalanced` and
  `HandlerIsExclusive`: at level 1 the switching thread is alone.
- `ServiceInvariant` adds who may touch `signalsPending` at which place and
  what a zero `limit` is on account of; it gives `SignalsNotLost`, `LimitIsForPending` and
  `TypeCorrect`.

### Only model-checked

Liveness (`SignalledGCRuns`, `WokenUnlessLate`, `RTSyncLockReleased`,
`CollectionFinishes`, `BootsUnlessLate`, `ExitAfterCollection`) is outside the
prover's reach. Every safety invariant of a passing run is a theorem; those of
`Signals` for `Switchers \subseteq {Main}` only.

## 5. Not modelled

- The compiler's passes, the basis library apart from the files above, the
  tools, benchmarks and examples: sequential programs beside the run-time system.
- The platform layer (`runtime/platform`, mingw, rtems), `runtime/basis` and the
  generated headers of basis primitives: system calls and single functions; most
  of the C in the repository by lines. `ub/rtems/justprint` is a compiler's output.
- MLton's moving collectors (`cheney-copy.c`, `generational.c`, `mark-compact.c`,
  `translate.c`, `forward.c`, `share.c`, `hash-cons.c`, `world.c`) are not
  compiled into the run-time system or not reached on the chunked heap.
- Profiling, statistics and debug output only observe. Weak pointers have no
  behaviour of their own on the chunked heap. Option parsing is left out.
- User mutexes are `ML_lock` again, on an array, for programs to use.
- In `Signals`: `setHandler` at run time, the pseudo-signal for collections,
  calls from C inside calls from C, `Thread.switch` on a real-time thread (it has
  no handler thread, and a start there would switch to a BOGUS pointer), and what
  follows a collision.
- Single-precision rounding in `UM_Array_offset`, and what it finds once the
  width of the tree has overflowed 32 bits.
- The composition of `RTThreads` with `GCHandshake`: a real-time thread that
  waits for chunks inside `addWork` holds `ML_lock`.
- In `UMMark`, the statements inside one visit of the collector to an object and
  inside the sweep's handling of one chunk.
- Memory is sequentially consistent in every module.

Observed while modelling and without a property of its own: the ratios of
`maybe_growstack` do not agree with the comment above it; chunks cut off a
stack, like those of a freed thread's stack, keep the stack type and are never
free again; pending signals are looked for in `GC_switchToThread` only, since
the call in `GC_collect_real` is commented out.

## 6. Plan

1. done: `GCCycle`, `GCHandshake` with its proofs, `UMMark`, `UMHeap`, `ArrayTree`.
2. done: `Stacklets`, `RTThreads`, `Signals`.
3. done: `SumLemmas` and the theorems of `GCHandshake`, `UMMark`, `UMHeap`,
   `ArrayTree`, `Stacklets`, `RTThreads` and `Signals`; `UMHeapSpec`, implemented
   by `UMHeap`.
4. open: `RTThreads` composed with `GCHandshake`, so that a real-time thread can
   wait for chunks while it holds `ML_lock` (section 5); the lengths at which the
   arithmetic of `UM_Array_offset` leaves 32 bits.
