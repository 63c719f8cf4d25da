------------------------------ MODULE Stacklets ------------------------------
(***************************************************************************)
(* Green threads of the main POSIX thread and their stacks, which are      *)
(* lists of chunks: the Push, Return and Raise of compiled code, growth    *)
(* and shrinking (maybe_growstack), creation by copying (GC_copyThread,    *)
(* GC_copyCurrentThread), switching, and the collections any allocation    *)
(* may cause while a thread is under construction.                         *)
(*                                                                         *)
(* A chunk of a stack holds one frame and is known by its index from the   *)
(* first chunk, 0.  A pointer into a stack is the stack's thread and an    *)
(* index.  Frames are reduced to their exception link slot.  The main      *)
(* thread waits for every collection here, so a collection is one step:    *)
(* what happens when it does not wait is the subject of UMMark.            *)
(***************************************************************************)
EXTENDS Integers, FiniteSets

CONSTANTS
  K,               \* bound: thread objects ever created
  maxChunks,       \* chunks of the heap
  InitialChunks,   \* of a new stack; smaller ones are not resized (20)
  MinGrowth,       \* least growth (10)
  Grow, Shrink,    \* ratios of maybe_growstack, in per cent (125 and 10)
  ShrinkThreshold, \* in per cent (50)
  GrowThresholds,  \* choices of the run-time option, in per cent (90)
  DataRequests,    \* chunks of an ordinary object
  MaxFrames,       \* bound: frames of a stack in use
  MaxDepth         \* bound: the counter of frames

Thread == 1 .. K
BOGUS  == 0
Index  == 0 .. MaxFrames
NoExn  == [of |-> BOGUS, at |-> 0]     \* BOGUS_EXN_STACK
None   == [of |-> -1, at |-> 0]        \* the frame has no handler installed
Exn    == {NoExn} \cup [of : Thread, at : Index]

\* i where the loop of maybe_growstack stops: the least i with
\* i >= size * (1 - Shrink).
Kept(size) == CHOOSE i \in 1 .. size :
                /\ 100 * i >= size * (100 - Shrink)
                /\ \A j \in 1 .. (i - 1) : 100 * j < size * (100 - Shrink)

\* The shrinking loop must stop before the last chunk, and keep two chunks
\* more than a stack used to less than ShrinkThreshold occupies.
ASSUME StackletsAssumption ==
  /\ {K, maxChunks, InitialChunks, MinGrowth, MaxFrames, MaxDepth} \subseteq Nat \ {0}
  /\ {Grow, Shrink, ShrinkThreshold} \cup GrowThresholds \subseteq Nat
  /\ DataRequests \subseteq Nat \ {0} /\ InitialChunks < maxChunks
  /\ \A n \in InitialChunks .. maxChunks :
        Kept(n) < n /\ 100 * (Kept(n) - 2) >= ShrinkThreshold * n - 100

VARIABLES
  size,        \* stackSizeInChunks of each thread
  link,        \* of each thread's frames: the saved exnStack
  saved,       \* of each thread object: currentFrame, stackDepth, exnStack;
               \* blank while the thread runs, when nothing reads them
  live,        \* thread objects that are allocated
  born,        \* thread objects allocated so far
  current, frame, depth, exn,   \* of GC_state, for the main POSIX thread
  savedThread,
  refs,        \* threads the ML program refers to
  op,          \* "run", or the allocation under way
  need,        \* chunks it reserves
  from, to,    \* of copyThread
  copyCurrent, \* it was called by GC_copyCurrentThread
  fl_chunks,   \* free chunks
  data,        \* chunks of other objects
  growThreshold

regs  == <<current, frame, depth, exn>>
heap  == <<size, link, saved, live, born>>
alloc == <<need, from, to, copyCurrent>>
vars  == <<heap, regs, savedThread, refs, op, alloc, fl_chunks, data, growThreshold>>

Blank == [frame |-> 0, depth |-> 0, exn |-> NoExn]
EmptyLinks == [i \in Index |-> None]

\* initWorld: the first thread, on its first frame.
Init ==
  /\ size = [t \in Thread |-> IF t = 1 THEN InitialChunks ELSE 0]
  /\ link = [t \in Thread |-> EmptyLinks]
  /\ saved = [t \in Thread |-> Blank]
  /\ live = {1} /\ born = 1
  /\ current = 1 /\ frame = 0 /\ depth = 0 /\ exn = NoExn
  /\ savedThread = BOGUS
  /\ refs = {}
  /\ op = "run" /\ need = 0 /\ from = BOGUS /\ to = BOGUS /\ copyCurrent = FALSE
  /\ fl_chunks = maxChunks - InitialChunks - 1 /\ data = 0
  /\ growThreshold \in GrowThresholds

Saved == [frame |-> frame, depth |-> depth, exn |-> exn]

\* enter: the registers of GC_state go to the thread object.
Enter == saved' = [saved EXCEPT ![current] = Saved]

MaxOf(a, b) == IF a < b THEN b ELSE a
Growth(n) == MaxOf((n * Grow) \div 100, MinGrowth)

-----------------------------------------------------------------------------
(* Compiled code.                                                          *)

\* Mutated form: the stack is grown only when no chunk follows.
StackFull_late == frame = size[current] - 1

\* cf->next_chunk->next_chunk == NULL
StackFull == frame + 1 = size[current] - 1

\* A forced growth is refused when growing is disabled.
GrowDisabled == growThreshold >= 100

\* STACKLET_Push of a call, with room or with growing disabled.
Push ==
  /\ op = "run" /\ frame < MaxFrames /\ depth < MaxDepth
  /\ frame < size[current] - 1
  /\ ~StackFull \/ GrowDisabled
  /\ frame' = frame + 1 /\ depth' = depth + 1
  /\ UNCHANGED <<heap, current, exn, savedThread, refs, op, alloc, fl_chunks, data, growThreshold>>

\* Its forced growth reserves chunks first; too large a request ends the
\* program in reserveAllocation.
PushGrow ==
  /\ op = "run" /\ frame < MaxFrames /\ depth < MaxDepth
  /\ StackFull /\ ~GrowDisabled
  /\ need' = Growth(size[current])
  /\ op' = IF need' > maxChunks THEN "died" ELSE "grow"
  /\ UNCHANGED <<heap, regs, savedThread, refs, from, to, copyCurrent, fl_chunks, data, growThreshold>>

\* Mutated form: the growth is not reserved.
PushGrown_unreserved ==
  /\ op = "grow"
  /\ size' = [size EXCEPT ![current] = @ + need]
  /\ fl_chunks' = fl_chunks - need
  /\ frame' = frame + 1 /\ depth' = depth + 1
  /\ op' = "run" /\ need' = 0
  /\ UNCHANGED <<link, saved, live, born, current, exn, savedThread, refs, from, to, copyCurrent, data, growThreshold>>

\* The chunks are appended and the push is completed.
PushGrown ==
  /\ op = "grow" /\ fl_chunks >= need
  /\ size' = [size EXCEPT ![current] = @ + need]
  /\ fl_chunks' = fl_chunks - need
  /\ frame' = frame + 1 /\ depth' = depth + 1
  /\ op' = "run" /\ need' = 0
  /\ UNCHANGED <<link, saved, live, born, current, exn, savedThread, refs, from, to, copyCurrent, data, growThreshold>>

\* On the last chunk cf->next_chunk is NULL and is dereferenced.
PushFault ==
  /\ op = "run" /\ frame >= size[current] - 1
  /\ op' = "fault"
  /\ UNCHANGED <<heap, regs, savedThread, refs, alloc, fl_chunks, data, growThreshold>>

\* Return, then the continuation's Push of a negative size; a function
\* leaves its handlers before it returns.
Pop ==
  /\ op = "run" /\ frame > 0 /\ link[current][frame] = None
  /\ frame' = frame - 1 /\ depth' = depth - 1
  /\ UNCHANGED <<heap, current, exn, savedThread, refs, op, alloc, fl_chunks, data, growThreshold>>

\* SetSlotExnStack, SetHandler, SetExnStackLocal.  The first frame is the
\* program's entry and has no handler.
InstallHandler ==
  /\ op = "run" /\ frame > 0 /\ link[current][frame] = None
  /\ link' = [link EXCEPT ![current][frame] = exn]
  /\ exn' = [of |-> current, at |-> frame]
  /\ UNCHANGED <<size, saved, live, born, current, frame, depth, savedThread, refs, op, alloc, fl_chunks, data, growThreshold>>

\* SetExnStackSlot at the end of the handled expression.
RemoveHandler ==
  /\ op = "run" /\ link[current][frame] # None
  /\ exn' = link[current][frame]
  /\ link' = [link EXCEPT ![current][frame] = None]
  /\ UNCHANGED <<size, saved, live, born, current, frame, depth, savedThread, refs, op, alloc, fl_chunks, data, growThreshold>>

\* STACKLET_Raise, the handler's Push of a negative size and its
\* SetExnStackSlot.  StackDepth goes down by one, however many frames are
\* skipped: from the first raise on it may count more than there are.
Raise ==
  /\ op = "run" /\ exn.of = current /\ frame > exn.at
  /\ frame' = exn.at /\ depth' = depth - 1
  /\ exn' = link[current][exn.at]
  /\ link' = [link EXCEPT ![current][exn.at] = None]
  /\ UNCHANGED <<size, saved, live, born, current, savedThread, refs, op, alloc, fl_chunks, data, growThreshold>>

\* A raise whose handler is a frame of another stack continues there.
RaiseElsewhere ==
  /\ op = "run" /\ exn.of \in Thread \ {current}
  /\ op' = "wild"
  /\ UNCHANGED <<heap, regs, savedThread, refs, alloc, fl_chunks, data, growThreshold>>

\* Allocation of an ordinary object; its chunks were reserved by a check.
AllocData(n) ==
  /\ op = "run" /\ fl_chunks >= n
  /\ fl_chunks' = fl_chunks - n /\ data' = data + n
  /\ UNCHANGED <<heap, regs, savedThread, refs, op, alloc, growThreshold>>

Forget(t) ==
  /\ op = "run" /\ t \in refs
  /\ refs' = refs \ {t}
  /\ UNCHANGED <<heap, regs, savedThread, op, alloc, fl_chunks, data, growThreshold>>

-----------------------------------------------------------------------------
(* Threads.                                                                *)

\* Mutated form: exnStack is not among what is saved.
SavedAtSwitch_noExn == [Saved EXCEPT !.exn = saved[current].exn]

\* What GC_switchToThread saves of the thread it leaves.
SavedAtSwitch == Saved

\* GC_switchToThread, called by atomicSwitch, which keeps the thread it
\* leaves.  invariantForMutatorFrontier and -Stack are constantly true, so
\* maybe_growstack is not called here.
SwitchToThread(t) ==
  /\ op = "run" /\ t \in refs
  /\ saved' = [saved EXCEPT ![current] = SavedAtSwitch, ![t] = Blank]
  /\ refs' = (refs \ {t}) \cup {current}
  /\ current' = t
  /\ frame' = saved[t].frame /\ depth' = saved[t].depth /\ exn' = saved[t].exn
  /\ UNCHANGED <<size, link, live, born, savedThread, op, alloc, fl_chunks, data, growThreshold>>

\* Mutated form: from is not stashed.
Stash_not(t) == UNCHANGED savedThread

\* copyThread stashes from where the collector finds it.
Stash(t) == savedThread' = t

\* GC_copyThread of a thread the program need not refer to afterwards, or
\* GC_copyCurrentThread, up to the reservation of the thread object.
CopyThread(t) ==
  /\ op = "run" /\ savedThread = BOGUS /\ born < K
  /\ \/ t \in refs /\ copyCurrent' = FALSE /\ refs' \in {refs, refs \ {t}}
     \/ t = current /\ copyCurrent' = TRUE /\ UNCHANGED refs
  /\ Enter /\ Stash(t) /\ from' = t
  /\ op' = "thread" /\ need' = 1
  /\ UNCHANGED <<size, link, live, born, regs, to, fl_chunks, data, growThreshold>>

\* newThread has its object, and newStack_um reserves the stack.
NewThread ==
  /\ op = "thread" /\ fl_chunks >= need
  /\ born' = born + 1 /\ to' = born + 1 /\ live' = live \cup {born + 1}
  /\ fl_chunks' = fl_chunks - 1
  /\ op' = "stack" /\ need' = InitialChunks
  /\ UNCHANGED <<size, link, saved, regs, savedThread, refs, from, copyCurrent, data, growThreshold>>

\* um_copyStack: exnStack and currentFrame are translated, the frames are
\* copied as they are, link slots included.
CopiedThread == [saved[from] EXCEPT
                   !.exn = IF @.of = from /\ @.at <= saved[from].frame
                           THEN [of |-> to, at |-> @.at] ELSE NoExn]
CopiedLinks == [i \in Index |-> IF i <= saved[from].frame + 1 THEN link[from][i] ELSE None]

\* newStack_um has its chunks: the rest of copyThread and of its caller.
\* um_copyStack runs off a destination shorter than the source, and the
\* thread object may have been freed by the collection newStack_um waited for.
NewStack ==
  /\ op = "stack" /\ fl_chunks >= need
  /\ fl_chunks' = fl_chunks - need
  /\ op' = IF to \notin live THEN "freed"
           ELSE IF saved[from].frame + 1 >= InitialChunks THEN "fault" ELSE "run"
  /\ size' = [size EXCEPT ![to] = InitialChunks]
  /\ saved' = [saved EXCEPT ![current] = Blank, ![to] = CopiedThread]
  /\ link' = [link EXCEPT ![to] = CopiedLinks]
  /\ savedThread' = IF copyCurrent THEN to ELSE BOGUS
  /\ refs' = IF copyCurrent THEN refs ELSE refs \cup {to}
  /\ need' = 0 /\ from' = BOGUS /\ to' = BOGUS /\ copyCurrent' = FALSE
  /\ UNCHANGED <<live, born, regs, data, growThreshold>>

\* GC_getSavedThread, called by ML after GC_copyCurrentThread.
GetSavedThread ==
  /\ op = "run" /\ savedThread # BOGUS
  /\ refs' = refs \cup {savedThread}
  /\ savedThread' = BOGUS
  /\ UNCHANGED <<heap, regs, op, alloc, fl_chunks, data, growThreshold>>

-----------------------------------------------------------------------------
(* Collections.                                                            *)

\* foreachGlobalThreadObjptr, and what the marked stack refers to.
Roots == ({current, savedThread} \ {BOGUS}) \cup refs

\* What maybe_growstack, not forced, does with the marked stack.  The
\* quotient is in single precision: at the growth threshold it may fall on
\* either side.
Resizes ==
  LET n == size[current]
  IN  IF n < InitialChunks THEN {"keep"}
      ELSE   {r \in {"grow"} : 100 * depth >= growThreshold * n}
        \cup {r \in {"shrink"} : 100 * depth < ShrinkThreshold * n}
        \cup {r \in {"keep"} : /\ 100 * depth <= growThreshold * n
                               /\ 100 * depth >= ShrinkThreshold * n}

Resized(r) == IF r = "grow" THEN size[current] + Growth(size[current])
              ELSE IF r = "shrink" THEN Kept(size[current]) ELSE size[current]

\* GC_collect of the main thread, from compiled code or from
\* reserveAllocation when chunks are short.  The stack is marked under
\* rtSync_lock; growing it then, with chunks short, is a second attempt at
\* the lock.  The sweep frees what is not marked, except stack chunks: those
\* of a freed thread, like those cut off by shrinking, are never free again.
\* Of other objects all or none are garbage.
Collect ==
  /\ op = "run" \/ (op \in {"grow", "thread", "stack"} /\ fl_chunks < need)
  /\ \E r \in Resizes, g \in {0, data} :
       LET grown == IF r = "grow" THEN Growth(size[current]) ELSE 0
           freed == live \ Roots
       IN  IF grown > fl_chunks
           THEN op' = "relock" /\ UNCHANGED <<heap, fl_chunks, data>>
           ELSE /\ live' = live \ freed
                /\ size' = [t \in Thread |-> IF t = current THEN Resized(r)
                                            ELSE IF t \in freed THEN 0 ELSE size[t]]
                /\ link' = [t \in Thread |-> IF t \in freed THEN EmptyLinks ELSE link[t]]
                /\ saved' = [t \in Thread |-> IF t \in freed THEN Blank ELSE saved[t]]
                /\ data' = data - g
                /\ fl_chunks' = fl_chunks - grown + g + Cardinality(freed)
                /\ UNCHANGED <<born, op>>
  /\ UNCHANGED <<regs, savedThread, refs, alloc, growThreshold>>

-----------------------------------------------------------------------------
Next ==
  \/ Push \/ PushGrow \/ PushGrown \/ PushFault \/ Pop
  \/ InstallHandler \/ RemoveHandler \/ Raise \/ RaiseElsewhere
  \/ \E n \in DataRequests : AllocData(n)
  \/ \E t \in Thread : Forget(t) \/ SwitchToThread(t) \/ CopyThread(t)
  \/ NewThread \/ NewStack \/ GetSavedThread
  \/ Collect

Spec == Init /\ [][Next]_vars

-----------------------------------------------------------------------------
(* Properties.                                                             *)

\* Every variable keeps its type: the free chunks never go below zero.
TypeOK ==
  /\ size \in [Thread -> 0 .. maxChunks]
  /\ link \in [Thread -> [Index -> Exn \cup {None}]]
  /\ saved \in [Thread -> [frame : Index, depth : 0 .. MaxDepth, exn : Exn]]
  /\ live \subseteq Thread /\ born \in Thread
  /\ current \in Thread /\ frame \in Index /\ depth \in 0 .. MaxDepth /\ exn \in Exn
  /\ savedThread \in Thread \cup {BOGUS}
  /\ refs \subseteq Thread
  /\ op \in {"run", "grow", "thread", "stack", "died", "fault", "wild", "freed", "relock"}
  /\ need \in Nat /\ {from, to} \subseteq Thread \cup {BOGUS}
  /\ copyCurrent \in BOOLEAN
  /\ fl_chunks \in 0 .. maxChunks /\ data \in 0 .. maxChunks
  /\ growThreshold \in GrowThresholds

\* The threads the program can still switch to.
Runnable == live \cap (Roots \ {current})

\* Unless growing is disabled, a stack always has a chunk beyond the
\* current frame: neither shrinking, nor a switch, nor a collection between
\* the test of Push and the growth leaves a frame, or the chunk the next
\* Push steps to, outside it.  Shrinking relies on StackDepth for this: raises
\* make it count too many frames, but nothing too few.
FramesInside ==
  ~GrowDisabled /\ op \in {"run", "thread", "stack", "grow"} =>
    /\ frame + 1 < size[current]
    /\ \A t \in Runnable : saved[t].frame + 1 < size[t]

\* x names the innermost handler of thread t, whose current frame is f.
Innermost(t, f, x) ==
  LET H == {i \in 0 .. f : link[t][i] # None}
  IN  /\ x.of = t => x.at \in H
      /\ \A i \in H : x.of = t /\ i <= x.at

\* A raise in the program's first thread goes to the innermost handler
\* installed: exnStack names it while the thread runs and when it can be
\* resumed, whatever raises, switches, copies of it and resizings came in
\* between.  Of copied threads it is not true: the link slots of their
\* frames name handlers in the stack they were copied from (RaiseElsewhere).
ExnStackInnermost ==
  /\ current = 1 => Innermost(1, frame, exn)
  /\ 1 \in Runnable => Innermost(1, saved[1].frame, saved[1].exn)

\* No collection frees a thread that the program or GC_state still uses,
\* nor the one being copied, which the program may have dropped.  The one
\* under construction is freed when newStack_um has to wait ("freed"): only
\* a C local refers to it.
UsedThreadsLive ==
  /\ op # "freed" => Roots \subseteq live
  /\ op \in {"thread", "stack"} => from \in live
=============================================================================
