--------------------------- MODULE StackletsProofs ---------------------------
(***************************************************************************)
(* Proofs about Stacklets, for any heap, any number of threads and any     *)
(* ratios of maybe_growstack that StackletsAssumption admits.              *)
(***************************************************************************)
EXTENDS Stacklets, SumLemmas, FiniteSetTheorems, TLAPS

\* Types, the bounds on chunks left out: those follow from ChunkInv.
Typed ==
  /\ size \in [Thread -> Nat]
  /\ link \in [Thread -> [Index -> Exn \cup {None}]]
  /\ saved \in [Thread -> [frame : Index, depth : 0 .. MaxDepth, exn : Exn]]
  /\ live \subseteq Thread /\ born \in Thread
  /\ current \in Thread /\ frame \in Index /\ depth \in 0 .. MaxDepth /\ exn \in Exn
  /\ savedThread \in Thread \cup {BOGUS}
  /\ refs \subseteq Thread
  /\ op \in {"run", "grow", "thread", "stack", "died", "fault", "wild", "freed", "relock"}
  /\ need \in Nat /\ {from, to} \subseteq Thread \cup {BOGUS}
  /\ copyCurrent \in BOOLEAN
  /\ fl_chunks \in Nat /\ data \in Nat
  /\ growThreshold \in GrowThresholds

\* What the allocation under way knows, and whom the program can refer to.
PhaseInv ==
  /\ op = "grow" => need >= 1 /\ frame < MaxFrames /\ depth < MaxDepth
  /\ op = "thread" => need = 1 /\ born < K
  /\ op = "stack" => need = InitialChunks /\ to = born /\ to > 1 /\ to \notin Roots
  /\ op \in {"thread", "stack"} => /\ from = savedThread /\ from \in Thread
                                   /\ saved[current] = Saved
  /\ current \notin refs
  /\ op \in {"run", "grow"} => savedThread \notin refs \cup {current}

\* No thread object is used before it is allocated, or after it is freed.
LiveInv == live \subseteq 1 .. born /\ UsedThreadsLive

\* The counters of frames, in GC_state and in every thread object.
DepthInv == /\ depth >= frame
            /\ \A t \in Thread : saved[t].depth >= saved[t].frame

\* x, the exnStack of thread t or a link slot of its frame n, names the
\* innermost of the handlers L in the frames below n.  In a copied thread it
\* may also name a frame of the thread it was copied from; thread 1 is no copy.
Points(L, t, x, n) ==
  /\ x.of = t => /\ x.at < n /\ L[x.at] # None
                 /\ \A j \in Index : x.at < j /\ j < n => L[j] = None
  /\ x.of # t /\ t = 1 => \A j \in Index : j < n => L[j] = None

\* L holds the link slots of a thread t whose current frame is f and whose
\* exnStack is x.
Chained(L, t, f, x) ==
  /\ \A i \in Index : i > f => L[i] = None
  /\ Points(L, t, x, f + 1)
  /\ \A i \in Index : L[i] # None => Points(L, t, L[i], i)

\* x names no thread that has not been allocated, or has yet to get its stack.
Known(x) == x.of <= born /\ (op = "stack" => x.of # to)

LinkInv ==
  /\ Chained(link[current], current, frame, exn)
  /\ \A t \in Thread \ {current} : Chained(link[t], t, saved[t].frame, saved[t].exn)

KnownInv == /\ Known(exn)
            /\ \A t \in Thread : Known(saved[t].exn) /\ \A i \in Index : Known(link[t][i])

\* The chunks that are free, hold other objects, stacks or thread objects.
ChunkInv == \E f : /\ Sums(f, size, Thread)
                   /\ fl_chunks + data + f[Thread] + Cardinality(live) <= maxChunks

Inv == Typed /\ PhaseInv /\ LiveInv /\ DepthInv /\ LinkInv /\ KnownInv
       /\ ChunkInv /\ FramesInside

-----------------------------------------------------------------------------
\* The constants, one by one.
LEMMA ConstantFacts ==
  /\ K \in Nat \ {0} /\ maxChunks \in Nat \ {0} /\ InitialChunks \in Nat \ {0}
  /\ MinGrowth \in Nat \ {0} /\ MaxFrames \in Nat \ {0} /\ MaxDepth \in Nat \ {0}
  /\ Grow \in Nat /\ Shrink \in Nat /\ ShrinkThreshold \in Nat
  /\ \A n \in DataRequests : n \in Nat
  /\ InitialChunks < maxChunks
BY StackletsAssumption DEF StackletsAssumption

\* Threads, frames and handlers are told apart from BOGUS and from no handler.
LEMMA TypeFacts ==
  /\ Thread \subseteq Nat /\ 1 \in Thread /\ BOGUS \notin Thread /\ Index \subseteq Nat /\ 0 \in Index
  /\ NoExn \in Exn /\ None \notin Exn /\ \A t \in Thread, i \in Index : [of |-> t, at |-> i] \in Exn
  /\ \A x \in Exn : x.of \in Thread \cup {BOGUS} /\ x.at \in Index
BY ConstantFacts DEF Thread, BOGUS, Index, NoExn, None, Exn

\* The owner of a handler can be compared with the thread number born.
LEMMA OwnerFacts == \A x \in Exn \cup {None} : x.of \in Int
<1>1. \A x \in Exn : x.of \in Thread \/ x.of = BOGUS
  BY TypeFacts
<1>2. \A t \in Thread : t \in Int
  BY TypeFacts
<1> QED BY <1>1, <1>2 DEF BOGUS, None

\* A stack grows by at least MinGrowth.
LEMMA GrowthFacts == ASSUME NEW n \in Nat PROVE Growth(n) \in Nat /\ Growth(n) >= 1
<1>1. ASSUME NEW m \in Nat PROVE m \div 100 \in Nat
  OBVIOUS
<1>2. n * Grow \in Nat
  BY ConstantFacts
<1> QED BY <1>1, <1>2, ConstantFacts DEF Growth, MaxOf

\* The shrinking loop stops, before the last chunk, beyond what the stack is
\* used to.
LEMMA KeptFacts ==
  ASSUME NEW n \in InitialChunks .. maxChunks
  PROVE  Kept(n) \in 1 .. n /\ Kept(n) < n /\ 100 * (Kept(n) - 2) >= ShrinkThreshold * n - 100
<1>1. n \in Nat \ {0}
  BY ConstantFacts
<1>2. n * (100 - Shrink) \in Int /\ n * (100 - Shrink) <= 100 * n
  <2>1. 100 - Shrink <= 100 /\ 100 - Shrink \in Int
    BY ConstantFacts
  <2>2. \A a, b, c \in Int : c >= 0 /\ a <= b => c * a <= c * b
    OBVIOUS
  <2> QED BY <1>1, <2>1, <2>2
<1>3. ASSUME NEW m \in Int, m <= 100 * n
      PROVE  \E i \in 1 .. n : 100 * i >= m /\ \A j \in 1 .. (i - 1) : 100 * j < m
  <2>1. CASE m <= 0
    BY <1>1, <2>1
  <2>2. CASE m > 0
    <3> DEFINE i == (m + 99) \div 100
    <3>1. i \in Int /\ m <= 100 * i /\ 100 * i < m + 100
      BY <2>2
    <3>2. i \in 1 .. n
      BY <1>1, <1>3, <2>2, <3>1
    <3>3. \A j \in 1 .. (i - 1) : 100 * j < m
      BY <3>1
    <3> QED BY <3>1, <3>2, <3>3
  <2> QED BY <2>1, <2>2
<1>4. \E i \in 1 .. n : /\ 100 * i >= n * (100 - Shrink)
                        /\ \A j \in 1 .. (i - 1) : 100 * j < n * (100 - Shrink)
  BY <1>2, <1>3
<1>5. Kept(n) \in 1 .. n
  BY <1>4 DEF Kept
<1> QED BY <1>5, StackletsAssumption DEF StackletsAssumption

\* A push counts its frame, a return takes one away, and a raise takes away
\* one for one frame or more; switches and copies carry the counters along.
LEMMA DepthStep == ASSUME Inv, Next PROVE DepthInv'
<1>1. DepthInv /\ Typed
  BY DEF Inv
<1>2. /\ frame \in Nat /\ depth \in Nat /\ current \in Thread
      /\ \A t \in Thread : saved[t] \in [frame : Index, depth : 0 .. MaxDepth, exn : Exn]
      /\ Index \subseteq Nat
  BY <1>1, TypeFacts, ConstantFacts DEF Typed
<1>10. DOMAIN saved = Thread
  BY <1>1 DEF Typed
<1> USE <1>1, <1>2 DEF DepthInv, heap, regs, alloc
<1>3. CASE UNCHANGED <<frame, depth, saved>>
  BY <1>3
<1>4. CASE Push \/ PushGrown \/ Pop
  BY <1>4, ConstantFacts DEF Push, PushGrown, Pop
<1>5. CASE Raise
  <2>1. exn.at \in Nat
    BY TypeFacts DEF Typed
  <2> QED BY <1>5, <2>1 DEF Raise
<1>6. ASSUME NEW t \in Thread, SwitchToThread(t) PROVE DepthInv'
  <2>1. /\ saved' = [saved EXCEPT ![current] = Saved, ![t] = Blank]
        /\ frame' = saved[t].frame /\ depth' = saved[t].depth
    BY <1>6 DEF SwitchToThread, SavedAtSwitch
  <2>2. Saved.depth >= Saved.frame /\ Blank.depth >= Blank.frame
    BY DEF Saved, Blank
  <2>3. \A u \in Thread : saved'[u] = IF u = t THEN Blank ELSE IF u = current THEN Saved ELSE saved[u]
    BY <1>10, <2>1
  <2> QED BY <2>1, <2>2, <2>3
<1>7. CASE \E t \in Thread : CopyThread(t)
  <2>1. saved' = [saved EXCEPT ![current] = Saved] /\ UNCHANGED <<frame, depth>>
    BY <1>7 DEF CopyThread, Enter
  <2>2. Saved.depth >= Saved.frame
    BY DEF Saved
  <2>3. \A t \in Thread : saved'[t] = IF t = current THEN Saved ELSE saved[t]
    BY <1>10, <2>1
  <2> QED BY <2>1, <2>2, <2>3
<1>8. CASE NewStack
  <2>1. CopiedThread.depth = saved[from].depth /\ CopiedThread.frame = saved[from].frame
    BY DEF CopiedThread
  <2>2. from \in Thread
    BY <1>8 DEF Inv, PhaseInv, NewStack
  <2>3. saved' = [saved EXCEPT ![current] = Blank, ![to] = CopiedThread] /\ UNCHANGED <<frame, depth>>
    BY <1>8 DEF NewStack
  <2> QED BY <1>10, <2>1, <2>2, <2>3 DEF Blank
<1>9. CASE Collect
  BY <1>9 DEF Collect, Blank
<1> QED BY <1>3, <1>4, <1>5, <1>6, <1>7, <1>8, <1>9
        DEF Next, PushGrow, PushFault, InstallHandler, RemoveHandler, RaiseElsewhere, AllocData,
            Forget, NewThread, GetSavedThread

\* The thread under construction is neither the running one nor the one that
\* is copied.
LEMMA ConstructionFacts ==
  ASSUME Inv, op = "stack"
  PROVE  /\ from \in Thread /\ to \in Thread /\ to # current /\ to # from /\ to \notin refs
         /\ to # 1 /\ from = savedThread /\ saved[current] = Saved
BY TypeFacts DEF Inv, Typed, PhaseInv, Roots

\* Thread objects are used between their allocation and the collection that
\* frees them: the one being copied is in savedThread, and only the one under
\* construction is in nobody's hands.
LEMMA LiveStep == ASSUME Inv, Next PROVE LiveInv'
<1>1. LiveInv /\ Typed /\ PhaseInv
  BY DEF Inv
<1>2. born \in Nat /\ current \in Thread
  BY <1>1, TypeFacts DEF Typed
<1> USE <1>1, <1>2 DEF LiveInv, UsedThreadsLive, Roots, heap, regs, alloc
<1>3. CASE UNCHANGED <<live, born, current, savedThread, refs>> /\ op # "freed" /\ op' \notin {"thread", "stack"}
  BY <1>3
<1>4. ASSUME NEW t \in Thread, Forget(t) \/ SwitchToThread(t) PROVE LiveInv'
  <2>1. op = "run" /\ op' = "run" /\ UNCHANGED <<live, born, savedThread>> /\ t \in live
    BY <1>4 DEF Forget, SwitchToThread
  <2>2. refs' \cup {current'} \subseteq refs \cup {current}
    BY <1>4 DEF Forget, SwitchToThread
  <2>3. Roots' \subseteq Roots
    BY <2>1, <2>2, TypeFacts
  <2>4. Roots \subseteq live
    BY <2>1
  <2> HIDE DEF Roots
  <2> QED BY <2>1, <2>3, <2>4
<1>5. CASE \E t \in Thread : CopyThread(t)
  BY <1>5, TypeFacts DEF CopyThread, Stash
<1>6. CASE NewThread
  BY <1>6 DEF NewThread, PhaseInv
<1>7. CASE NewStack
  BY <1>7 DEF NewStack
<1>8. CASE GetSavedThread
  BY <1>8 DEF GetSavedThread
<1>9. CASE Collect
  BY <1>9, TypeFacts DEF Collect, PhaseInv
<1> QED BY <1>3, <1>4, <1>5, <1>6, <1>7, <1>8, <1>9
        DEF Next, Push, PushGrow, PushGrown, Pop, Raise, PushFault, InstallHandler, RemoveHandler,
            RaiseElsewhere, AllocData

\* The phases of an allocation follow each other; the program never refers to
\* the thread that runs, nor to the one that is stashed.
LEMMA PhaseStep == ASSUME Inv, Next PROVE PhaseInv'
<1>1. LiveInv /\ Typed /\ PhaseInv
  BY DEF Inv
<1>2. /\ born \in Nat /\ current \in Thread /\ InitialChunks \in Nat /\ K \in Nat /\ BOGUS \notin Thread
      /\ refs \subseteq Thread
  BY <1>1, TypeFacts, ConstantFacts DEF Typed
<1>3. Growth(size[current]) \in Nat /\ Growth(size[current]) >= 1
  BY <1>1, GrowthFacts DEF Typed
<1> USE <1>1, <1>2 DEF PhaseInv, Roots, heap, regs, alloc
<1>4. CASE Push \/ PushGrown \/ Pop \/ InstallHandler \/ RemoveHandler \/ Raise
  BY <1>4 DEF Push, PushGrown, Pop, InstallHandler, RemoveHandler, Raise
<1>5. CASE PushGrow \/ PushFault \/ RaiseElsewhere \/ \E n \in DataRequests : AllocData(n)
  BY <1>5, <1>3 DEF PushGrow, PushFault, RaiseElsewhere, AllocData
<1>6. CASE \E t \in Thread : Forget(t) \/ SwitchToThread(t)
  BY <1>6 DEF Forget, SwitchToThread
<1>7. CASE \E t \in Thread : CopyThread(t)
  <2>1. saved'[current] = Saved /\ UNCHANGED <<current, frame, depth, exn>>
    BY <1>7 DEF CopyThread, Enter, Typed
  <2> QED BY <1>7, <2>1 DEF CopyThread, Stash, Saved
<1>8. CASE NewThread
  <2>1. born + 1 \notin live
    BY DEF LiveInv
  <2>2. Roots \subseteq live
    BY <1>8 DEF NewThread, LiveInv, UsedThreadsLive
  <2>3. born \in 1 .. K
    BY DEF Typed, Thread
  <2>4. born + 1 > 1
    BY <2>3, ConstantFacts
  <2>5. born + 1 \notin Roots
    BY <2>1, <2>2, Zenon
  <2> QED BY <1>8, <2>4, <2>5 DEF NewThread, Saved
<1>9. CASE NewStack
  BY <1>9, ConstructionFacts DEF NewStack
<1>10. CASE GetSavedThread
  BY <1>10 DEF GetSavedThread
<1>11. CASE Collect
  <2>1. \/ op' = "relock" /\ UNCHANGED saved
        \/ op' = op /\ born' = born /\ saved'[current] = saved[current]
    BY <1>11 DEF Collect
  <2> QED BY <1>11, <2>1 DEF Collect, Saved
<1> QED BY <1>4, <1>5, <1>6, <1>7, <1>8, <1>9, <1>10, <1>11 DEF Next

-----------------------------------------------------------------------------
\* What the steps of compiled code do to a chain of handlers.

\* A fresh stack has no handler.
LEMMA ChainEmpty == ASSUME NEW t \in Thread, NEW f PROVE Chained(EmptyLinks, t, f, NoExn)
<1>1. NoExn.of # t
  BY TypeFacts DEF NoExn
<1> QED BY <1>1 DEF Chained, Points, EmptyLinks

Links == [Index -> Exn \cup {None}]

\* A push opens a frame without one.
LEMMA ChainPush ==
  ASSUME NEW L \in Links, NEW t \in Thread, NEW f \in Index, NEW x \in Exn, Chained(L, t, f, x)
  PROVE  Chained(L, t, f + 1, x)
BY TypeFacts, ConstantFacts DEF Chained, Points, Index, Links

\* A return closes a frame without one.
LEMMA ChainPop ==
  ASSUME NEW L \in Links, NEW t \in Thread, NEW f \in Index, NEW x \in Exn, Chained(L, t, f, x),
         f > 0, L[f] = None
  PROVE  Chained(L, t, f - 1, x)
BY TypeFacts, ConstantFacts DEF Chained, Points, Index, Links

\* A new handler links to the one that was innermost.
LEMMA ChainInstall ==
  ASSUME NEW L \in Links, NEW t \in Thread, NEW f \in Index, NEW x \in Exn, Chained(L, t, f, x), L[f] = None
  PROVE  Chained([L EXCEPT ![f] = x], t, f, [of |-> t, at |-> f])
<1>0. MaxFrames \in Nat /\ \A y \in Exn : y.at \in Index
  BY TypeFacts, ConstantFacts
<1> USE <1>0 DEF Index
<1> DEFINE M == [L EXCEPT ![f] = x]
<1>1. /\ M[f] = x /\ x # None /\ \A i \in Index \ {f} : M[i] = L[i]
      /\ f \in Nat /\ \A i \in Index : i \in Nat
  BY TypeFacts DEF Links
<1> HIDE DEF M
<1>2. x.of = t => x.at \in Index /\ x.at < f
  BY <1>1, TypeFacts DEF Chained, Points
<1>3. Points(M, t, x, f)
  BY <1>1, <1>2 DEF Chained, Points
<1>4. ASSUME NEW i \in Index, M[i] # None, i # f PROVE Points(M, t, L[i], i)
  <2>1. L[i] # None /\ L[i] \in Exn /\ i < f
    BY <1>1, <1>4 DEF Chained, Links
  <2>2. L[i].of = t => L[i].at \in Index
    BY <2>1, TypeFacts
  <2> QED BY <1>1, <2>1, <2>2 DEF Chained, Points
<1>5. Points(M, t, [of |-> t, at |-> f], f + 1)
  BY <1>1 DEF Points
<1>6. \A i \in Index : i > f => M[i] = None
  BY <1>1 DEF Chained
<1>7. Chained(M, t, f, [of |-> t, at |-> f])
  BY <1>1, <1>3, <1>4, <1>5, <1>6 DEF Chained
<1> QED BY <1>7 DEF M

\* Removing a handler makes the one it links to the innermost.
LEMMA ChainRemove ==
  ASSUME NEW L \in Links, NEW t \in Thread, NEW f \in Index, NEW x \in Exn, Chained(L, t, f, x), L[f] # None
  PROVE  Chained([L EXCEPT ![f] = None], t, f, L[f])
<1>0. MaxFrames \in Nat /\ \A y \in Exn : y.at \in Index
  BY TypeFacts, ConstantFacts
<1> USE <1>0 DEF Index
<1> DEFINE M == [L EXCEPT ![f] = None]
<1>1. /\ M[f] = None /\ \A i \in Index \ {f} : M[i] = L[i]
      /\ f \in Nat /\ \A i \in Index : i \in Nat
  BY TypeFacts DEF Links
<1> HIDE DEF M
<1>2. ASSUME NEW i \in Index, L[i] # None PROVE i <= f /\ Points(M, t, L[i], i)
  <2>1. L[i] \in Exn /\ i <= f
    BY <1>1, <1>2 DEF Chained, Links
  <2>2. L[i].of = t => L[i].at \in Index
    BY <2>1, TypeFacts
  <2> QED BY <1>1, <1>2, <2>1, <2>2 DEF Chained, Points
<1>3. Points(M, t, L[f], f + 1)
  <2>1. L[f].of = t => L[f].at \in Index
    BY TypeFacts DEF Links
  <2> QED BY <1>1, <1>2, <2>1 DEF Points
<1>4. Chained(M, t, f, L[f])
  BY <1>1, <1>2, <1>3 DEF Chained
<1> QED BY <1>4 DEF M

\* A raise gives up the frames above the innermost handler: none of them has one.
LEMMA ChainCut ==
  ASSUME NEW L \in Links, NEW t \in Thread, NEW f \in Index, NEW x \in Exn, Chained(L, t, f, x), x.of = t
  PROVE  x.at \in Index /\ L[x.at] # None /\ Chained(L, t, x.at, x)
<1>0. MaxFrames \in Nat /\ \A y \in Exn : y.at \in Index
  BY TypeFacts, ConstantFacts
<1> USE <1>0 DEF Index
<1>1. x.at \in Index /\ f \in Nat /\ \A i \in Index : i \in Nat
  BY TypeFacts
<1>2. x.at < f + 1 /\ L[x.at] # None /\ \A j \in Index : x.at < j /\ j < f + 1 => L[j] = None
  BY DEF Chained, Points
<1>3. \A i \in Index : i > x.at => L[i] = None
  BY <1>1, <1>2 DEF Chained
<1>4. Points(L, t, x, x.at + 1)
  BY <1>1, <1>2 DEF Points
<1> QED BY <1>1, <1>2, <1>3, <1>4 DEF Chained

\* um_copyStack: the copy's exnStack is translated, its link slots are not.
LEMMA ChainCopy ==
  ASSUME NEW L \in Links, NEW t \in Thread, NEW f \in Index, NEW x \in Exn, Chained(L, t, f, x),
         NEW u \in Thread \ {1, t}, \A i \in Index : L[i].of # u
  PROVE  Chained([i \in Index |-> IF i <= f + 1 THEN L[i] ELSE None], u, f,
                 IF x.of = t /\ x.at <= f THEN [of |-> u, at |-> x.at] ELSE NoExn)
<1>0. MaxFrames \in Nat /\ \A y \in Exn : y.at \in Index
  BY TypeFacts, ConstantFacts
<1> USE <1>0 DEF Index
<1> DEFINE M == [i \in Index |-> IF i <= f + 1 THEN L[i] ELSE None]
           y == IF x.of = t /\ x.at <= f THEN [of |-> u, at |-> x.at] ELSE NoExn
<1>1. f \in Nat /\ x.at \in Index /\ \A i \in Index : i \in Nat
  BY TypeFacts
<1>2. \A i \in Index : M[i] = L[i]
  BY <1>1 DEF Chained
<1>3. Points(M, u, y, f + 1)
  <2>1. CASE x.of = t /\ x.at <= f
    <3>1. y = [of |-> u, at |-> x.at]
      BY <2>1
    <3> HIDE DEF y, M
    <3> QED BY <1>1, <1>2, <2>1, <3>1 DEF Chained, Points
  <2>2. CASE ~(x.of = t /\ x.at <= f)
    <3>1. y = NoExn /\ NoExn.of # u
      BY <2>2, TypeFacts DEF NoExn
    <3> HIDE DEF y, M
    <3> QED BY <3>1 DEF Points
  <2> QED BY <2>1, <2>2
<1> HIDE DEF M, y
<1>4. \A i \in Index : i > f => M[i] = None
  BY <1>2 DEF Chained
<1>5. \A i \in Index : Points(M, u, M[i], i)
  BY <1>2 DEF Points
<1>6. Chained(M, u, f, y)
  BY <1>3, <1>4, <1>5 DEF Chained
<1> QED BY <1>6 DEF M, y

-----------------------------------------------------------------------------
\* Handlers are found through the chain of every thread, also of a copied one,
\* as far as it goes.
LEMMA LinkStep == ASSUME Inv, Next PROVE LinkInv'
<1>1. /\ Typed /\ LinkInv /\ current \in Thread /\ frame \in Index /\ exn \in Exn /\ link \in [Thread -> Links]
      /\ \A t \in Thread : saved[t].frame \in Index /\ saved[t].exn \in Exn
  BY DEF Inv, Typed, Links
<1>2. ASSUME NEW t \in Thread \ {current}, current' = current, link'[t] = link[t],
             saved'[t].frame = saved[t].frame, saved'[t].exn = saved[t].exn
      PROVE  Chained(link'[t], t, saved'[t].frame, saved'[t].exn)
  BY <1>1, <1>2 DEF LinkInv
<1>3. ASSUME NEW L \in Links, link' = [link EXCEPT ![current] = L], UNCHANGED <<saved, current>>,
             Chained(L, current, frame', exn')
      PROVE  LinkInv'
  BY <1>1, <1>3 DEF LinkInv
<1>4. ASSUME UNCHANGED <<link, saved, current>>, Chained(link[current], current, frame', exn')
      PROVE  LinkInv'
  BY <1>1, <1>4 DEF LinkInv
<1>5. Chained(link[current], current, frame, exn)
  BY <1>1 DEF LinkInv
<1> USE DEF heap, regs, alloc
<1>6. CASE UNCHANGED <<link, saved, current, frame, exn>>
  BY <1>4, <1>5, <1>6
<1>7. CASE Push \/ PushGrown
  BY <1>1, <1>4, <1>5, <1>7, ChainPush DEF Push, PushGrown
<1>8. CASE Pop
  BY <1>1, <1>4, <1>5, <1>8, ChainPop DEF Pop
<1>9. CASE InstallHandler
  <2>1. Chained([link[current] EXCEPT ![frame] = exn], current, frame, [of |-> current, at |-> frame])
    BY <1>1, <1>5, <1>9, ChainInstall DEF InstallHandler
  <2>2. [link[current] EXCEPT ![frame] = exn] \in Links
    BY <1>1 DEF Links
  <2> QED BY <1>3, <1>9, <2>1, <2>2 DEF InstallHandler
<1>10. CASE RemoveHandler
  <2>1. Chained([link[current] EXCEPT ![frame] = None], current, frame, link[current][frame])
    BY <1>1, <1>5, <1>10, ChainRemove DEF RemoveHandler
  <2>2. [link[current] EXCEPT ![frame] = None] \in Links
    BY <1>1 DEF Links
  <2> QED BY <1>3, <1>10, <2>1, <2>2 DEF RemoveHandler
<1>11. CASE Raise
  <2>1. exn.at \in Index /\ link[current][exn.at] # None /\ Chained(link[current], current, exn.at, exn)
    BY <1>1, <1>5, <1>11, ChainCut DEF Raise
  <2>2. Chained([link[current] EXCEPT ![exn.at] = None], current, exn.at, link[current][exn.at])
    BY <1>1, <2>1, ChainRemove
  <2>3. [link[current] EXCEPT ![exn.at] = None] \in Links
    BY <1>1, <2>1 DEF Links
  <2> QED BY <1>3, <1>11, <2>2, <2>3 DEF Raise
<1>12. ASSUME NEW t \in Thread, SwitchToThread(t) PROVE LinkInv'
  <2>1. t # current
    BY <1>12 DEF Inv, PhaseInv, SwitchToThread
  <2>2. current' = t /\ frame' = saved[t].frame /\ exn' = saved[t].exn /\ link' = link
    BY <1>12 DEF SwitchToThread
  <2>3. saved'[current].frame = frame /\ saved'[current].exn = exn
    BY <1>1, <1>12, <2>1 DEF SwitchToThread, SavedAtSwitch, Saved, Typed
  <2>4. \A u \in Thread \ {t, current} : saved'[u] = saved[u]
    BY <1>12 DEF SwitchToThread, Typed, Inv
  <2>5. Chained(link[t], t, saved[t].frame, saved[t].exn)
    BY <1>1, <2>1 DEF LinkInv
  <2>6. ASSUME NEW u \in Thread \ {t} PROVE Chained(link[u], u, saved'[u].frame, saved'[u].exn)
    <3>1. CASE u = current
      BY <1>5, <2>3, <3>1
    <3>2. CASE u # current
      BY <1>1, <2>4, <3>2 DEF LinkInv
    <3> QED BY <3>1, <3>2
  <2> QED BY <2>2, <2>5, <2>6 DEF LinkInv
<1>13. ASSUME NEW t \in Thread, CopyThread(t) PROVE LinkInv'
  <2>1. UNCHANGED <<link, current, frame, exn>> /\ \A u \in Thread \ {current} : saved'[u] = saved[u]
    BY <1>1, <1>13 DEF CopyThread, Enter, Typed
  <2> QED BY <1>2, <1>5, <2>1 DEF LinkInv
<1>14. CASE NewStack
  <2>1. /\ from \in Thread /\ to \in Thread \ {1, from} /\ to # current /\ saved[current] = Saved
        /\ \A i \in Index : link[from][i].of # to
    BY <1>14, ConstructionFacts DEF NewStack, Inv, KnownInv, Known
  <2>2. Chained(link[from], from, saved[from].frame, saved[from].exn)
    BY <1>1, <1>5, <2>1 DEF LinkInv, Saved
  <2>3. Chained(CopiedLinks, to, saved[from].frame,
                IF saved[from].exn.of = from /\ saved[from].exn.at <= saved[from].frame
                THEN [of |-> to, at |-> saved[from].exn.at] ELSE NoExn)
    <3>1. /\ link[from] \in Links /\ saved[from].frame \in Index /\ saved[from].exn \in Exn
          /\ from \in Thread /\ to \in Thread \ {1, from}
      BY <1>1, <2>1
    <3>2. CopiedLinks = [i \in Index |-> IF i <= saved[from].frame + 1 THEN link[from][i] ELSE None]
      BY DEF CopiedLinks
    <3> QED BY <2>1, <2>2, <3>1, <3>2, ChainCopy, Zenon
  <2>4. /\ CopiedThread.frame = saved[from].frame
        /\ CopiedThread.exn = IF saved[from].exn.of = from /\ saved[from].exn.at <= saved[from].frame
                              THEN [of |-> to, at |-> saved[from].exn.at] ELSE NoExn
    BY <1>1, <2>1 DEF CopiedThread, Typed
  <2>5. /\ saved'[to] = CopiedThread /\ link'[to] = CopiedLinks /\ UNCHANGED <<current, frame, exn>>
        /\ \A u \in Thread \ {to} : link'[u] = link[u]
        /\ \A u \in Thread \ {to, current} : saved'[u] = saved[u]
    BY <1>1, <1>14, <2>1 DEF NewStack, Typed
  <2>6. ASSUME NEW u \in Thread \ {current} PROVE Chained(link'[u], u, saved'[u].frame, saved'[u].exn)
    <3>1. CASE u = to
      BY <2>3, <2>4, <2>5, <3>1
    <3>2. CASE u # to
      BY <1>2, <2>5, <3>2
    <3> QED BY <3>1, <3>2
  <2> QED BY <1>1, <1>5, <2>1, <2>5, <2>6 DEF LinkInv
<1>15. CASE Collect
  <2>1. CASE UNCHANGED <<link, saved>>
    BY <1>4, <1>5, <1>15, <2>1 DEF Collect
  <2>2. CASE ~UNCHANGED <<link, saved>>
    <3>1. /\ UNCHANGED <<current, frame, exn>>
          /\ link' = [t \in Thread |-> IF t \in live \ Roots THEN EmptyLinks ELSE link[t]]
          /\ saved' = [t \in Thread |-> IF t \in live \ Roots THEN Blank ELSE saved[t]]
      BY <1>15, <2>2 DEF Collect
    <3>2. link'[current] = link[current]
      BY <1>1, <3>1, TypeFacts DEF Roots
    <3>3. ASSUME NEW u \in Thread \ {current} PROVE Chained(link'[u], u, saved'[u].frame, saved'[u].exn)
      <4>1. CASE u \in live \ Roots
        <5>1. link'[u] = EmptyLinks /\ saved'[u].frame = 0 /\ saved'[u].exn = NoExn
          BY <3>1, <4>1 DEF Blank
        <5> QED BY <5>1, ChainEmpty
      <4>2. CASE u \notin live \ Roots
        BY <1>2, <3>1, <4>2
      <4> QED BY <4>1, <4>2
    <3> QED BY <1>5, <3>1, <3>2, <3>3 DEF LinkInv
  <2> QED BY <2>1, <2>2
<1> QED BY <1>6, <1>7, <1>8, <1>9, <1>10, <1>11, <1>12, <1>13, <1>14, <1>15
        DEF Next, PushGrow, PushFault, RaiseElsewhere, AllocData, Forget, NewThread, GetSavedThread

\* No handler is looked for in a stack that is not there yet.
LEMMA KnownStep == ASSUME Inv, Next PROVE KnownInv'
<1>1. /\ Typed /\ KnownInv /\ current \in Thread /\ frame \in Index /\ exn \in Exn /\ link \in [Thread -> Links]
      /\ \A t \in Thread : saved[t].exn \in Exn
      /\ born \in Nat /\ born >= 1
  BY ConstantFacts DEF Inv, Typed, Links, Thread
<1>2. op # "freed" => current <= born
  BY TypeFacts DEF Inv, Typed, LiveInv, UsedThreadsLive, Roots
<1>3. None.of = -1 /\ NoExn.of = 0
  BY DEF None, NoExn, BOGUS
<1> USE <1>1, <1>3 DEF KnownInv, Known, heap, regs, alloc, Links
<1>4. CASE UNCHANGED <<link, saved, born, exn>> /\ op' # "stack"
  BY <1>4
<1>5. CASE InstallHandler
  BY <1>2, <1>5 DEF InstallHandler
<1>6. CASE RemoveHandler
  BY <1>6 DEF RemoveHandler
<1>7. CASE Raise
  <2>1. exn.at \in Index
    BY TypeFacts
  <2> QED BY <1>7, <2>1 DEF Raise
<1>8. ASSUME NEW t \in Thread, SwitchToThread(t) PROVE KnownInv'
  <2>1. /\ \A u \in Thread : saved'[u].exn \in {NoExn, exn, saved[u].exn}
        /\ exn' = saved[t].exn /\ UNCHANGED <<link, born, op>> /\ op = "run"
    BY <1>8 DEF SwitchToThread, SavedAtSwitch, Saved, Blank, Typed
  <2> QED BY <2>1
<1>9. ASSUME NEW t \in Thread, CopyThread(t) PROVE KnownInv'
  BY <1>9 DEF CopyThread, Enter, Saved, Typed
<1>10. CASE NewThread
  <2>1. \A x : x.of \in Int /\ x.of <= born => x.of <= born + 1 /\ x.of # born + 1
    OBVIOUS
  <2>2. UNCHANGED <<link, saved, exn>> /\ born' = born + 1 /\ to' = born + 1
    BY <1>10 DEF NewThread
  <2> QED BY <2>1, <2>2, OwnerFacts
<1>11. CASE NewStack
  <2>1. from \in Thread /\ to \in Thread /\ to = born
    BY <1>11, ConstructionFacts DEF NewStack, Inv, PhaseInv
  <2>2. CopiedThread.exn.of <= born
    <3>1. CopiedThread.exn = IF saved[from].exn.of = from /\ saved[from].exn.at <= saved[from].frame
                             THEN [of |-> to, at |-> saved[from].exn.at] ELSE NoExn
      BY <2>1 DEF CopiedThread, Typed
    <3> QED BY <2>1, <3>1
  <2>3. \A i \in Index : CopiedLinks[i].of <= born
    BY <2>1 DEF CopiedLinks
  <2>4. /\ \A t \in Thread : saved'[t].exn \in {CopiedThread.exn, NoExn, saved[t].exn}
        /\ \A t \in Thread : link'[t] \in {CopiedLinks, link[t]}
        /\ UNCHANGED <<exn, born>> /\ op' # "stack"
    BY <1>11, <2>1 DEF NewStack, Blank, Typed
  <2> QED BY <2>2, <2>3, <2>4
<1>12. CASE Collect
  <2>1. op = "stack" => to > 1 /\ to \in Nat
    BY <1>12, ConstructionFacts, TypeFacts DEF Inv, PhaseInv
  <2>2. /\ \A t \in Thread : saved'[t].exn \in {NoExn, saved[t].exn}
        /\ \A t \in Thread, i \in Index : link'[t][i] \in {None, link[t][i]}
        /\ UNCHANGED <<exn, born, to>> /\ op' \in {op, "relock"}
    BY <1>12 DEF Collect, Blank, EmptyLinks
  <2> QED BY <2>1, <2>2
<1> QED BY <1>4, <1>5, <1>6, <1>7, <1>8, <1>9, <1>10, <1>11, <1>12
        DEF Next, Push, PushGrow, PushGrown, PushFault, Pop, RaiseElsewhere, AllocData, Forget, GetSavedThread

-----------------------------------------------------------------------------
\* Thread objects can be counted.
LEMMA LiveFinite ==
  ASSUME Inv
  PROVE  /\ IsFiniteSet(Thread) /\ IsFiniteSet(live) /\ IsFiniteSet(live \ Roots)
         /\ Cardinality(live) \in Nat /\ Cardinality(live \ Roots) \in Nat
<1>1. IsFiniteSet(Thread)
  BY ConstantFacts, FS_Interval DEF Thread
<1>2. live \in SUBSET Thread
  BY DEF Inv, Typed
<1>3. IsFiniteSet(live)
  BY <1>1, <1>2, FS_Subset
<1>4. IsFiniteSet(live \ Roots)
  BY <1>3, FS_Difference
<1> QED BY <1>1, <1>3, <1>4, FS_CardinalityType

\* Nothing is larger than the heap.
LEMMA ChunkBounds ==
  ASSUME Inv
  PROVE  fl_chunks <= maxChunks /\ data <= maxChunks /\ \A t \in Thread : size[t] <= maxChunks
<1>1. PICK f : Sums(f, size, Thread) /\ fl_chunks + data + f[Thread] + Cardinality(live) <= maxChunks
  BY DEF Inv, ChunkInv
<1>2. f[Thread] \in Nat /\ fl_chunks \in Nat /\ data \in Nat /\ Cardinality(live) \in Nat /\ maxChunks \in Nat
  BY <1>1, LiveFinite, ConstantFacts DEF Sums, Inv, Typed
<1>3. \A t \in Thread : size[t] \in Nat /\ size[t] <= f[Thread]
  BY <1>1, SumBound DEF Inv, Typed
<1> QED BY <1>1, <1>2, <1>3

\* What a collection does: n chunks are left of the marked stack, which has
\* grown by at most the second number, and g chunks of other objects are freed.
Swept(n, grown, g) ==
  /\ grown <= fl_chunks /\ g <= data /\ n <= size[current] + grown
  /\ frame + 1 < size[current] => frame + 1 < n
  /\ size' = [t \in Thread |-> IF t = current THEN n ELSE IF t \in live \ Roots THEN 0 ELSE size[t]]
  /\ live' = live \ (live \ Roots)
  /\ link' = [t \in Thread |-> IF t \in live \ Roots THEN EmptyLinks ELSE link[t]]
  /\ saved' = [t \in Thread |-> IF t \in live \ Roots THEN Blank ELSE saved[t]]
  /\ data' = data - g
  /\ fl_chunks' = fl_chunks - grown + g + Cardinality(live \ Roots)
  /\ UNCHANGED <<born, op>>

\* Shrinking keeps the chunk after the current frame, because StackDepth never
\* counts fewer frames than there are.
LEMMA CollectFacts ==
  ASSUME Inv, Collect
  PROVE  \/ op' = "relock" /\ UNCHANGED <<heap, fl_chunks, data>>
         \/ \E n, grown, g \in Nat : Swept(n, grown, g)
<1>1. Typed /\ DepthInv
  BY DEF Inv
<1>2. /\ size[current] \in Nat /\ size[current] <= maxChunks /\ frame \in Nat /\ depth \in Nat
      /\ data \in Nat /\ fl_chunks \in Nat
  <2>1. size[current] \in Nat /\ size[current] <= maxChunks /\ fl_chunks \in Nat /\ data \in Nat
    BY <1>1, ChunkBounds, ConstantFacts, TypeFacts DEF Typed
  <2>2. frame \in Nat
    BY <1>1, TypeFacts DEF Typed
  <2>3. depth \in Nat
    BY <1>1, ConstantFacts DEF Typed
  <2> QED BY <2>1, <2>2, <2>3
<1>3. depth >= frame
  BY <1>1, <1>2 DEF DepthInv
<1>4. PICK r \in Resizes, g \in {0, data} :
        LET grown == IF r = "grow" THEN Growth(size[current]) ELSE 0
            freed == live \ Roots
        IN  IF grown > fl_chunks
            THEN op' = "relock" /\ UNCHANGED <<heap, fl_chunks, data>>
            ELSE /\ live' = live \ freed
                 /\ size' = [t \in Thread |-> IF t = current THEN Resized(r)
                                             ELSE IF t \in freed THEN 0 ELSE size[t]]
                 /\ link' = [t \in Thread |-> IF t \in freed THEN EmptyLinks ELSE link[t]]
                 /\ saved' = [t \in Thread |-> IF t \in freed THEN Blank ELSE saved[t]]
                 /\ data' = data - g
                 /\ fl_chunks' = fl_chunks - grown + g + Cardinality(freed)
                 /\ UNCHANGED <<born, op>>
  BY DEF Collect
<1> DEFINE grown == IF r = "grow" THEN Growth(size[current]) ELSE 0
<1>5. grown \in Nat
  BY <1>2, GrowthFacts
<1>6. /\ Resized(r) \in Nat /\ Resized(r) <= size[current] + grown
      /\ frame + 1 < size[current] => frame + 1 < Resized(r)
  <2>1. CASE r = "shrink"
    <3>1. size[current] \in InitialChunks .. maxChunks /\ 100 * depth < ShrinkThreshold * size[current]
      BY <1>2, <2>1, ConstantFacts DEF Resizes
    <3>2. /\ Kept(size[current]) \in 1 .. size[current]
          /\ 100 * (Kept(size[current]) - 2) >= ShrinkThreshold * size[current] - 100
      BY <3>1, KeptFacts
    <3>3. ShrinkThreshold * size[current] \in Int
      BY <1>2, ConstantFacts
    <3>4. Resized(r) = Kept(size[current]) /\ grown = 0
      BY <2>1 DEF Resized
    <3>5. Kept(size[current]) > depth + 1
      BY <1>2, <3>1, <3>2, <3>3
    <3> HIDE DEF grown
    <3> QED BY <1>2, <1>3, <3>2, <3>4, <3>5
  <2>2. CASE r = "grow"
    BY <1>2, <2>2, GrowthFacts DEF Resized
  <2>3. CASE r \notin {"shrink", "grow"}
    BY <1>2, <2>3 DEF Resized
  <2> QED BY <2>1, <2>2, <2>3
<1>7. CASE grown > fl_chunks
  BY <1>4, <1>7
<1>8. CASE ~(grown > fl_chunks)
  <2>1. g \in Nat /\ g <= data /\ grown <= fl_chunks
    BY <1>2, <1>4, <1>5, <1>8
  <2>2. Swept(Resized(r), grown, g)
    BY <1>4, <1>6, <1>8, <2>1 DEF Swept
  <2> HIDE DEF grown
  <2> QED BY <1>5, <1>6, <2>1, <2>2
<1> QED BY <1>7, <1>8

\* Every step keeps the types.
LEMMA TypedStep == ASSUME Inv, Next PROVE Typed'
<1>1. Typed /\ DepthInv /\ LinkInv /\ PhaseInv
  BY DEF Inv
<1>2. /\ K \in Nat \ {0} /\ MaxFrames \in Nat /\ MaxDepth \in Nat /\ InitialChunks \in Nat
      /\ BOGUS \notin Thread /\ NoExn \in Exn
      /\ \A t \in Thread, i \in Index : [of |-> t, at |-> i] \in Exn
  BY TypeFacts, ConstantFacts
<1>3. Blank \in [frame : Index, depth : 0 .. MaxDepth, exn : Exn]
  BY <1>2 DEF Blank, Index
<1>4. Saved \in [frame : Index, depth : 0 .. MaxDepth, exn : Exn]
  BY <1>1 DEF Typed, Saved
<1>5. EmptyLinks \in [Index -> Exn \cup {None}]
  BY DEF EmptyLinks
<1> USE <1>1, <1>2 DEF Typed, heap, regs, alloc
<1>6. CASE Push \/ PushGrown
  <2>1. frame' = frame + 1 /\ depth' = depth + 1 /\ frame < MaxFrames /\ depth < MaxDepth
    BY <1>6 DEF Push, PushGrown, PhaseInv
  <2>2. frame' \in Index /\ depth' \in 0 .. MaxDepth
    BY <2>1 DEF Index
  <2> QED BY <1>6, <2>2 DEF Push, PushGrown
<1>7. CASE PushGrow
  BY <1>7, GrowthFacts DEF PushGrow
<1>8. CASE PushFault \/ RaiseElsewhere \/ \E n \in DataRequests : AllocData(n)
  BY <1>8, ConstantFacts DEF PushFault, RaiseElsewhere, AllocData
<1>9. CASE Pop
  <2>1. frame' \in Index /\ depth' \in 0 .. MaxDepth
    BY <1>9 DEF Pop, Index, DepthInv
  <2> QED BY <1>9, <2>1 DEF Pop
<1>10. CASE InstallHandler \/ RemoveHandler
  <2>1. exn' \in Exn
    BY <1>10 DEF InstallHandler, RemoveHandler
  <2>2. link' \in [Thread -> [Index -> Exn \cup {None}]]
    <3>1. CASE InstallHandler
      BY <3>1 DEF InstallHandler
    <3>2. CASE RemoveHandler
      BY <3>2 DEF RemoveHandler
    <3> QED BY <1>10, <3>1, <3>2
  <2> QED BY <1>10, <2>1, <2>2 DEF InstallHandler, RemoveHandler
<1>11. CASE Raise
  <2>1. exn.at \in Index /\ link[current][exn.at] # None
    BY <1>11, ChainCut DEF Raise, LinkInv, Links
  <2>2. frame' \in Index /\ exn' \in Exn /\ link' \in [Thread -> [Index -> Exn \cup {None}]]
    BY <1>11, <2>1 DEF Raise
  <2>3. /\ depth' = depth - 1 /\ exn.at < frame
        /\ depth >= frame
    BY <1>11 DEF Raise, DepthInv
  <2>4. depth' \in 0 .. MaxDepth
    <3>1. exn.at \in 0 .. MaxFrames /\ frame \in 0 .. MaxFrames
      BY <2>1 DEF Index
    <3> QED BY <2>3, <3>1
  <2> QED BY <1>11, <2>2, <2>4 DEF Raise
<1>12. ASSUME NEW t \in Thread, Forget(t) \/ SwitchToThread(t) PROVE Typed'
  <2>1. saved' \in [Thread -> [frame : Index, depth : 0 .. MaxDepth, exn : Exn]]
    <3> HIDE <1>2
    <3>1. CASE Forget(t)
      BY <3>1 DEF Forget
    <3>2. CASE SwitchToThread(t)
      <4>1. saved' = [[saved EXCEPT ![current] = Saved] EXCEPT ![t] = Blank]
        BY <3>2 DEF SwitchToThread, SavedAtSwitch
      <4> QED BY <1>1, <1>3, <1>4, <4>1, Zenon DEF Typed
    <3> QED BY <1>12, <3>1, <3>2
  <2>2. frame' \in Index /\ depth' \in 0 .. MaxDepth /\ exn' \in Exn
    BY <1>12 DEF Forget, SwitchToThread
  <2> QED BY <1>12, <2>1, <2>2 DEF Forget, SwitchToThread
<1>13. ASSUME NEW t \in Thread, CopyThread(t) PROVE Typed'
  BY <1>4, <1>13 DEF CopyThread, Enter, Stash
<1>14. CASE NewThread
  <2>1. born + 1 \in Thread
    BY <1>14 DEF NewThread, PhaseInv, Thread
  <2> QED BY <1>14, <2>1 DEF NewThread, PhaseInv
<1>15. CASE NewStack
  <2>1. from \in Thread /\ to \in Thread
    BY <1>15, ConstructionFacts DEF NewStack
  <2>2. CopiedThread \in [frame : Index, depth : 0 .. MaxDepth, exn : Exn]
    <3>1. saved[from].exn.at \in Index
      BY <2>1, TypeFacts
    <3> QED BY <2>1, <3>1 DEF CopiedThread
  <2>3. CopiedLinks \in [Index -> Exn \cup {None}]
    BY <2>1 DEF CopiedLinks
  <2>4. fl_chunks' \in Nat
    BY <1>15 DEF NewStack
  <2>5. saved' \in [Thread -> [frame : Index, depth : 0 .. MaxDepth, exn : Exn]]
    BY <1>3, <1>15, <2>1, <2>2 DEF NewStack
  <2>6. size' \in [Thread -> Nat] /\ link' \in [Thread -> [Index -> Exn \cup {None}]]
    BY <1>15, <2>1, <2>3 DEF NewStack
  <2> QED BY <1>15, <2>1, <2>4, <2>5, <2>6 DEF NewStack
<1>16. CASE GetSavedThread
  BY <1>16 DEF GetSavedThread
<1>17. CASE Collect
  <2>1. CASE op' = "relock" /\ UNCHANGED <<heap, fl_chunks, data>>
    BY <1>17, <2>1 DEF Collect
  <2>2. ASSUME NEW n \in Nat, NEW grown \in Nat, NEW g \in Nat, Swept(n, grown, g) PROVE Typed'
    <3>1. Cardinality(live \ Roots) \in Nat
      BY LiveFinite
    <3>2. fl_chunks' \in Nat /\ data' \in Nat
      BY <2>2, <3>1 DEF Swept
    <3>3. size' \in [Thread -> Nat] /\ live' \subseteq Thread
      BY <2>2 DEF Swept
    <3>4. /\ link' \in [Thread -> [Index -> Exn \cup {None}]]
          /\ saved' \in [Thread -> [frame : Index, depth : 0 .. MaxDepth, exn : Exn]]
      BY <1>3, <1>5, <2>2 DEF Swept
    <3> QED BY <1>17, <2>2, <3>2, <3>3, <3>4 DEF Swept, Collect
  <2> QED BY <1>17, <2>1, <2>2, CollectFacts
<1> QED BY <1>6, <1>7, <1>8, <1>9, <1>10, <1>11, <1>12, <1>13, <1>14, <1>15, <1>16, <1>17 DEF Next

\* No step makes chunks: they are free, in an object or a stack, or lost.
LEMMA ChunkStep == ASSUME Inv, Typed', Next PROVE ChunkInv'
<1>1. Typed /\ Typed' /\ PhaseInv /\ LiveInv
  BY DEF Inv
<1>2. PICK f : Sums(f, size, Thread) /\ fl_chunks + data + f[Thread] + Cardinality(live) <= maxChunks
  BY DEF Inv, ChunkInv
<1>3. /\ f[Thread] \in Nat /\ fl_chunks \in Nat /\ data \in Nat /\ Cardinality(live) \in Nat /\ maxChunks \in Nat
      /\ need \in Nat /\ InitialChunks \in Nat /\ current \in Thread /\ born \in Nat
      /\ size \in [Thread -> Nat] /\ size' \in [Thread -> Nat]
  BY <1>1, <1>2, LiveFinite, ConstantFacts, TypeFacts DEF Sums, Typed
<1> USE DEF heap, regs, alloc
<1>4. CASE UNCHANGED <<size, live, fl_chunks, data>>
  BY <1>2, <1>4 DEF ChunkInv
<1>5. ASSUME NEW n \in DataRequests, AllocData(n) PROVE ChunkInv'
  <2>1. n \in Nat
    BY ConstantFacts
  <2>2. fl_chunks' + data' = fl_chunks + data /\ UNCHANGED <<size, live>>
    BY <1>3, <1>5, <2>1 DEF AllocData
  <2>3. fl_chunks' + data' + f[Thread] + Cardinality(live) <= maxChunks
    BY <1>2, <2>2
  <2> QED BY <1>2, <2>2, <2>3 DEF ChunkInv
<1>6. ASSUME NEW t \in Thread, NEW n \in Nat, NEW m \in Nat, size' = [size EXCEPT ![t] = n], n <= size[t] + m,
             m <= fl_chunks, fl_chunks' = fl_chunks - m, UNCHANGED <<data, live>>
      PROVE  ChunkInv'
  <2>1. size[t] \in Nat /\ size'[t] = n /\ \A u \in Thread \ {t} : size'[u] = size[u]
    BY <1>3, <1>6
  <2>2. PICK g : Sums(g, size', Thread) /\ g[Thread] = f[Thread] - size[t] + size'[t]
    BY <1>2, <1>3, <2>1, SumUpdate
  <2>3. g[Thread] \in Nat
    BY <2>2 DEF Sums
  <2>4. fl_chunks' + data' + g[Thread] + Cardinality(live') <= maxChunks
    BY <1>2, <1>3, <1>6, <2>1, <2>2, <2>3
  <2> QED BY <2>2, <2>4 DEF ChunkInv
<1>7. CASE PushGrown
  <2>1. size[current] + need \in Nat /\ size[current] + need <= size[current] + need
    BY <1>3
  <2>2. /\ size' = [size EXCEPT ![current] = size[current] + need] /\ need <= fl_chunks
        /\ fl_chunks' = fl_chunks - need /\ UNCHANGED <<data, live>>
    BY <1>3, <1>7 DEF PushGrown
  <2> QED BY <1>3, <1>6, <2>1, <2>2
<1>8. CASE NewStack
  <2>1. need = InitialChunks /\ to \in Thread
    BY <1>8, ConstructionFacts DEF NewStack, Inv, PhaseInv
  <2>2. InitialChunks <= size[to] + InitialChunks
    BY <1>3, <2>1
  <2> QED BY <1>3, <1>6, <1>8, <2>1, <2>2 DEF NewStack
<1>9. CASE NewThread
  <2>1. born + 1 \notin live
    BY <1>1, <1>3 DEF LiveInv
  <2>2. Cardinality(live') = Cardinality(live) + 1
    BY <1>9, <2>1, LiveFinite, FS_AddElement DEF NewThread
  <2>3. fl_chunks' = fl_chunks - 1 /\ UNCHANGED <<size, data>>
    BY <1>9 DEF NewThread
  <2>4. fl_chunks' + data' + f[Thread] + Cardinality(live') <= maxChunks
    BY <1>2, <1>3, <2>2, <2>3
  <2> QED BY <1>2, <2>3, <2>4 DEF ChunkInv
<1>10. ASSUME NEW n \in Nat, NEW grown \in Nat, NEW g \in Nat, Swept(n, grown, g) PROVE ChunkInv'
  <2> DEFINE C == live \ Roots
             cleared == [t \in Thread |-> IF t \in C THEN 0 ELSE size[t]]
  <2>1. C \in SUBSET Thread /\ current \notin C
    BY <1>1, <1>3, TypeFacts DEF Typed, Roots
  <2>2. \A t \in Thread : cleared[t] = IF t \in C THEN 0 ELSE size[t]
    OBVIOUS
  <2>3. cleared[current] = size[current] /\ \A t \in Thread \ {current} : size'[t] = cleared[t]
    BY <1>3, <1>10, <2>1 DEF Swept
  <2>4. size'[current] = n /\ size[current] \in Nat
    BY <1>3, <1>10 DEF Swept
  <2>5. n <= size[current] + grown /\ grown <= fl_chunks /\ g <= data
        /\ data' = data - g /\ fl_chunks' = fl_chunks - grown + g + Cardinality(C)
    BY <1>10 DEF Swept
  <2> HIDE DEF cleared
  <2>6. PICK f1 : Sums(f1, cleared, Thread) /\ f1[Thread] <= f[Thread]
    BY <1>2, <1>3, <2>1, <2>2, LiveFinite, SumClear
  <2>7. PICK f2 : Sums(f2, size', Thread) /\ f2[Thread] = f1[Thread] - cleared[current] + size'[current]
    <3>1. cleared[current] \in Nat /\ \A t \in Thread \ {current} : size'[t] = cleared[t]
      BY <2>3, <2>4
    <3>2. current \in Thread /\ size' \in [Thread -> Nat] /\ Sums(f1, cleared, Thread)
      BY <1>3, <2>6
    <3> QED BY <3>1, <3>2, SumUpdate
  <2>8. f1[Thread] \in Nat /\ f2[Thread] \in Nat
    BY <2>6, <2>7 DEF Sums
  <2>9. Cardinality(live') = Cardinality(live) - Cardinality(C) /\ Cardinality(C) \in Nat
    <3>1. live' = live \ C /\ live \cap C = C
      BY <1>10 DEF Swept
    <3>2. Cardinality(live \ C) = Cardinality(live) - Cardinality(live \cap C) /\ Cardinality(C) \in Nat
      BY LiveFinite, FS_Difference
    <3> HIDE DEF C
    <3> QED BY <3>1, <3>2
  <2> HIDE DEF C
  <2>10. fl_chunks' + data' + f2[Thread] + Cardinality(live') <= maxChunks
    BY <1>2, <1>3, <2>3, <2>4, <2>5, <2>6, <2>7, <2>8, <2>9
  <2> QED BY <2>7, <2>10 DEF ChunkInv
<1>11. CASE Collect
  BY <1>4, <1>10, <1>11, CollectFacts
<1> QED BY <1>4, <1>5, <1>7, <1>8, <1>9, <1>11
        DEF Next, Push, PushGrow, PushFault, Pop, InstallHandler, RemoveHandler, Raise, RaiseElsewhere,
            Forget, SwitchToThread, CopyThread, GetSavedThread

\* A stack has a chunk beyond the current frame, also the next time its thread runs.
LEMMA FramesStep == ASSUME Inv, Next PROVE FramesInside'
<1>1. Typed /\ PhaseInv /\ FramesInside
  BY DEF Inv
<1>2. /\ current \in Thread /\ frame \in Nat /\ size[current] \in Nat /\ need \in Nat
      /\ \A t \in Thread : size[t] \in Nat /\ saved[t].frame \in Nat
      /\ InitialChunks \in Nat
  BY <1>1, TypeFacts, ConstantFacts DEF Typed
<1> USE <1>1, <1>2 DEF FramesInside, GrowDisabled, Runnable, Roots, heap, regs, alloc
<1>3. CASE op' \notin {"run", "thread", "stack", "grow"}
  BY <1>3
<1>4. CASE /\ UNCHANGED <<size, saved, live, current, frame, growThreshold>> /\ op \in {"run", "thread", "stack", "grow"}
           /\ refs' \cup {savedThread'} \subseteq refs \cup {savedThread, current}
  <2>1. Runnable' \subseteq Runnable
    BY <1>4, TypeFacts DEF Typed
  <2> HIDE DEF Runnable
  <2> QED BY <1>4, <2>1
<1>5. CASE Push \/ Pop \/ PushGrown \/ Raise
  <2>1. exn.of = current => exn.at \in Nat
    BY TypeFacts DEF Typed
  <2>2. UNCHANGED <<saved, live, current, refs, savedThread, growThreshold>>
        /\ \A t \in Thread \ {current} : size'[t] = size[t]
    BY <1>5 DEF Push, Pop, PushGrown, Raise, Typed
  <2>3. ~GrowDisabled => frame' + 1 < size'[current]
    <3>1. CASE Push
      BY <3>1 DEF Push, StackFull
    <3>2. CASE Pop
      BY <3>2 DEF Pop
    <3>3. CASE PushGrown
      BY <3>3 DEF PushGrown, PhaseInv, Typed
    <3>4. CASE Raise
      BY <2>1, <3>4 DEF Raise
    <3> QED BY <1>5, <3>1, <3>2, <3>3, <3>4
  <2>4. op \in {"run", "grow"}
    BY <1>5 DEF Push, Pop, PushGrown, Raise
  <2> QED BY <2>2, <2>3, <2>4 DEF Typed
<1>6. ASSUME NEW t \in Thread, SwitchToThread(t) PROVE FramesInside'
  <2>1. t # current /\ t \in live /\ op = "run"
    BY <1>6 DEF Inv, PhaseInv, LiveInv, UsedThreadsLive, SwitchToThread
  <2>2. /\ current' = t /\ frame' = saved[t].frame /\ saved'[current].frame = frame
        /\ \A u \in Thread \ {t, current} : saved'[u] = saved[u]
        /\ UNCHANGED <<size, live, growThreshold, savedThread>> /\ refs' = (refs \ {t}) \cup {current}
    BY <1>6, <2>1 DEF SwitchToThread, SavedAtSwitch, Saved, Typed
  <2>3. t \in Runnable
    BY <1>6, <2>1 DEF SwitchToThread
  <2> QED BY <2>1, <2>2, <2>3 DEF Typed
<1>7. ASSUME NEW t \in Thread, CopyThread(t) PROVE FramesInside'
  <2>1. /\ \A u \in Thread \ {current} : saved'[u] = saved[u]
        /\ UNCHANGED <<size, live, current, frame, growThreshold>> /\ op = "run"
        /\ refs' \cup {savedThread'} \subseteq refs \cup {savedThread, current}
    BY <1>7 DEF CopyThread, Enter, Stash, Typed
  <2>2. Runnable' \subseteq Runnable /\ Runnable \subseteq Thread \ {current}
    BY <2>1, TypeFacts DEF Typed
  <2> HIDE DEF Runnable
  <2> QED BY <2>1, <2>2
<1>8. CASE NewThread
  <2>1. Roots \subseteq live
    BY <1>8 DEF NewThread, Inv, LiveInv, UsedThreadsLive
  <2>2. UNCHANGED <<size, saved, current, frame, growThreshold, refs, savedThread>> /\ op = "thread"
    BY <1>8 DEF NewThread
  <2> QED BY <2>1, <2>2
<1>9. CASE NewStack
  <2>1. from \in Thread /\ to \in Thread /\ to # current
    BY <1>9, ConstructionFacts DEF NewStack
  <2>2. CopiedThread.frame = saved[from].frame
    BY <2>1 DEF CopiedThread, Typed
  <2>3. /\ saved'[to] = CopiedThread /\ size'[to] = InitialChunks
        /\ \A u \in Thread \ {to} : size'[u] = size[u]
        /\ \A u \in Thread \ {to, current} : saved'[u] = saved[u]
        /\ UNCHANGED <<live, current, frame, growThreshold>> /\ op = "stack"
        /\ refs' \cup {savedThread'} \subseteq refs \cup {to, BOGUS}
        /\ op' = "run" => saved[from].frame + 1 < InitialChunks
        /\ op' \in {"run", "fault", "freed"}
    BY <1>9, <2>1 DEF NewStack, Typed
  <2>4. op' = "run" => saved'[to].frame + 1 < size'[to]
    BY <2>2, <2>3
  <2> QED BY <2>1, <2>3, <2>4, TypeFacts DEF Typed
<1>10. ASSUME NEW n \in Nat, NEW grown \in Nat, NEW g \in Nat, Swept(n, grown, g), Collect PROVE FramesInside'
  <2>1. UNCHANGED <<current, frame, refs, savedThread, growThreshold>>
    BY <1>10 DEF Collect
  <2>2. /\ \A u \in Roots \ {current} : u \in live => size'[u] = size[u] /\ saved'[u] = saved[u]
        /\ size'[current] = n
    BY <1>10 DEF Swept, Typed
  <2>3. frame + 1 < size[current] => frame + 1 < n
    BY <1>10 DEF Swept
  <2>4. live' \subseteq live /\ op' = op
    BY <1>10 DEF Swept
  <2> QED BY <2>1, <2>2, <2>3, <2>4
<1>11. CASE Collect
  BY <1>3, <1>10, <1>11, CollectFacts
<1> QED BY <1>3, <1>4, <1>5, <1>6, <1>7, <1>8, <1>9, <1>11
        DEF Next, PushGrow, PushFault, InstallHandler, RemoveHandler, RaiseElsewhere, AllocData, Forget, GetSavedThread

-----------------------------------------------------------------------------
\* The parts hold together: shrinking relies on the counters, raises on the
\* chains, the chains on what a copy may refer to, and all of them on the
\* threads in use being allocated.
THEOREM StackletsInvariant == Spec => []Inv
<1>1. Init => Inv
  <2> SUFFICES ASSUME Init PROVE Inv
    OBVIOUS
  <2>1. /\ current = 1 /\ 1 \in Thread /\ BOGUS \notin Thread /\ NoExn \in Exn /\ 0 \in Index
        /\ InitialChunks \in Nat \ {0} /\ InitialChunks < maxChunks /\ maxChunks \in Nat
        /\ MaxDepth \in Nat
    BY TypeFacts, ConstantFacts DEF Init
  <2>2. Typed
    <3>1. size \in [Thread -> Nat] /\ fl_chunks \in Nat
      BY <2>1 DEF Init
    <3>2. link \in [Thread -> [Index -> Exn \cup {None}]]
      BY DEF Init, EmptyLinks
    <3>3. saved \in [Thread -> [frame : Index, depth : 0 .. MaxDepth, exn : Exn]]
      BY <2>1 DEF Init, Blank
    <3>4. /\ live \subseteq Thread /\ born \in Thread /\ current \in Thread /\ frame \in Index /\ exn \in Exn
          /\ refs \subseteq Thread /\ savedThread \in Thread \cup {BOGUS}
          /\ {from, to} \subseteq Thread \cup {BOGUS} /\ growThreshold \in GrowThresholds
      BY <2>1 DEF Init
    <3>5. depth \in 0 .. MaxDepth /\ need \in Nat /\ data \in Nat
      BY <2>1 DEF Init
    <3>6. copyCurrent \in BOOLEAN /\ op = "run"
      BY DEF Init
    <3> QED BY <3>1, <3>2, <3>3, <3>4, <3>5, <3>6 DEF Typed
  <2>3. PhaseInv
    BY <2>1 DEF Init, PhaseInv, Roots
  <2>4. LiveInv
    BY <2>1 DEF Init, LiveInv, UsedThreadsLive, Roots
  <2>5. DepthInv
    BY DEF Init, DepthInv, Blank
  <2>6. LinkInv
    <3>1. \A t \in Thread : link[t] = EmptyLinks /\ saved[t].frame = 0 /\ saved[t].exn = NoExn
      BY DEF Init, Blank
    <3>2. \A t \in Thread : Chained(EmptyLinks, t, 0, NoExn)
      BY ChainEmpty
    <3>3. frame = 0 /\ exn = NoExn
      BY DEF Init
    <3> QED BY <2>1, <3>1, <3>2, <3>3 DEF LinkInv
  <2>7. KnownInv
    BY DEF Init, KnownInv, Known, EmptyLinks, Blank, None, NoExn, BOGUS
  <2>8. ChunkInv
    <3> DEFINE none == [t \in Thread |-> 0]
    <3>1. PICK f0 : Sums(f0, none, Thread) /\ f0[Thread] = 0
      BY SumZero
    <3>2. /\ none[1] \in Nat /\ none[1] = 0 /\ size[1] = InitialChunks /\ size \in [Thread -> Nat]
          /\ \A u \in Thread \ {1} : size[u] = none[u]
      BY <2>1, <2>2 DEF Init, Typed
    <3> HIDE DEF none
    <3>3. PICK f : Sums(f, size, Thread) /\ f[Thread] = f0[Thread] - none[1] + size[1]
      BY <2>1, <3>1, <3>2, SumUpdate
    <3>4. Cardinality(live) = 1
      BY FS_Singleton DEF Init
    <3>5. fl_chunks + data + f[Thread] + Cardinality(live) <= maxChunks
      BY <2>1, <3>1, <3>2, <3>3, <3>4 DEF Init
    <3> QED BY <3>3, <3>5 DEF ChunkInv
  <2>9. FramesInside
    <3>1. InitialChunks > 1
      <4>1. Kept(InitialChunks) \in 1 .. InitialChunks /\ Kept(InitialChunks) < InitialChunks
        BY <2>1, KeptFacts
      <4> QED BY <2>1, <4>1
    <3>2. Runnable = {}
      BY <2>1 DEF Init, Runnable, Roots
    <3> QED BY <2>1, <3>1, <3>2 DEF Init, FramesInside
  <2> QED BY <2>2, <2>3, <2>4, <2>5, <2>6, <2>7, <2>8, <2>9 DEF Inv
<1>2. Inv /\ [Next]_vars => Inv'
  <2> SUFFICES ASSUME Inv, [Next]_vars PROVE Inv'
    OBVIOUS
  <2>1. CASE Next
    BY <2>1, TypedStep, PhaseStep, LiveStep, DepthStep, LinkStep, KnownStep, ChunkStep, FramesStep DEF Inv
  <2>2. CASE UNCHANGED vars
    <3> USE <2>2 DEF vars, heap, regs, alloc, Inv
    <3>1. Typed' /\ DepthInv' /\ LiveInv' /\ FramesInside' /\ ChunkInv'
      BY DEF Typed, DepthInv, LiveInv, UsedThreadsLive, Roots, FramesInside, GrowDisabled, Runnable, ChunkInv
    <3>2. PhaseInv' /\ LinkInv' /\ KnownInv'
      BY DEF PhaseInv, Roots, Saved, LinkInv, KnownInv, Known
    <3> QED BY <3>1, <3>2
  <2> QED BY <2>1, <2>2
<1> QED BY <1>1, <1>2, PTL DEF Spec

\* Every variable keeps its type: a stack never has more chunks than the heap,
\* and the free chunks never go below zero.
THEOREM TypeCorrect == Spec => []TypeOK
<1>1. Inv => TypeOK
  <2> SUFFICES ASSUME Inv PROVE TypeOK
    OBVIOUS
  <2>1. Typed /\ maxChunks \in Nat
    BY ConstantFacts DEF Inv
  <2>2. /\ size \in [Thread -> 0 .. maxChunks] /\ fl_chunks \in 0 .. maxChunks
        /\ data \in 0 .. maxChunks
    BY <2>1, ChunkBounds DEF Typed
  <2> QED BY <2>1, <2>2 DEF Typed, TypeOK
<1> QED BY <1>1, StackletsInvariant, PTL

\* Unless growing is disabled, every stack has a chunk beyond its current
\* frame, whatever it was resized to.
THEOREM FramesStayInside == Spec => []FramesInside
<1>1. Inv => FramesInside
  BY DEF Inv
<1> QED BY <1>1, StackletsInvariant, PTL

\* No collection frees a thread in use, nor the one being copied.
THEOREM UsedThreadsStayLive == Spec => []UsedThreadsLive
<1>1. Inv => UsedThreadsLive
  BY DEF Inv, LiveInv
<1> QED BY <1>1, StackletsInvariant, PTL

\* In the first thread a raise goes to the innermost handler.
THEOREM ExnStackIsInnermost == Spec => []ExnStackInnermost
<1>1. Inv => ExnStackInnermost
  <2> SUFFICES ASSUME Inv PROVE ExnStackInnermost
    OBVIOUS
  <2>1. ASSUME NEW f \in Index, NEW x \in Exn, Chained(link[1], 1, f, x) PROVE Innermost(1, f, x)
    <3>1. /\ MaxFrames \in Nat /\ f \in 0 .. MaxFrames /\ x.at \in 0 .. MaxFrames
      BY TypeFacts, ConstantFacts DEF Index
    <3>2. 0 .. f \subseteq Index
      BY <3>1 DEF Index
    <3>3. /\ x.of = 1 => /\ x.at < f + 1 /\ link[1][x.at] # None
                         /\ \A j \in Index : x.at < j /\ j < f + 1 => link[1][j] = None
          /\ x.of # 1 => \A j \in Index : j < f + 1 => link[1][j] = None
      BY <2>1 DEF Chained, Points
    <3> QED BY <3>1, <3>2, <3>3 DEF Innermost
  <2>2. current = 1 => Innermost(1, frame, exn)
    BY <2>1 DEF Inv, Typed, LinkInv
  <2>3. 1 \in Runnable => Innermost(1, saved[1].frame, saved[1].exn)
    BY <2>1 DEF Inv, Typed, LinkInv, Runnable
  <2> QED BY <2>2, <2>3 DEF ExnStackInnermost
<1> QED BY <1>1, StackletsInvariant, PTL
=============================================================================
