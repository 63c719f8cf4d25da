---------------------------- MODULE SignalsProofs ----------------------------
(***************************************************************************)
(* Proofs about Signals, for any set of POSIX threads, of receivers and of *)
(* signals, as long as Thread.switch is called on the main thread alone.   *)
(***************************************************************************)
EXTENDS Signals, SumLemmas, TLAPS

\* The places of a call of the runtime, and those before its switch.
InRuntime    == {"enter", "enter_limit", "switch", "switch_test", "leave", "leave_test", "leave_set"}
BeforeSwitch == {"enter", "enter_limit", "switch"}

Places == InRuntime \cup InHandler \cup
          {"ml", "begin", "begin_test", "end", "end_test", "start", "start_set",
           "suspend", "suspend_set", "c_limit", "c_handler", "c_worker", "c_return", "c_done"}

Returns == {"ml", "h_saved", "c_handler", "c_worker", "c_return", "c_done", "suspend"}
Calls   == [op : {"collect", "switch"}, to : Green, ret : Returns]

\* t is in a call of the runtime that returns to place r.
Toward(t, r) == pc[t] \in InRuntime /\ call[t].ret = r

\* The nesting level k with which a call or a store returns to place r.
LevelAt(r, k) == /\ k >= 0
                 /\ r \in {"h_saved", "c_worker", "c_return", "c_done", "suspend"} => k = 1
                 /\ r = "c_handler" => k = 2

\* What the place of a thread says about its share of atomicState: a call
\* gives back what it takes, so the level it returns with can be told at
\* every place.
NestInv(t) ==
  LET n == nest[t]
      r == call[t].ret
      switching == call[t].op = "switch"
  IN  /\ pc[t] \in InRuntime => r \in {"ml", "h_saved", "c_handler", "c_worker", "c_done"}
      /\ pc[t] \in {"enter", "enter_limit"} /\ ~switching => r = "ml"
      /\ pc[t] \in {"switch", "switch_test"} => switching
      /\ pc[t] = "enter" => LevelAt(r, IF switching THEN n - 1 ELSE n)
      /\ pc[t] = "enter_limit" => LevelAt(r, IF switching THEN n - 2 ELSE n - 1)
      /\ pc[t] = "switch" => LevelAt(r, n - 2)
      /\ pc[t] \in {"switch_test", "leave"} => LevelAt(r, n - 1)
      /\ pc[t] \in {"leave_test", "leave_set"} => LevelAt(r, n)
      /\ pc[t] = "begin" => r \in {"ml", "suspend", "c_return"} /\ LevelAt(r, n + 1)
      /\ pc[t] = "begin_test" => r \in {"ml", "suspend", "c_return"} /\ LevelAt(r, n)
      /\ pc[t] = "end" => r = "ml" /\ n >= 1
      /\ pc[t] = "end_test" => r = "ml"
      /\ pc[t] \in InHandler \cup {"c_worker", "c_return", "c_done", "start", "start_set",
                                   "suspend", "suspend_set"} => n = 1
      /\ pc[t] = "c_handler" => n = 2
      /\ pc[t] = "c_limit" => n = 3

\* Which thread is saved, from a call from C to handlerLoop and from the start
\* of the handler to its first look; and that a worker, wherever it waits,
\* has a thread to return to.
SavedInv(t) ==
  /\ pc[t] \in {"c_limit", "c_handler"} \/ Toward(t, "c_handler") => saved[t] = "user"
  /\ pc[t] \in {"start_set", "suspend_set", "h_saved"} \/ Toward(t, "h_saved") => saved[t] \in Green
  /\ saved[t] # None => \/ pc[t] \in {"c_limit", "c_handler", "start_set", "suspend_set", "h_saved"}
                        \/ Toward(t, "c_handler") \/ Toward(t, "h_saved")
  /\ savedRef[t] \in {None, "user"}
  /\ current[t] = "worker" => \/ savedRef[t] = "user"
                              \/ pc[t] \in BeforeSwitch /\ call[t].ret = "c_done"
  /\ pc[t] \in BeforeSwitch /\ call[t].op = "switch" /\ call[t].to = "worker" => savedRef[t] = "user"
  /\ saved[t] = "worker" => savedRef[t] = "user"
  /\ pc[t] \in {"begin", "begin_test"} /\ call[t].ret = "c_return" => savedRef[t] = "user"
  /\ pc[t] = "c_return" => savedRef[t] = "user"

\* Main is on its way to the handler or in it.
Busy == pc[Main] \in InHandler \cup {"start_set", "suspend_set"} \/ Toward(Main, "h_saved")

\* No other thread is on its way to the handler, or in a switch that could
\* start it.
ForeignInv(t) ==
  /\ pc[t] \notin InHandler \cup {"start", "start_set", "suspend", "suspend_set"}
  /\ ~Toward(t, "h_saved")
  /\ pc[t] \in {"begin", "begin_test"} => call[t].ret # "suspend"
  /\ pc[t] \in BeforeSwitch \cup {"switch_test"} /\ call[t].op = "switch" => call[t].ret # "ml"

\* amInSignalHandler says when the handler runs, which starts for a pending
\* signal and goes back to the thread it interrupted.
MainInv ==
  /\ amInSignalHandler <=> Busy
  /\ Toward(Main, "h_saved") /\ pc[Main] \in BeforeSwitch => call[Main].to = "handler"
  /\ Toward(Main, "h_saved") /\ pc[Main] \notin BeforeSwitch => current[Main] = "handler"
  /\ pc[Main] \in InHandler => current[Main] = "handler"
  /\ pc[Main] \in {"h_find", "h_reset", "h_unblock", "h_finish"} => resume \in Green
  /\ resume # None => pc[Main] \in {"h_find", "h_reset", "h_unblock", "h_finish"}
  /\ resume = "worker" => savedRef[Main] = "user"
  /\ pc[Main] \in {"start", "suspend"} => signalIsPending
  /\ pc[Main] \in {"begin", "begin_test"} /\ call[Main].ret = "suspend" => signalIsPending

HandlerInv == MainInv /\ \A t \in Mutators \ {Main} : ForeignInv(t)

\* The counter is the sum of the threads' shares.
Balance == \E f : Sums(f, nest, Mutators) /\ atomicState = f[Mutators]

\* The model stops at a collision.
CollidedInv == collided <=> Collision

\* Outside collisions, GC_handler and the handler thread do not touch
\* signalsPending at the same time.
SignalInv ==
  /\ blocked <=> pc[Main] \in {"h_find", "h_reset", "h_unblock"}
  /\ blocked /\ Main \in Receivers => h[Main].at = "idle"
  /\ pc[Main] \notin {"h_reset", "h_unblock"} => fs = {}
  /\ ~collided => /\ \A r \in Receivers : h[r].at = "add" => h[r].load = signalsPending /\ signalIsPending
                  /\ pc[Main] = "h_reset" => owed \subseteq fs
                  /\ NoSignalLost


USE SignalsAssumption

\* The variables that have a value for each mutator are functions.
FunctionInv ==
  /\ pc \in [Mutators -> Places] /\ call \in [Mutators -> Calls]
  /\ nest \in [Mutators -> Nat] /\ tmp \in [Mutators -> Nat]
  /\ current \in [Mutators -> Green] /\ saved \in [Mutators -> Green \cup {None}]
  /\ savedRef \in [Mutators -> Green \cup {None}]

MutatorStep(t) == Runtime(t) \/ HandlerThread(t) \/ MLCode(t)

\* A step of one mutator leaves what belongs to the others alone.
Untouched(u) ==
  /\ pc'[u] = pc[u] /\ call'[u] = call[u] /\ nest'[u] = nest[u]
  /\ current'[u] = current[u] /\ saved'[u] = saved[u] /\ savedRef'[u] = savedRef[u]

\* What belongs to a thread changes in that thread's own steps only.
LEMMA OthersUntouched ==
  ASSUME FunctionInv, NEW t \in Mutators, MutatorStep(t), NEW u \in Mutators \ {t}
  PROVE  Untouched(u)
<1> USE DEF FunctionInv, Untouched, Goto, Add, Load, Store, Started, CallSwitch, mutVars, thrVars, Rest, Unlocked
<1>1. CASE Runtime(t)
  BY <1>1 DEF Runtime, BeginAtomic, BeginAtomicLimit, EndAtomic, EndAtomicTest, EndAtomicSet,
     SwitchToThread, SwitchTest, StartSignalHandler, StartSignalHandlerSet
<1>2. CASE HandlerThread(t)
  BY <1>2 DEF HandlerThread, HandlerSaved, HandlerFind, HandlerReset, HandlerRun, FinishSignalHandler
<1>3. CASE MLCode(t)
  <2>1. CASE \/ AtomicBegin(t) \/ AtomicBeginStore(t) \/ AtomicBeginTest(t)
             \/ AtomicEnd(t) \/ AtomicEndStore(t) \/ AtomicEndTest(t) \/ LimitCheck(t)
    BY <2>1 DEF AtomicBegin, AtomicBeginStore, AtomicBeginTest, AtomicEnd, AtomicEndStore, AtomicEndTest, LimitCheck
  <2>2. CASE Switch(t) \/ Suspend(t) \/ SuspendStart(t) \/ SuspendSet(t)
    BY <2>2 DEF Switch, Suspend, SuspendStart, SuspendSet
  <2>3. CASE \/ CallFromC(t) \/ CallFromCSwitch(t) \/ HandlerLoop(t)
             \/ WorkerStart(t) \/ WorkerReturn(t) \/ ReturnToC(t) \/ CallFromCDone(t)
    BY <2>3 DEF CallFromC, CallFromCSwitch, HandlerLoop, WorkerStart, WorkerReturn, ReturnToC, CallFromCDone
  <2> QED BY <1>3, <2>1, <2>2, <2>3 DEF MLCode
<1> QED BY <1>1, <1>2, <1>3 DEF MutatorStep

\* Every call of a mutator gives back to atomicState what it took.
LEMMA NestStep ==
  ASSUME FunctionInv, NEW t \in Mutators, MutatorStep(t), NestInv(t),
         pc[t] \in {"start", "start_set"} => nest[t] = 1,
         pc[t] = "switch_test" /\ atomicState = 1 => nest[t] = 1
  PROVE  NestInv(t)'
<1> USE DEF FunctionInv, NestInv, LevelAt, Goto, InRuntime, InHandler
<1>1. CASE Runtime(t)
  <2> USE DEF Add, Rest
  <2>1. CASE BeginAtomic(t)
    BY <2>1 DEF BeginAtomic
  <2>2. CASE BeginAtomicLimit(t)
    BY <2>2 DEF BeginAtomicLimit
  <2>3. CASE EndAtomic(t)
    BY <2>3 DEF EndAtomic
  <2>4. CASE EndAtomicTest(t)
    BY <2>4 DEF EndAtomicTest
  <2>5. CASE EndAtomicSet(t)
    BY <2>5 DEF EndAtomicSet
  <2>6. CASE SwitchToThread(t)
    BY <2>6 DEF SwitchToThread
  <2>7. CASE SwitchTest(t)
    BY <2>7 DEF SwitchTest
  <2>8. CASE StartSignalHandler(t)
    BY <2>8 DEF StartSignalHandler
  <2>9. CASE StartSignalHandlerSet(t)
    BY <2>9 DEF StartSignalHandlerSet, Calls, Returns
  <2> QED BY <1>1, <2>1, <2>2, <2>3, <2>4, <2>5, <2>6, <2>7, <2>8, <2>9 DEF Runtime
<1>2. CASE HandlerThread(t)
  <2> USE DEF Calls, Returns
  <2>1. CASE HandlerSaved(t)
    BY <2>1 DEF HandlerSaved
  <2>2. CASE HandlerFind(t)
    BY <2>2 DEF HandlerFind
  <2>3. CASE HandlerReset(t)
    BY <2>3 DEF HandlerReset
  <2>4. CASE HandlerRun(t)
    BY <2>4 DEF HandlerRun
  <2>5. CASE FinishSignalHandler(t)
    BY <2>5 DEF FinishSignalHandler
  <2> QED BY <1>2, <2>1, <2>2, <2>3, <2>4, <2>5 DEF HandlerThread
<1>3. CASE MLCode(t)
  <2> USE DEF Calls, Returns, Add, Load, Store, CallSwitch, NoCall, Rest, Unlocked
  <2>1. CASE AtomicBegin(t)
    BY <2>1 DEF AtomicBegin
  <2>2. CASE AtomicBeginStore(t)
    BY <2>2 DEF AtomicBeginStore
  <2>3. CASE AtomicBeginTest(t)
    BY <2>3 DEF AtomicBeginTest
  <2>4. CASE AtomicEnd(t)
    BY <2>4 DEF AtomicEnd
  <2>5. CASE AtomicEndStore(t)
    BY <2>5 DEF AtomicEndStore
  <2>6. CASE AtomicEndTest(t)
    BY <2>6 DEF AtomicEndTest
  <2>7. CASE LimitCheck(t)
    BY <2>7 DEF LimitCheck
  <2>8. CASE Switch(t)
    BY <2>8 DEF Switch
  <2>9. CASE Suspend(t)
    BY <2>9 DEF Suspend
  <2>10. CASE SuspendStart(t)
    BY <2>10 DEF SuspendStart
  <2>11. CASE SuspendSet(t)
    BY <2>11 DEF SuspendSet
  <2>12. CASE CallFromC(t)
    BY <2>12 DEF CallFromC
  <2>13. CASE CallFromCSwitch(t)
    BY <2>13 DEF CallFromCSwitch
  <2>14. CASE HandlerLoop(t)
    BY <2>14 DEF HandlerLoop
  <2>15. CASE WorkerStart(t)
    BY <2>15 DEF WorkerStart
  <2>16. CASE WorkerReturn(t)
    BY <2>16 DEF WorkerReturn
  <2>17. CASE ReturnToC(t)
    BY <2>17 DEF ReturnToC
  <2>18. CASE CallFromCDone(t)
    BY <2>18 DEF CallFromCDone
  <2> QED BY <1>3, <2>1, <2>2, <2>3, <2>4, <2>5, <2>6, <2>7, <2>8, <2>9, <2>10, <2>11,
          <2>12, <2>13, <2>14, <2>15, <2>16, <2>17, <2>18 DEF MLCode
<1> QED BY <1>1, <1>2, <1>3 DEF MutatorStep

\* The counter and the thread's share change by the same amount, stores of
\* compiled code and setAtomic included, unless a collision has happened.
LEMMA BalanceStep ==
  ASSUME FunctionInv, FunctionInv', atomicState \in Nat, Balance, ~Collision,
         NEW t \in Mutators, NestInv(t), MutatorStep(t)
  PROVE  Balance' /\ atomicState' \in Nat
<1>1. /\ pc[t] \in {"begin", "end"} => tmp[t] = atomicState
      /\ pc[t] \in {"start_set", "suspend_set"} => atomicState = 1 /\ nest[t] = 1
  BY DEF Collision, NestInv
<1>2. atomicState' = atomicState + (nest'[t] - nest[t])
  <2> USE DEF FunctionInv, Goto, Add, Load, Store
  <2>1. CASE Runtime(t)
    <3>1. CASE BeginAtomic(t)
      BY <3>1, <1>1 DEF BeginAtomic
    <3>2. CASE BeginAtomicLimit(t)
      BY <3>2, <1>1 DEF BeginAtomicLimit
    <3>3. CASE EndAtomic(t)
      BY <3>3, <1>1 DEF EndAtomic
    <3>4. CASE EndAtomicTest(t)
      BY <3>4, <1>1 DEF EndAtomicTest
    <3>5. CASE EndAtomicSet(t)
      BY <3>5, <1>1 DEF EndAtomicSet
    <3>6. CASE SwitchToThread(t)
      BY <3>6, <1>1 DEF SwitchToThread
    <3>7. CASE SwitchTest(t)
      BY <3>7, <1>1 DEF SwitchTest
    <3>8. CASE StartSignalHandler(t)
      BY <3>8, <1>1 DEF StartSignalHandler
    <3>9. CASE StartSignalHandlerSet(t)
      BY <3>9, <1>1 DEF StartSignalHandlerSet
    <3> QED BY <2>1, <3>1, <3>2, <3>3, <3>4, <3>5, <3>6, <3>7, <3>8, <3>9 DEF Runtime
  <2>2. CASE HandlerThread(t)
    BY <2>2 DEF HandlerThread, HandlerSaved, HandlerFind, HandlerReset, HandlerRun, FinishSignalHandler
  <2>3. CASE MLCode(t)
    <3> USE DEF Unlocked
    <3>1. CASE AtomicBegin(t)
      BY <3>1, <1>1 DEF AtomicBegin
    <3>2. CASE AtomicBeginStore(t)
      BY <3>2, <1>1 DEF AtomicBeginStore
    <3>3. CASE AtomicBeginTest(t)
      BY <3>3, <1>1 DEF AtomicBeginTest
    <3>4. CASE AtomicEnd(t)
      BY <3>4, <1>1 DEF AtomicEnd
    <3>5. CASE AtomicEndStore(t)
      BY <3>5, <1>1 DEF AtomicEndStore
    <3>6. CASE AtomicEndTest(t)
      BY <3>6, <1>1 DEF AtomicEndTest
    <3>7. CASE LimitCheck(t)
      BY <3>7, <1>1 DEF LimitCheck
    <3>8. CASE Switch(t)
      BY <3>8, <1>1 DEF Switch
    <3>9. CASE Suspend(t)
      BY <3>9, <1>1 DEF Suspend
    <3>10. CASE SuspendStart(t)
      BY <3>10, <1>1 DEF SuspendStart
    <3>11. CASE SuspendSet(t)
      BY <3>11, <1>1 DEF SuspendSet
    <3>12. CASE CallFromC(t)
      BY <3>12, <1>1 DEF CallFromC
    <3>13. CASE CallFromCSwitch(t)
      BY <3>13, <1>1 DEF CallFromCSwitch
    <3>14. CASE HandlerLoop(t)
      BY <3>14, <1>1 DEF HandlerLoop
    <3>15. CASE WorkerStart(t)
      BY <3>15, <1>1 DEF WorkerStart
    <3>16. CASE WorkerReturn(t)
      BY <3>16, <1>1 DEF WorkerReturn
    <3>17. CASE ReturnToC(t)
      BY <3>17, <1>1 DEF ReturnToC
    <3>18. CASE CallFromCDone(t)
      BY <3>18, <1>1 DEF CallFromCDone
    <3> QED BY <2>3, <3>1, <3>2, <3>3, <3>4, <3>5, <3>6, <3>7, <3>8, <3>9, <3>10, <3>11,
            <3>12, <3>13, <3>14, <3>15, <3>16, <3>17, <3>18 DEF MLCode
  <2> QED BY <2>1, <2>2, <2>3 DEF MutatorStep
<1>3. PICK f : Sums(f, nest, Mutators) /\ atomicState = f[Mutators]
  BY DEF Balance
<1>4. \A u \in Mutators \ {t} : nest'[u] = nest[u]
  BY OthersUntouched DEF Untouched
<1>5. nest \in [Mutators -> Nat] /\ nest' \in [Mutators -> Nat]
  BY DEF FunctionInv
<1>6. PICK g : Sums(g, nest', Mutators) /\ g[Mutators] = f[Mutators] - nest[t] + nest'[t]
  BY <1>3, <1>4, <1>5, SumUpdate
<1>7. g[Mutators] \in Nat
  BY <1>6 DEF Sums
<1>8. atomicState' = g[Mutators]
  <2>1. nest[t] \in Nat /\ nest'[t] \in Nat
    BY <1>5
  <2> QED BY <1>2, <1>3, <1>6, <1>7, <2>1
<1> QED BY <1>6, <1>7, <1>8 DEF Balance

\* The types of what belongs to a mutator: no share of atomicState becomes
\* negative, and a switch is always to a thread.
LEMMA FunctionStep ==
  ASSUME FunctionInv, atomicState \in Nat, NEW t \in Mutators, NestInv(t), SavedInv(t),
         pc[t] = "h_finish" => resume \in Green, MutatorStep(t)
  PROVE  FunctionInv'
<1> USE DEF FunctionInv, Goto, Places, Returns, Calls, InRuntime, InHandler,
        Add, Load, Store, Started, CallSwitch, NoCall, mutVars, thrVars, Rest, Unlocked
<1>0. "user" \in Green /\ "handler" \in Green /\ "chandler" \in Green /\ "worker" \in Green
  BY DEF Green
<1>1. CASE Runtime(t)
  <2>1. CASE BeginAtomic(t)
    BY <2>1, <1>0 DEF BeginAtomic
  <2>2. CASE BeginAtomicLimit(t)
    BY <2>2, <1>0 DEF BeginAtomicLimit
  <2>3. CASE EndAtomic(t)
    BY <2>3, <1>0 DEF EndAtomic, NestInv, LevelAt
  <2>4. CASE EndAtomicTest(t)
    BY <2>4, <1>0 DEF EndAtomicTest
  <2>5. CASE EndAtomicSet(t)
    BY <2>5, <1>0 DEF EndAtomicSet
  <2>6. CASE SwitchToThread(t)
    BY <2>6, <1>0 DEF SwitchToThread, NestInv, LevelAt
  <2>7. CASE SwitchTest(t)
    BY <2>7, <1>0 DEF SwitchTest
  <2>8. CASE StartSignalHandler(t)
    BY <2>8, <1>0 DEF StartSignalHandler
  <2>9. CASE StartSignalHandlerSet(t)
    BY <2>9, <1>0 DEF StartSignalHandlerSet
  <2> QED BY <1>1, <2>1, <2>2, <2>3, <2>4, <2>5, <2>6, <2>7, <2>8, <2>9 DEF Runtime
<1>2. CASE HandlerThread(t)
  <2>1. CASE HandlerSaved(t)
    BY <2>1, <1>0 DEF HandlerSaved
  <2>2. CASE HandlerFind(t)
    BY <2>2, <1>0 DEF HandlerFind
  <2>3. CASE HandlerReset(t)
    BY <2>3, <1>0 DEF HandlerReset
  <2>4. CASE HandlerRun(t)
    BY <2>4, <1>0 DEF HandlerRun
  <2>5. CASE FinishSignalHandler(t)
    BY <2>5, <1>0 DEF FinishSignalHandler
  <2> QED BY <1>2, <2>1, <2>2, <2>3, <2>4, <2>5 DEF HandlerThread
<1>3. CASE MLCode(t)
  <2>1. CASE AtomicBegin(t)
    BY <2>1, <1>0 DEF AtomicBegin
  <2>2. CASE AtomicBeginStore(t)
    BY <2>2, <1>0 DEF AtomicBeginStore
  <2>3. CASE AtomicBeginTest(t)
    BY <2>3, <1>0 DEF AtomicBeginTest
  <2>4. CASE AtomicEnd(t)
    BY <2>4, <1>0 DEF AtomicEnd
  <2>5. CASE AtomicEndStore(t)
    BY <2>5, <1>0 DEF AtomicEndStore, NestInv
  <2>6. CASE AtomicEndTest(t)
    <3>1. call' = [call EXCEPT ![t] = [@ EXCEPT !.op = "collect"]]
      BY <2>6 DEF AtomicEndTest
    <3>2. [call[t] EXCEPT !.op = "collect"] \in Calls
      OBVIOUS
    <3>3. call' \in [Mutators -> Calls]
      <4> HIDE DEF Calls
      <4> QED BY <3>1, <3>2
    <3>4. pc' \in [Mutators -> Places]
      BY <2>6 DEF AtomicEndTest
    <3> QED BY <2>6, <3>3, <3>4 DEF AtomicEndTest
  <2>7. CASE LimitCheck(t)
    BY <2>7, <1>0 DEF LimitCheck
  <2>8. CASE Switch(t)
    BY <2>8, <1>0 DEF Switch
  <2>9. CASE Suspend(t)
    BY <2>9, <1>0 DEF Suspend
  <2>10. CASE SuspendStart(t)
    BY <2>10, <1>0 DEF SuspendStart
  <2>11. CASE SuspendSet(t)
    BY <2>11, <1>0 DEF SuspendSet
  <2>12. CASE CallFromC(t)
    BY <2>12, <1>0 DEF CallFromC
  <2>13. CASE CallFromCSwitch(t)
    BY <2>13, <1>0 DEF CallFromCSwitch
  <2>14. CASE HandlerLoop(t)
    BY <2>14, <1>0 DEF HandlerLoop
  <2>15. CASE WorkerStart(t)
    BY <2>15, <1>0 DEF WorkerStart
  <2>16. CASE WorkerReturn(t)
    BY <2>16, <1>0 DEF WorkerReturn
  <2>17. CASE ReturnToC(t)
    BY <2>17, <1>0 DEF ReturnToC, SavedInv
  <2>18. CASE CallFromCDone(t)
    BY <2>18, <1>0 DEF CallFromCDone, NestInv
  <2> QED BY <1>3, <2>1, <2>2, <2>3, <2>4, <2>5, <2>6, <2>7, <2>8, <2>9, <2>10, <2>11,
          <2>12, <2>13, <2>14, <2>15, <2>16, <2>17, <2>18 DEF MLCode
<1> QED BY <1>1, <1>2, <1>3 DEF MutatorStep

\* What is saved is there when it is needed: the thread a call from C came
\* from, the thread the handler interrupted.
LEMMA SavedStep ==
  ASSUME FunctionInv, NEW t \in Mutators, NestInv(t), SavedInv(t), MutatorStep(t),
         pc[t] = "switch_test" /\ atomicState = 1 => nest[t] = 1,
         pc[t] = "h_finish" => resume \in Green /\ (resume = "worker" => savedRef[t] = "user")
  PROVE  SavedInv(t)'
<1> USE DEF FunctionInv, SavedInv, Toward, Goto, InRuntime, BeforeSwitch, Returns, Calls, Green, None,
        Started, CallSwitch, NoCall, Load, Store, thrVars, Unlocked
<1>1. CASE Runtime(t)
  <2>1. CASE BeginAtomic(t)
    BY <2>1 DEF BeginAtomic
  <2>2. CASE BeginAtomicLimit(t)
    BY <2>2 DEF BeginAtomicLimit, NestInv
  <2>3. CASE EndAtomic(t)
    BY <2>3 DEF EndAtomic
  <2>4. CASE EndAtomicTest(t)
    BY <2>4 DEF EndAtomicTest, NestInv, InHandler
  <2>5. CASE EndAtomicSet(t)
    BY <2>5 DEF EndAtomicSet, NestInv, InHandler
  <2>6. CASE SwitchToThread(t)
    BY <2>6 DEF SwitchToThread, NestInv
  <2>7. CASE SwitchTest(t)
    BY <2>7 DEF SwitchTest, NestInv, LevelAt
  <2>8. CASE StartSignalHandler(t)
    BY <2>8 DEF StartSignalHandler
  <2>9. CASE StartSignalHandlerSet(t)
    BY <2>9 DEF StartSignalHandlerSet
  <2> QED BY <1>1, <2>1, <2>2, <2>3, <2>4, <2>5, <2>6, <2>7, <2>8, <2>9 DEF Runtime
<1>2. CASE HandlerThread(t)
  <2>1. CASE HandlerSaved(t)
    BY <2>1 DEF HandlerSaved
  <2>2. CASE HandlerFind(t)
    BY <2>2 DEF HandlerFind
  <2>3. CASE HandlerReset(t)
    BY <2>3 DEF HandlerReset
  <2>4. CASE HandlerRun(t)
    BY <2>4 DEF HandlerRun
  <2>5. CASE FinishSignalHandler(t)
    BY <2>5 DEF FinishSignalHandler
  <2> QED BY <1>2, <2>1, <2>2, <2>3, <2>4, <2>5 DEF HandlerThread
<1>3. CASE MLCode(t)
  <2>1. CASE AtomicBegin(t)
    BY <2>1 DEF AtomicBegin
  <2>2. CASE AtomicBeginStore(t)
    BY <2>2 DEF AtomicBeginStore
  <2>3. CASE AtomicBeginTest(t)
    BY <2>3 DEF AtomicBeginTest, NestInv, InHandler
  <2>4. CASE AtomicEnd(t)
    BY <2>4 DEF AtomicEnd
  <2>5. CASE AtomicEndStore(t)
    BY <2>5 DEF AtomicEndStore
  <2>6. CASE AtomicEndTest(t)
    BY <2>6 DEF AtomicEndTest, NestInv, InHandler
  <2>7. CASE LimitCheck(t)
    BY <2>7 DEF LimitCheck
  <2>8. CASE Switch(t)
    BY <2>8 DEF Switch
  <2>9. CASE Suspend(t)
    BY <2>9 DEF Suspend
  <2>10. CASE SuspendStart(t)
    BY <2>10 DEF SuspendStart
  <2>11. CASE SuspendSet(t)
    BY <2>11 DEF SuspendSet
  <2>12. CASE CallFromC(t)
    BY <2>12 DEF CallFromC
  <2>13. CASE CallFromCSwitch(t)
    BY <2>13 DEF CallFromCSwitch
  <2>14. CASE HandlerLoop(t)
    BY <2>14 DEF HandlerLoop
  <2>15. CASE WorkerStart(t)
    BY <2>15 DEF WorkerStart
  <2>16. CASE WorkerReturn(t)
    BY <2>16 DEF WorkerReturn
  <2>17. CASE ReturnToC(t)
    BY <2>17 DEF ReturnToC
  <2>18. CASE CallFromCDone(t)
    BY <2>18 DEF CallFromCDone
  <2> QED BY <1>3, <2>1, <2>2, <2>3, <2>4, <2>5, <2>6, <2>7, <2>8, <2>9, <2>10, <2>11,
          <2>12, <2>13, <2>14, <2>15, <2>16, <2>17, <2>18 DEF MLCode
<1> QED BY <1>1, <1>2, <1>3 DEF MutatorStep

\* A thread other than the main one stays away from the handler, if it does
\* not call Thread.switch: its switches, in calls from C, are made at a level
\* at which GC_switchToThread does not look for signals.
LEMMA ForeignStep ==
  ASSUME FunctionInv, Switchers \subseteq {Main}, NEW t \in Mutators \ {Main}, NestInv(t), ForeignInv(t),
         pc[t] = "switch_test" /\ atomicState = 1 => nest[t] = 1, MutatorStep(t)
  PROVE  ForeignInv(t)' /\ UNCHANGED <<sigVars, hdlVars, owed>>
<1> USE DEF FunctionInv, NestInv, ForeignInv, Toward, Goto, InRuntime, InHandler, BeforeSwitch, Calls,
        CallSwitch, NoCall, Load, Store, Unlocked, Rest, sigVars, hdlVars, histVars
<1>1. CASE Runtime(t)
  <2>1. CASE BeginAtomic(t)
    BY <2>1 DEF BeginAtomic
  <2>2. CASE BeginAtomicLimit(t)
    BY <2>2 DEF BeginAtomicLimit
  <2>3. CASE EndAtomic(t)
    BY <2>3 DEF EndAtomic
  <2>4. CASE EndAtomicTest(t)
    BY <2>4 DEF EndAtomicTest
  <2>5. CASE EndAtomicSet(t)
    BY <2>5 DEF EndAtomicSet
  <2>6. CASE SwitchToThread(t)
    BY <2>6 DEF SwitchToThread
  <2>7. CASE SwitchTest(t)
    BY <2>7 DEF SwitchTest, LevelAt
  <2>8. CASE StartSignalHandler(t)
    BY <2>8 DEF StartSignalHandler
  <2>9. CASE StartSignalHandlerSet(t)
    BY <2>9 DEF StartSignalHandlerSet
  <2> QED BY <1>1, <2>1, <2>2, <2>3, <2>4, <2>5, <2>6, <2>7, <2>8, <2>9 DEF Runtime
<1>2. CASE HandlerThread(t)
  <2>1. CASE HandlerSaved(t)
    BY <2>1 DEF HandlerSaved
  <2>2. CASE HandlerFind(t)
    BY <2>2 DEF HandlerFind
  <2>3. CASE HandlerReset(t)
    BY <2>3 DEF HandlerReset
  <2>4. CASE HandlerRun(t)
    BY <2>4 DEF HandlerRun
  <2>5. CASE FinishSignalHandler(t)
    BY <2>5 DEF FinishSignalHandler
  <2> QED BY <1>2, <2>1, <2>2, <2>3, <2>4, <2>5 DEF HandlerThread
<1>3. CASE MLCode(t)
  <2>1. CASE AtomicBegin(t)
    BY <2>1 DEF AtomicBegin
  <2>2. CASE AtomicBeginStore(t)
    BY <2>2 DEF AtomicBeginStore
  <2>3. CASE AtomicBeginTest(t)
    BY <2>3 DEF AtomicBeginTest
  <2>4. CASE AtomicEnd(t)
    BY <2>4 DEF AtomicEnd
  <2>5. CASE AtomicEndStore(t)
    BY <2>5 DEF AtomicEndStore
  <2>6. CASE AtomicEndTest(t)
    BY <2>6 DEF AtomicEndTest
  <2>7. CASE LimitCheck(t)
    BY <2>7 DEF LimitCheck
  <2>8. CASE Switch(t)
    BY <2>8 DEF Switch
  <2>9. CASE Suspend(t)
    BY <2>9 DEF Suspend
  <2>10. CASE SuspendStart(t)
    BY <2>10 DEF SuspendStart
  <2>11. CASE SuspendSet(t)
    BY <2>11 DEF SuspendSet
  <2>12. CASE CallFromC(t)
    BY <2>12 DEF CallFromC
  <2>13. CASE CallFromCSwitch(t)
    BY <2>13 DEF CallFromCSwitch
  <2>14. CASE HandlerLoop(t)
    BY <2>14 DEF HandlerLoop
  <2>15. CASE WorkerStart(t)
    BY <2>15 DEF WorkerStart
  <2>16. CASE WorkerReturn(t)
    BY <2>16 DEF WorkerReturn
  <2>17. CASE ReturnToC(t)
    BY <2>17 DEF ReturnToC
  <2>18. CASE CallFromCDone(t)
    BY <2>18 DEF CallFromCDone
  <2> QED BY <1>3, <2>1, <2>2, <2>3, <2>4, <2>5, <2>6, <2>7, <2>8, <2>9, <2>10, <2>11,
          <2>12, <2>13, <2>14, <2>15, <2>16, <2>17, <2>18 DEF MLCode
<1> QED BY <1>1, <1>2, <1>3 DEF MutatorStep

\* The main thread starts the handler at most once at a time and comes back
\* from it.
LEMMA MainStep ==
  ASSUME FunctionInv, NestInv(Main), SavedInv(Main), MainInv,
         pc[Main] = "switch_test" /\ atomicState = 1 => nest[Main] = 1, MutatorStep(Main)
  PROVE  MainInv'
<1> USE DEF FunctionInv, NestInv, MainInv, Busy, Toward, Goto, InRuntime, InHandler, BeforeSwitch, Calls,
        Started, CallSwitch, NoCall, Load, Store, Unlocked, Rest, sigVars, hdlVars, histVars, thrVars
<1>1. CASE Runtime(Main)
  <2>1. CASE BeginAtomic(Main)
    BY <2>1 DEF BeginAtomic
  <2>2. CASE BeginAtomicLimit(Main)
    BY <2>2 DEF BeginAtomicLimit
  <2>3. CASE EndAtomic(Main)
    BY <2>3 DEF EndAtomic
  <2>4. CASE EndAtomicTest(Main)
    BY <2>4 DEF EndAtomicTest
  <2>5. CASE EndAtomicSet(Main)
    BY <2>5 DEF EndAtomicSet
  <2>6. CASE SwitchToThread(Main)
    BY <2>6 DEF SwitchToThread
  <2>7. CASE SwitchTest(Main)
    BY <2>7 DEF SwitchTest, LevelAt
  <2>8. CASE StartSignalHandler(Main)
    BY <2>8 DEF StartSignalHandler
  <2>9. CASE StartSignalHandlerSet(Main)
    BY <2>9 DEF StartSignalHandlerSet
  <2> QED BY <1>1, <2>1, <2>2, <2>3, <2>4, <2>5, <2>6, <2>7, <2>8, <2>9 DEF Runtime
<1>2. CASE HandlerThread(Main)
  <2>1. CASE HandlerSaved(Main)
    BY <2>1 DEF HandlerSaved, SavedInv
  <2>2. CASE HandlerFind(Main)
    BY <2>2 DEF HandlerFind
  <2>3. CASE HandlerReset(Main)
    BY <2>3 DEF HandlerReset
  <2>4. CASE HandlerRun(Main)
    BY <2>4 DEF HandlerRun
  <2>5. CASE FinishSignalHandler(Main)
    BY <2>5 DEF FinishSignalHandler, None
  <2> QED BY <1>2, <2>1, <2>2, <2>3, <2>4, <2>5 DEF HandlerThread
<1>3. CASE MLCode(Main)
  <2>1. CASE AtomicBegin(Main)
    BY <2>1 DEF AtomicBegin
  <2>2. CASE AtomicBeginStore(Main)
    BY <2>2 DEF AtomicBeginStore
  <2>3. CASE AtomicBeginTest(Main)
    BY <2>3 DEF AtomicBeginTest
  <2>4. CASE AtomicEnd(Main)
    BY <2>4 DEF AtomicEnd
  <2>5. CASE AtomicEndStore(Main)
    BY <2>5 DEF AtomicEndStore
  <2>6. CASE AtomicEndTest(Main)
    BY <2>6 DEF AtomicEndTest
  <2>7. CASE LimitCheck(Main)
    BY <2>7 DEF LimitCheck
  <2>8. CASE Switch(Main)
    BY <2>8 DEF Switch
  <2>9. CASE Suspend(Main)
    BY <2>9 DEF Suspend
  <2>10. CASE SuspendStart(Main)
    BY <2>10 DEF SuspendStart
  <2>11. CASE SuspendSet(Main)
    BY <2>11 DEF SuspendSet
  <2>12. CASE CallFromC(Main)
    BY <2>12 DEF CallFromC
  <2>13. CASE CallFromCSwitch(Main)
    BY <2>13 DEF CallFromCSwitch
  <2>14. CASE HandlerLoop(Main)
    BY <2>14 DEF HandlerLoop, SavedInv, None
  <2>15. CASE WorkerStart(Main)
    BY <2>15 DEF WorkerStart
  <2>16. CASE WorkerReturn(Main)
    BY <2>16 DEF WorkerReturn
  <2>17. CASE ReturnToC(Main)
    BY <2>17 DEF ReturnToC, SavedInv, None
  <2>18. CASE CallFromCDone(Main)
    BY <2>18 DEF CallFromCDone
  <2> QED BY <1>3, <2>1, <2>2, <2>3, <2>4, <2>5, <2>6, <2>7, <2>8, <2>9, <2>10, <2>11,
          <2>12, <2>13, <2>14, <2>15, <2>16, <2>17, <2>18 DEF MLCode
<1> QED BY <1>1, <1>2, <1>3 DEF MutatorStep

-----------------------------------------------------------------------------
\* The invariant of the mutators' control: their shares of atomicState, what
\* they have saved, and who may be in the handler.
ControlInv ==
  /\ FunctionInv /\ atomicState \in Nat /\ Balance /\ CollidedInv
  /\ HandlerInv
  /\ \A t \in Mutators : NestInv(t) /\ SavedInv(t)

\* No thread's share exceeds the counter: with atomicState = 1 at the test of
\* GC_switchToThread, the switching thread is the only one in an atomic section.
LEMMA ShareBound ==
  ASSUME ControlInv, NEW t \in Mutators
  PROVE  /\ nest[t] <= atomicState
         /\ pc[t] = "switch_test" /\ atomicState = 1 => nest[t] = 1
<1>1. nest[t] \in Nat /\ atomicState \in Nat
  BY DEF ControlInv, FunctionInv
<1>2. nest[t] <= atomicState
  BY <1>1, SumBound DEF ControlInv, Balance
<1>3. pc[t] = "switch_test" => nest[t] >= 1
  BY <1>1 DEF ControlInv, NestInv, LevelAt
<1> QED BY <1>1, <1>2, <1>3

\* A step of GC_handler leaves the mutators alone and loses no request.
LEMMA HandlerStepControl ==
  ASSUME ControlInv, NEW r \in Receivers, GCHandler(r), collided' = Collision'
  PROVE  ControlInv'
<1>1. UNCHANGED HandlerVars /\ (signalIsPending => signalIsPending')
  BY DEF GCHandler, GCHandlerTest, GCHandlerLimit, GCHandlerPend, GCHandlerAdd
<1> USE <1>1 DEF HandlerVars, mutVars, thrVars, hdlVars
<1>2. FunctionInv' /\ (atomicState \in Nat)' /\ Balance' /\ CollidedInv'
  BY DEF ControlInv, FunctionInv, Balance, CollidedInv
<1>3. HandlerInv'
  BY DEF ControlInv, HandlerInv, MainInv, ForeignInv, Busy, Toward
<1>4. \A t \in Mutators : NestInv(t)' /\ SavedInv(t)'
  BY DEF ControlInv, NestInv, SavedInv, Toward
<1> QED BY <1>2, <1>3, <1>4 DEF ControlInv

\* The control invariant holds for any threads, receivers and signals, as long
\* as only the main thread switches.
THEOREM ControlInvariant ==
  ASSUME Switchers \subseteq {Main} PROVE Spec => []ControlInv
<1>1. Init => ControlInv
  <2> SUFFICES ASSUME Init PROVE ControlInv
    OBVIOUS
  <2>1. FunctionInv /\ atomicState \in Nat
    BY DEF Init, FunctionInv, Places, Calls, Returns, NoCall, Green
  <2>2. Balance
    <3>1. \A t \in Mutators : nest[t] = 0
      BY DEF Init
    <3>2. \E f : Sums(f, nest, Mutators) /\ f[Mutators] = 0
      BY <3>1, SumZero
    <3> QED BY <3>2 DEF Init, Balance
  <2>3. CollidedInv
    BY DEF Init, CollidedInv, Collision, Idle
  <2>4. pc[Main] = "ml" /\ resume = None /\ ~amInSignalHandler
    BY DEF Init
  <2>5. MainInv
    BY <2>4 DEF MainInv, Busy, Toward, InRuntime, InHandler, None
  <2>6. \A t \in Mutators : NestInv(t) /\ SavedInv(t) /\ ForeignInv(t)
    BY DEF Init, NestInv, SavedInv, ForeignInv, Toward, InRuntime, InHandler, BeforeSwitch, LevelAt, None, NoCall
  <2> QED BY <2>1, <2>2, <2>3, <2>5, <2>6 DEF ControlInv, HandlerInv
<1>2. ControlInv /\ [Next]_vars => ControlInv'
  <2> SUFFICES ASSUME ControlInv, [Next]_vars PROVE ControlInv'
    OBVIOUS
  <2>1. ASSUME NEW t \in Mutators, MutatorStep(t), ~collided, collided' = Collision' PROVE ControlInv'
    <3>1. /\ FunctionInv /\ atomicState \in Nat /\ Balance /\ HandlerInv /\ NestInv(t) /\ SavedInv(t)
          /\ ~Collision
      BY <2>1 DEF ControlInv, CollidedInv
    <3>2. pc[t] = "switch_test" /\ atomicState = 1 => nest[t] = 1
      BY ShareBound
    <3>3. pc[t] = "h_finish" => t = Main
      BY <3>1 DEF HandlerInv, ForeignInv, InHandler
    <3>4. pc[t] = "h_finish" => resume \in Green /\ (resume = "worker" => savedRef[t] = "user")
      BY <3>1, <3>3 DEF HandlerInv, MainInv
    <3>5. FunctionInv'
      BY <2>1, <3>1, <3>4, FunctionStep
    <3>6. Balance' /\ atomicState' \in Nat
      BY <2>1, <3>1, <3>5, BalanceStep
    <3>7. pc[t] \in {"start", "start_set"} => nest[t] = 1
      BY <3>1 DEF NestInv
    <3>8. NestInv(t)' /\ SavedInv(t)'
      BY <2>1, <3>1, <3>2, <3>4, <3>7, NestStep, SavedStep
    <3>9. ASSUME NEW u \in Mutators \ {t}
          PROVE  NestInv(u)' /\ SavedInv(u)' /\ (ForeignInv(u) => ForeignInv(u)')
      <4>1. Untouched(u)
        BY <2>1, <3>1, OthersUntouched
      <4>2. NestInv(u) /\ SavedInv(u)
        BY DEF ControlInv
      <4> QED BY <4>1, <4>2 DEF Untouched, NestInv, SavedInv, ForeignInv, Toward
    <3>10. HandlerInv'
      <4>1. CASE t = Main
        <5>1. MainInv'
          BY <2>1, <3>1, <3>2, <4>1, MainStep DEF HandlerInv
        <5> QED BY <3>1, <3>9, <4>1, <5>1 DEF HandlerInv
      <4>2. CASE t # Main
        <5>1. ForeignInv(t)' /\ UNCHANGED <<sigVars, hdlVars, owed>>
          BY <2>1, <3>1, <3>2, <4>2, ForeignStep DEF HandlerInv
        <5>2. Untouched(Main)
          BY <2>1, <3>1, <4>2, OthersUntouched
        <5>3. MainInv'
          BY <3>1, <5>1, <5>2 DEF HandlerInv, MainInv, Busy, Toward, Untouched, sigVars, hdlVars
        <5> QED BY <3>1, <3>9, <5>1, <5>3 DEF HandlerInv
      <4> QED BY <4>1, <4>2
    <3>11. CollidedInv'
      BY <2>1 DEF CollidedInv
    <3> QED BY <3>5, <3>6, <3>8, <3>9, <3>10, <3>11 DEF ControlInv
  <2>2. CASE Next
    BY <2>1, <2>2, HandlerStepControl DEF Next, Step, MutatorStep
  <2>3. CASE UNCHANGED vars
    <3> USE <2>3 DEF vars, mutVars, thrVars, sigVars, hdlVars
    <3>1. FunctionInv' /\ (atomicState \in Nat)' /\ Balance' /\ HandlerInv'
      BY DEF ControlInv, FunctionInv, Balance, HandlerInv, MainInv, ForeignInv, Busy, Toward
    <3>2. CollidedInv'
      BY DEF ControlInv, CollidedInv, Collision, Serving
    <3>3. \A t \in Mutators : NestInv(t)' /\ SavedInv(t)'
      BY DEF ControlInv, NestInv, SavedInv, Toward
    <3> QED BY <3>1, <3>2, <3>3 DEF ControlInv
  <2> QED BY <2>2, <2>3
<1> QED BY <1>1, <1>2, PTL DEF Spec

\* The asserts of GC_startSignalHandler and GC_finishSignalHandler hold: the
\* handler is started once at a time, with nobody saved, on the main thread,
\* and runs in an atomic section of its own.
THEOREM HandlerIsExclusive ==
  ASSUME Switchers \subseteq {Main} PROVE Spec => []HandlerExclusive
<1>1. ControlInv => HandlerExclusive
  <2> SUFFICES ASSUME ControlInv, NEW t \in Mutators
               PROVE  /\ pc[t] \in {"start", "suspend"} =>
                            /\ t = Main /\ saved[t] = None
                            /\ signalIsPending /\ ~amInSignalHandler
                      /\ pc[t] \in InHandler => /\ t = Main /\ amInSignalHandler
                                                /\ current[t] = "handler" /\ nest[t] = 1
    BY DEF HandlerExclusive
  <2>1. pc[t] \in {"start", "suspend"} \cup InHandler => t = Main
    BY DEF ControlInv, HandlerInv, ForeignInv
  <2>2. pc[t] \in {"start", "suspend"} => saved[t] = None
    BY DEF ControlInv, SavedInv, Toward, InRuntime
  <2>3. pc[t] \in InHandler => nest[t] = 1
    BY DEF ControlInv, NestInv
  <2>4. MainInv
    BY DEF ControlInv, HandlerInv
  <2>5. pc[Main] \in {"start", "suspend"} => signalIsPending /\ ~Busy
    BY <2>4 DEF MainInv, Busy, Toward, InRuntime, InHandler
  <2>6. pc[Main] \in InHandler => Busy /\ current[Main] = "handler"
    BY <2>4 DEF MainInv, Busy
  <2>7. amInSignalHandler <=> Busy
    BY <2>4 DEF MainInv
  <2> QED BY <2>1, <2>2, <2>3, <2>5, <2>6, <2>7
<1> QED BY <1>1, ControlInvariant, PTL

\* The counter is the sum of the threads' shares as SumNest computes it, over
\* any finite set of threads, in any order.
THEOREM AtomicIsBalanced ==
  ASSUME Switchers \subseteq {Main} PROVE Spec => []AtomicBalanced
<1>1. ControlInv => AtomicBalanced
  <2> SUFFICES ASSUME ControlInv PROVE atomicState = SumNest[Mutators]
    BY DEF AtomicBalanced
  <2>1. PICK f : Sums(f, nest, Mutators) /\ atomicState = f[Mutators]
    BY DEF ControlInv, Balance
  <2> DEFINE Body(g) == [S \in SUBSET Mutators |->
               IF S = {} THEN 0 ELSE LET t == CHOOSE t \in S : TRUE IN nest[t] + g[S \ {t}]]
  <2>2. f = Body(f)
    <3>1. ASSUME NEW S \in SUBSET Mutators PROVE f[S] = Body(f)[S]
      <4>1. CASE S = {}
        BY <2>1, <4>1 DEF Sums
      <4>2. CASE S # {}
        <5>1. (CHOOSE t \in S : TRUE) \in S
          BY <4>2
        <5> QED BY <2>1, <4>2, <5>1 DEF Sums
      <4> QED BY <4>1, <4>2
    <3>2. f = [S \in SUBSET Mutators |-> f[S]]
      BY <2>1 DEF Sums
    <3> QED BY <3>1, <3>2
  \* The recursive definition has a solution, so SumNest is one.
  <2>3. SumNest = Body(SumNest)
    BY <2>2, Zenon DEF SumNest
  <2>4. SumNest[{}] = 0
    <3>1. Body(SumNest)[{}] = 0
      OBVIOUS
    <3> HIDE DEF Body
    <3> QED BY <2>3, <3>1
  <2>5. ASSUME NEW S \in SUBSET Mutators, S # {}
        PROVE  \E t \in S : SumNest[S] = nest[t] + SumNest[S \ {t}]
    <3>1. (CHOOSE t \in S : TRUE) \in S
      BY <2>5
    <3>2. Body(SumNest)[S] = nest[CHOOSE t \in S : TRUE] + SumNest[S \ {CHOOSE t \in S : TRUE}]
      BY <2>5
    <3> HIDE DEF Body
    <3>3. SumNest[S] = nest[CHOOSE t \in S : TRUE] + SumNest[S \ {CHOOSE t \in S : TRUE}]
      BY <2>3, <3>2
    <3> QED BY <3>1, <3>3
  <2>6. SumNest[Mutators] = f[Mutators]
    <3> HIDE DEF Body
    <3> QED BY <2>1, <2>4, <2>5, SumUnique
  <2> QED BY <2>1, <2>6
<1> QED BY <1>1, ControlInvariant, PTL

-----------------------------------------------------------------------------
\* The places between Mask.block and the end of the handler's function.
Masked == {"h_find", "h_reset", "h_unblock", "h_finish"}

\* A step of the main thread that has nothing to do with signals.
Plain == /\ UNCHANGED <<sigVars, hdlVars, owed>>
         /\ pc[Main] \notin Masked /\ pc'[Main] \notin Masked

\* Mutators leave GC_handler's state alone, and run only where it has not
\* interrupted them.
LEMMA GCHandlerUntouched ==
  ASSUME NEW t \in Mutators, MutatorStep(t)
  PROVE  UNCHANGED <<h, arrivals>> /\ (t \in Receivers => h[t].at = "idle")
<1> USE DEF Goto, Load, Store, Rest, Unlocked, histVars
<1>1. CASE Runtime(t)
  BY <1>1 DEF Runtime, BeginAtomic, BeginAtomicLimit, EndAtomic, EndAtomicTest, EndAtomicSet,
     SwitchToThread, SwitchTest, StartSignalHandler, StartSignalHandlerSet
<1>2. CASE HandlerThread(t)
  BY <1>2 DEF HandlerThread, HandlerSaved, HandlerFind, HandlerReset, HandlerRun, FinishSignalHandler
<1>3. CASE MLCode(t)
  BY <1>3 DEF MLCode, AtomicBegin, AtomicBeginStore, AtomicBeginTest, AtomicEnd, AtomicEndStore,
     AtomicEndTest, LimitCheck, Switch, Suspend, SuspendStart, SuspendSet, CallFromC, CallFromCSwitch,
     HandlerLoop, WorkerStart, WorkerReturn, ReturnToC, CallFromCDone
<1> QED BY <1>1, <1>2, <1>3 DEF MutatorStep

\* The main thread serves signals in the steps of the handler thread and in
\* the two that start it.
LEMMA PlainSteps ==
  ASSUME FunctionInv, NestInv(Main), MutatorStep(Main)
  PROVE  Plain \/ HandlerThread(Main) \/ StartSignalHandler(Main) \/ SuspendStart(Main)
<1>1. /\ pc[Main] \in InRuntime => call[Main].ret \in {"ml", "h_saved", "c_handler", "c_worker", "c_done"}
      /\ pc[Main] = "begin_test" => call[Main].ret \in {"ml", "suspend", "c_return"}
      /\ pc[Main] = "end_test" => call[Main].ret = "ml"
  BY DEF NestInv
<1>2. \A to : pc' = [pc EXCEPT ![Main] = to] => pc'[Main] = to
  BY DEF FunctionInv
<1> USE <1>1, <1>2 DEF Plain, Masked, InRuntime, Goto, Load, Store, Rest, Unlocked, sigVars, hdlVars, histVars
<1>3. CASE Runtime(Main)
  BY <1>3 DEF Runtime, BeginAtomic, BeginAtomicLimit, EndAtomic, EndAtomicTest, EndAtomicSet,
     SwitchToThread, SwitchTest, StartSignalHandlerSet
<1>4. CASE MLCode(Main)
  <2>1. CASE \/ AtomicBegin(Main) \/ AtomicBeginStore(Main) \/ AtomicBeginTest(Main)
             \/ AtomicEnd(Main) \/ AtomicEndStore(Main) \/ AtomicEndTest(Main) \/ LimitCheck(Main)
    BY <2>1 DEF AtomicBegin, AtomicBeginStore, AtomicBeginTest, AtomicEnd, AtomicEndStore, AtomicEndTest, LimitCheck
  <2>2. CASE Switch(Main) \/ Suspend(Main) \/ SuspendSet(Main)
    BY <2>2 DEF Switch, Suspend, SuspendSet
  <2>3. CASE \/ CallFromC(Main) \/ CallFromCSwitch(Main) \/ HandlerLoop(Main)
             \/ WorkerStart(Main) \/ WorkerReturn(Main) \/ ReturnToC(Main) \/ CallFromCDone(Main)
    BY <2>3 DEF CallFromC, CallFromCSwitch, HandlerLoop, WorkerStart, WorkerReturn, ReturnToC, CallFromCDone
  <2> QED BY <1>4, <2>1, <2>2, <2>3 DEF MLCode
<1> QED BY <1>3, <1>4 DEF MutatorStep

\* Without a collision, no other thread is in GC_handler while the main thread
\* serves signals.
LEMMA ServedAlone ==
  ASSUME ControlInv, ~collided
  PROVE  pc[Main] \in {"start", "suspend", "h_find", "h_reset"} =>
           \A r \in Receivers \ {Main} : h[r].at = "idle"
<1>1. ~Collision
  BY DEF ControlInv, CollidedInv
<1>2. pc[Main] \in {"h_find", "h_reset"} => amInSignalHandler
  BY DEF ControlInv, HandlerInv, MainInv, Busy, InHandler
<1>3. pc[Main] \in {"start", "suspend", "h_find", "h_reset"} => Serving
  BY <1>2 DEF Serving
<1> QED BY <1>1, <1>3 DEF Collision

\* The signals noted and the record of GC_handler stay typed.
SignalTyped ==
  /\ signalsPending \subseteq Sigs /\ fs \subseteq Sigs /\ owed \subseteq Sigs
  /\ h \in [Receivers -> [at : {"idle", "limit", "pend", "add"}, sig : Sigs, load : SUBSET Sigs]]
  /\ arrivals \in 0 .. MaxArrivals
  /\ resume \in Green \cup {None}
  /\ {limitZero, signalIsPending, amInSignalHandler, blocked, collided} \subseteq BOOLEAN

\* Neither GC_handler nor the handler thread overwrites what the other has
\* noted, because the main thread blocks signals and no other thread is in
\* GC_handler: here for the steps of a mutator.
LEMMA SignalStepMutator ==
  ASSUME ControlInv, SignalTyped, SignalInv, ~collided, Switchers \subseteq {Main},
         NEW t \in Mutators, MutatorStep(t)
  PROVE  SignalInv'
<1>1. FunctionInv /\ NestInv(t) /\ UNCHANGED h
  BY GCHandlerUntouched DEF ControlInv
<1>2. CASE t # Main
  <2>1. UNCHANGED <<sigVars, hdlVars, owed>>
    BY <1>1, <1>2, ShareBound, ForeignStep DEF ControlInv, HandlerInv
  <2>2. pc'[Main] = pc[Main]
    BY <1>1, <1>2, OthersUntouched DEF Untouched
  <2> QED BY <1>1, <2>1, <2>2 DEF SignalInv, NoSignalLost, sigVars, hdlVars
<1>3. CASE t = Main /\ Plain
  BY <1>1, <1>3 DEF SignalInv, NoSignalLost, Plain, Masked, sigVars, hdlVars
<1>4. CASE t = Main /\ ~Plain
  <2>1. \A r \in Receivers : pc[Main] \in {"start", "suspend", "h_find", "h_reset"} => h[r].at = "idle"
    BY <1>4, ServedAlone, GCHandlerUntouched
  <2>2. \A to : pc' = [pc EXCEPT ![Main] = to] => pc'[Main] = to
    BY <1>1 DEF FunctionInv
  <2> USE <1>1, <2>1, <2>2 DEF Goto, SignalInv, NoSignalLost, sigVars, hdlVars, histVars
  <2>3. CASE StartSignalHandler(Main)
    BY <2>3 DEF StartSignalHandler, Started
  <2>4. CASE SuspendStart(Main)
    BY <2>4 DEF SuspendStart, Started
  <2>5. CASE HandlerSaved(Main)
    <3>1. Main \in Receivers => h[Main].at = "idle"
      BY <2>5 DEF HandlerSaved
    <3> QED BY <2>5, <3>1 DEF HandlerSaved
  <2>6. CASE HandlerFind(Main)
    BY <2>6 DEF HandlerFind
  <2>7. CASE HandlerReset(Main)
    BY <2>7 DEF HandlerReset
  <2>8. CASE HandlerRun(Main)
    BY <2>8 DEF HandlerRun
  <2>9. CASE FinishSignalHandler(Main)
    BY <2>9 DEF FinishSignalHandler
  <2> QED BY <1>4, <2>3, <2>4, <2>5, <2>6, <2>7, <2>8, <2>9, PlainSteps DEF HandlerThread
<1> QED BY <1>2, <1>3, <1>4

\* The same for the steps of GC_handler.
LEMMA SignalStepHandler ==
  ASSUME ControlInv, SignalTyped, SignalInv, ~collided, NEW r \in Receivers, GCHandler(r)
  PROVE  SignalInv'
<1>1. UNCHANGED <<pc, hdlVars, amInSignalHandler>>
  BY DEF GCHandler, GCHandlerTest, GCHandlerLimit, GCHandlerPend, GCHandlerAdd, HandlerVars, mutVars
<1>2. /\ blocked <=> pc[Main] \in {"h_find", "h_reset", "h_unblock"}
      /\ blocked /\ Main \in Receivers => h[Main].at = "idle"
      /\ pc[Main] \notin {"h_reset", "h_unblock"} => fs = {}
      /\ \A q \in Receivers : h[q].at = "add" => h[q].load = signalsPending /\ signalIsPending
      /\ pc[Main] = "h_reset" => owed \subseteq fs
      /\ NoSignalLost
  BY DEF SignalInv
<1>3. ~Collision
  BY DEF ControlInv, CollidedInv
<1>4. h[r].at # "idle" => /\ \A q \in Receivers \ {r} : h[q].at = "idle"
                         /\ pc[Main] # "h_reset"
  <2>1. h[r].at # "idle" => pc[Main] # "h_reset"
    BY <1>2, ServedAlone
  <2> QED BY <1>3, <2>1 DEF Collision
<1>5. DOMAIN h = Receivers /\ \A q \in Receivers : h[q] = [at |-> h[q].at, sig |-> h[q].sig, load |-> h[q].load]
  BY DEF SignalTyped
<1> USE <1>1, <1>2, <1>4, <1>5 DEF SignalInv, NoSignalLost, hdlVars
<1>6. CASE \E sig \in Sigs : GCHandlerTest(r, sig)
  BY <1>6 DEF GCHandlerTest, SignalTyped
<1>7. CASE GCHandlerLimit(r)
  BY <1>7 DEF GCHandlerLimit, SignalTyped, histVars
<1>8. CASE GCHandlerPend(r)
  BY <1>8 DEF GCHandlerPend, SignalTyped, histVars
<1>9. CASE GCHandlerAdd(r)
  BY <1>9 DEF GCHandlerAdd, SignalTyped, Idle
<1> QED BY <1>6, <1>7, <1>8, <1>9 DEF GCHandler

\* Every step keeps the types of the variables GC_handler and the mask share.
LEMMA TypedStep ==
  ASSUME ControlInv, ControlInv', SignalTyped, ~collided, Switchers \subseteq {Main}, Next
  PROVE  SignalTyped'
<1>1. \A b : b \in BOOLEAN <=> b = TRUE \/ b = FALSE
  OBVIOUS
<1>2. (resume \in Green \cup {None})'
  BY DEF ControlInv, HandlerInv, MainInv
<1>3. collided' \in BOOLEAN
  BY DEF Next, Collision
<1>4. ASSUME NEW r \in Receivers, GCHandler(r) PROVE SignalTyped'
  <2> USE <1>2, <1>3 DEF SignalTyped
  <2>1. UNCHANGED <<hdlVars, amInSignalHandler>>
    BY <1>4 DEF GCHandler, GCHandlerTest, GCHandlerLimit, GCHandlerPend, GCHandlerAdd, HandlerVars
  <2>2. CASE \E sig \in Sigs : GCHandlerTest(r, sig)
    BY <2>1, <2>2 DEF GCHandlerTest, hdlVars
  <2>3. CASE GCHandlerPend(r)
    BY <2>1, <2>3 DEF GCHandlerPend, hdlVars, histVars
  <2>4. CASE GCHandlerLimit(r)
    BY <2>1, <2>4 DEF GCHandlerLimit, hdlVars, histVars
  <2>5. CASE GCHandlerAdd(r)
    <3>1. Idle \in [at : {"idle", "limit", "pend", "add"}, sig : Sigs, load : SUBSET Sigs]
      BY DEF Idle
    <3> QED BY <2>1, <2>5, <3>1 DEF GCHandlerAdd, hdlVars
  <2> QED BY <1>4, <2>2, <2>3, <2>4, <2>5 DEF GCHandler
<1>5. ASSUME NEW t \in Mutators, MutatorStep(t) PROVE SignalTyped'
  <2>1. FunctionInv /\ NestInv(t) /\ UNCHANGED <<h, arrivals>>
    BY <1>5, GCHandlerUntouched DEF ControlInv
  <2>2. limitZero' \in BOOLEAN
    <3> USE DEF SignalTyped, Load, Store, Unlocked
    <3>1. CASE Runtime(t)
      BY <3>1 DEF Runtime, BeginAtomic, BeginAtomicLimit, EndAtomic, EndAtomicTest, EndAtomicSet,
         SwitchToThread, SwitchTest, StartSignalHandler, StartSignalHandlerSet
    <3>2. CASE HandlerThread(t)
      BY <3>2 DEF HandlerThread, HandlerSaved, HandlerFind, HandlerReset, HandlerRun, FinishSignalHandler
    <3>3. CASE MLCode(t)
      BY <3>3 DEF MLCode, AtomicBegin, AtomicBeginStore, AtomicBeginTest, AtomicEnd, AtomicEndStore,
         AtomicEndTest, LimitCheck, Switch, Suspend, SuspendStart, SuspendSet, CallFromC, CallFromCSwitch,
         HandlerLoop, WorkerStart, WorkerReturn, ReturnToC, CallFromCDone
    <3> QED BY <1>5, <3>1, <3>2, <3>3 DEF MutatorStep
  <2> USE <1>2, <1>3, <2>1, <2>2 DEF SignalTyped, sigVars, hdlVars, histVars
  <2>3. CASE UNCHANGED <<sigVars, hdlVars, owed>>
    BY <2>3
  <2>4. CASE t = Main /\ HandlerThread(t)
    BY <2>4 DEF HandlerThread, HandlerSaved, HandlerFind, HandlerReset, HandlerRun, FinishSignalHandler
  <2>5. CASE t = Main /\ (StartSignalHandler(t) \/ SuspendStart(t))
    BY <2>5 DEF StartSignalHandler, SuspendStart, Started
  <2>6. CASE t # Main
    BY <1>5, <2>3, <2>6, ShareBound, ForeignStep DEF ControlInv, HandlerInv
  <2> QED BY <1>5, <2>3, <2>4, <2>5, <2>6, PlainSteps DEF Plain
<1> QED BY <1>4, <1>5 DEF Next, Step, MutatorStep

\* limit is set to 0 by GC_handler, which then notes its signal, and by
\* endAtomic for a noted one.  The only steps that take a noted signal away
\* start the handler, whose end leads through beginAtomic, which resets limit.
LEMMA LimitStep ==
  ASSUME ControlInv, SignalTyped, LimitForPending, ~collided, Next
  PROVE  LimitForPending'
<1>1. /\ FunctionInv /\ ~Collision /\ Main \in Mutators
      /\ \A t \in Mutators \ {Main} : ForeignInv(t)
  BY DEF ControlInv, CollidedInv, HandlerInv
<1>2. limitZero => \/ signalIsPending \/ \E r \in Receivers : h[r].at = "pend"
                   \/ amInSignalHandler
                   \/ pc[Main] \in {"enter", "enter_limit"}
  BY DEF LimitForPending
<1>3. ASSUME NEW r \in Receivers, GCHandler(r) PROVE LimitForPending'
  <2>1. UNCHANGED <<pc, amInSignalHandler>>
    BY <1>3 DEF GCHandler, GCHandlerTest, GCHandlerLimit, GCHandlerPend, GCHandlerAdd, HandlerVars, mutVars
  <2> USE <1>2, <2>1 DEF LimitForPending, SignalTyped
  <2>2. CASE \E sig \in Sigs : GCHandlerTest(r, sig)
    BY <2>2 DEF GCHandlerTest
  <2>3. CASE GCHandlerLimit(r)
    BY <2>3 DEF GCHandlerLimit
  <2>4. CASE GCHandlerPend(r)
    BY <2>4 DEF GCHandlerPend
  <2>5. CASE GCHandlerAdd(r)
    BY <2>5 DEF GCHandlerAdd, Idle
  <2> QED BY <1>3, <2>2, <2>3, <2>4, <2>5 DEF GCHandler
<1>4. ASSUME NEW t \in Mutators, MutatorStep(t) PROVE LimitForPending'
  <2>1. UNCHANGED h
    BY <1>4, GCHandlerUntouched
  <2>2. pc[t] = "leave_set" => signalIsPending
    BY <1>1 DEF Collision
  <2>3. \A to : pc' = [pc EXCEPT ![t] = to] => pc'[Main] = IF t = Main THEN to ELSE pc[Main]
    BY <1>1 DEF FunctionInv
  <2>4. pc[t] = "h_finish" => t = Main
    BY <1>1 DEF ForeignInv, InHandler
  <2> USE <1>1, <1>2, <2>1, <2>2, <2>3, <2>4
          DEF LimitForPending, SignalTyped, Goto, Load, Store, Unlocked, Rest, sigVars
  <2>5. CASE Runtime(t)
    <3>1. CASE BeginAtomic(t)
      BY <3>1 DEF BeginAtomic
    <3>2. CASE BeginAtomicLimit(t)
      BY <3>2 DEF BeginAtomicLimit
    <3>3. CASE EndAtomic(t)
      BY <3>3 DEF EndAtomic
    <3>4. CASE EndAtomicTest(t)
      BY <3>4 DEF EndAtomicTest
    <3>5. CASE EndAtomicSet(t)
      BY <3>5 DEF EndAtomicSet
    <3>6. CASE SwitchToThread(t)
      BY <3>6 DEF SwitchToThread
    <3>7. CASE SwitchTest(t)
      BY <3>7 DEF SwitchTest
    <3>8. CASE StartSignalHandler(t)
      BY <3>8 DEF StartSignalHandler, Started
    <3>9. CASE StartSignalHandlerSet(t)
      BY <3>9 DEF StartSignalHandlerSet
    <3> QED BY <2>5, <3>1, <3>2, <3>3, <3>4, <3>5, <3>6, <3>7, <3>8, <3>9 DEF Runtime
  <2>6. CASE HandlerThread(t)
    <3>1. CASE HandlerSaved(t)
      BY <3>1 DEF HandlerSaved
    <3>2. CASE HandlerFind(t)
      BY <3>2 DEF HandlerFind
    <3>3. CASE HandlerReset(t)
      BY <3>3 DEF HandlerReset
    <3>4. CASE HandlerRun(t)
      BY <3>4 DEF HandlerRun
    <3>5. CASE FinishSignalHandler(t)
      BY <3>5 DEF FinishSignalHandler
    <3> QED BY <2>6, <3>1, <3>2, <3>3, <3>4, <3>5 DEF HandlerThread
  <2>7. CASE MLCode(t)
    <3>1. CASE AtomicBegin(t)
      BY <3>1 DEF AtomicBegin
    <3>2. CASE AtomicBeginStore(t)
      BY <3>2 DEF AtomicBeginStore
    <3>3. CASE AtomicBeginTest(t)
      BY <3>3 DEF AtomicBeginTest
    <3>4. CASE AtomicEnd(t)
      BY <3>4 DEF AtomicEnd
    <3>5. CASE AtomicEndStore(t)
      BY <3>5 DEF AtomicEndStore
    <3>6. CASE AtomicEndTest(t)
      BY <3>6 DEF AtomicEndTest
    <3>7. CASE LimitCheck(t)
      BY <3>7 DEF LimitCheck
    <3>8. CASE Switch(t)
      BY <3>8 DEF Switch
    <3>9. CASE Suspend(t)
      BY <3>9 DEF Suspend
    <3>10. CASE SuspendStart(t)
      BY <3>10 DEF SuspendStart, Started
    <3>11. CASE SuspendSet(t)
      BY <3>11 DEF SuspendSet
    <3>12. CASE CallFromC(t)
      BY <3>12 DEF CallFromC
    <3>13. CASE CallFromCSwitch(t)
      BY <3>13 DEF CallFromCSwitch
    <3>14. CASE HandlerLoop(t)
      BY <3>14 DEF HandlerLoop
    <3>15. CASE WorkerStart(t)
      BY <3>15 DEF WorkerStart
    <3>16. CASE WorkerReturn(t)
      BY <3>16 DEF WorkerReturn
    <3>17. CASE ReturnToC(t)
      BY <3>17 DEF ReturnToC
    <3>18. CASE CallFromCDone(t)
      BY <3>18 DEF CallFromCDone
    <3> QED BY <2>7, <3>1, <3>2, <3>3, <3>4, <3>5, <3>6, <3>7, <3>8, <3>9, <3>10, <3>11,
            <3>12, <3>13, <3>14, <3>15, <3>16, <3>17, <3>18 DEF MLCode
  <2> QED BY <1>4, <2>5, <2>6, <2>7 DEF MutatorStep
<1> QED BY <1>3, <1>4 DEF Next, Step, MutatorStep

\* What is noted and what is found, and when limit is 0: the invariant of
\* signals, next to that of control.
ServiceInv == ControlInv /\ SignalTyped /\ SignalInv /\ LimitForPending

\* The invariant of signals holds for any threads, receivers and signals, as
\* long as only the main thread switches.
THEOREM ServiceInvariant ==
  ASSUME Switchers \subseteq {Main} PROVE Spec => []ServiceInv
<1>1. Init => SignalTyped /\ SignalInv /\ LimitForPending
  <2> SUFFICES ASSUME Init PROVE SignalTyped /\ SignalInv /\ LimitForPending
    OBVIOUS
  <2>1. Idle \in [at : {"idle", "limit", "pend", "add"}, sig : Sigs, load : SUBSET Sigs] /\ Idle.at = "idle"
    BY DEF Idle
  <2>2. pc[Main] = "ml" /\ \A r \in Receivers : h[r].at = "idle"
    BY <2>1 DEF Init
  <2>3. SignalTyped
    <3>1. {limitZero, signalIsPending, amInSignalHandler, blocked, collided} \subseteq BOOLEAN
      BY DEF Init
    <3>2. h \in [Receivers -> [at : {"idle", "limit", "pend", "add"}, sig : Sigs, load : SUBSET Sigs]]
      BY <2>1 DEF Init
    <3>3. arrivals \in 0 .. MaxArrivals
      BY DEF Init
    <3> QED BY <3>1, <3>2, <3>3 DEF Init, SignalTyped
  <2> QED BY <2>2, <2>3 DEF Init, SignalInv, NoSignalLost, LimitForPending
<1>2. ServiceInv /\ ControlInv' /\ [Next]_vars => (SignalTyped /\ SignalInv /\ LimitForPending)'
  <2> SUFFICES ASSUME ServiceInv, ControlInv', [Next]_vars
               PROVE  (SignalTyped /\ SignalInv /\ LimitForPending)'
    OBVIOUS
  <2> USE DEF ServiceInv
  <2>1. CASE Next
    <3>1. ~collided
      BY <2>1 DEF Next
    <3>2. SignalTyped' /\ LimitForPending'
      BY <2>1, <3>1, TypedStep, LimitStep
    <3>3. SignalInv'
      BY <2>1, <3>1, SignalStepMutator, SignalStepHandler DEF Next, Step, MutatorStep
    <3> QED BY <3>2, <3>3
  <2>2. CASE UNCHANGED vars
    BY <2>2 DEF vars, mutVars, sigVars, hdlVars, histVars, SignalTyped, SignalInv,
       NoSignalLost, LimitForPending
  <2> QED BY <2>1, <2>2
<1> QED BY <1>1, <1>2, ControlInvariant, PTL DEF Spec, ServiceInv

\* A signal that GC_handler has noted is not lost: the mask, the two flags and
\* the order in which the handler thread tests and resets them see to it.
THEOREM SignalsNotLost ==
  ASSUME Switchers \subseteq {Main} PROVE Spec => []NoSignalLost
<1>1. ServiceInv => NoSignalLost
  BY DEF ServiceInv, SignalInv, NoSignalLost
<1> QED BY <1>1, ServiceInvariant, PTL

\* limit is 0 only for a signal that is pending or about to be, or whose
\* handler is being run or has just ended.
THEOREM LimitIsForPending ==
  ASSUME Switchers \subseteq {Main} PROVE Spec => []LimitForPending
<1>1. ServiceInv => LimitForPending
  BY DEF ServiceInv
<1> QED BY <1>1, ServiceInvariant, PTL

\* Every variable keeps its type; the counter never goes below zero.
THEOREM TypeCorrect ==
  ASSUME Switchers \subseteq {Main} PROVE Spec => []TypeOK
<1>1. ServiceInv => TypeOK
  BY DEF ServiceInv, ControlInv, SignalTyped, FunctionInv, Calls, Returns, TypeOK
<1> QED BY <1>1, ServiceInvariant, PTL
=============================================================================
