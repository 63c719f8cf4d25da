------------------------------- MODULE Signals -------------------------------
(***************************************************************************)
(* POSIX signals, the counter atomicState and the switches of green        *)
(* threads.  GC_handler notes a signal and, outside atomic sections, sets  *)
(* limit to 0; the ML handler thread is started by GC_switchToThread, the  *)
(* only place left that looks for a pending signal (the call in            *)
(* GC_collect_real is commented out).  atomicState is one counter for all  *)
(* POSIX threads: the C functions change it under a lock, compiled code    *)
(* loads and stores it without.                                            *)
(*                                                                         *)
(* GC_handler runs on the thread the kernel picks.  On thread 0 it         *)
(* interrupts the program; elsewhere (no thread ever blocks signals for    *)
(* the others) it runs beside it, also while thread 0 has them blocked.    *)
(* The model stops at the first collision of two threads that no lock      *)
(* prevents: see Collision.                                                *)
(***************************************************************************)
EXTENDS Integers, FiniteSets

CONSTANTS
  Mutators,      \* POSIX threads that run ML code; 0 is the main thread
  Switchers,     \* those whose ML code calls Thread.switch
  Receivers,     \* POSIX threads on which the kernel runs GC_handler
  Sigs,          \* the signals the program handles
  MaxArrivals,   \* bound: signals sent
  MaxNest        \* bound: nesting of atomic sections in ML code

Main == 0

ASSUME SignalsAssumption ==
  /\ Main \in Mutators /\ IsFiniteSet(Mutators)
  /\ Switchers \subseteq Mutators
  /\ Receivers \cap Mutators \subseteq {Main}
  /\ Sigs # {} /\ MaxArrivals \in Nat /\ MaxNest \in Nat

VARIABLES
  pc, call,            \* control of a mutator, and the runtime call it is in
  tmp,                 \* what compiled code has loaded of atomicState
  nest,                \* history: what each mutator adds to atomicState
  atomicState,
  limitZero,           \* limit = 0: the check at a loop header fails
  signalIsPending, signalsPending, amInSignalHandler,
  current, saved,      \* currentThread and savedThread of a mutator
  savedRef,            \* the thread a call from C goes back to
  resume, blocked, fs, \* the handler thread: whom it interrupted, signals
                       \* blocked, signals found
  h,                   \* GC_handler on each receiver
  owed, arrivals,      \* history: signals noted and not yet found; sent
  collided

mutVars == <<pc, call, tmp, nest>>
sigVars == <<signalIsPending, signalsPending, amInSignalHandler>>
thrVars == <<current, saved, savedRef>>
hdlVars == <<resume, blocked, fs>>
histVars == <<owed, arrivals>>
vars == <<mutVars, atomicState, limitZero, sigVars, thrVars, hdlVars, h,
          histVars, collided>>

None   == "none"
Green  == {"user", "chandler", "worker", "handler"}
Idle   == [at |-> "idle", sig |-> CHOOSE s \in Sigs : TRUE, load |-> {}]
NoCall == [op |-> "collect", to |-> "user", ret |-> "ml"]    \* switches to nobody

Init ==
  /\ pc = [t \in Mutators |-> "ml"]
  /\ call = [t \in Mutators |-> NoCall]
  /\ tmp = [t \in Mutators |-> 0]
  /\ nest = [t \in Mutators |-> 0]
  /\ atomicState = 0
  /\ limitZero = FALSE
  /\ signalIsPending = FALSE /\ signalsPending = {} /\ amInSignalHandler = FALSE
  /\ current = [t \in Mutators |-> "user"]
  /\ saved = [t \in Mutators |-> None]
  /\ savedRef = [t \in Mutators |-> None]
  /\ resume = None /\ blocked = FALSE /\ fs = {}
  /\ h = [r \in Receivers |-> Idle]
  /\ owed = {} /\ arrivals = 0
  /\ collided = FALSE

\* A mutator moves unless GC_handler has interrupted it.
Goto(t, from, to) ==
  /\ pc[t] = from
  /\ t \in Receivers => h[t].at = "idle"
  /\ pc' = [pc EXCEPT ![t] = to]

-----------------------------------------------------------------------------
(* GC_handler.                                                             *)

HandlerVars == <<mutVars, atomicState, amInSignalHandler, thrVars, hdlVars>>

\* A signal is delivered; on the main thread not while it blocks it.
GCHandlerTest(r, sig) ==
  /\ h[r].at = "idle" /\ arrivals < MaxArrivals
  /\ r = Main => ~blocked
  /\ h' = [h EXCEPT ![r] = [at |-> IF atomicState = 0 THEN "limit" ELSE "pend",
                           sig |-> sig, load |-> {}]]
  /\ arrivals' = arrivals + 1
  /\ UNCHANGED <<HandlerVars, limitZero, signalIsPending, signalsPending, owed>>

\* limit is set, by now perhaps inside an atomic section.
GCHandlerLimit(r) ==
  /\ h[r].at = "limit"
  /\ limitZero' = TRUE
  /\ h' = [h EXCEPT ![r].at = "pend"]
  /\ UNCHANGED <<HandlerVars, signalIsPending, signalsPending, histVars>>

GCHandlerPend(r) ==
  /\ h[r].at = "pend"
  /\ signalIsPending' = TRUE
  /\ h' = [h EXCEPT ![r].at = "add", ![r].load = signalsPending]
  /\ UNCHANGED <<HandlerVars, limitZero, signalsPending, histVars>>

\* sigaddset stores what it has read, with the signal added.
GCHandlerAdd(r) ==
  /\ h[r].at = "add"
  /\ signalsPending' = h[r].load \cup {h[r].sig}
  /\ owed' = owed \cup {h[r].sig}
  /\ h' = [h EXCEPT ![r] = Idle]
  /\ UNCHANGED <<HandlerVars, limitZero, signalIsPending, arrivals>>

-----------------------------------------------------------------------------
(* beginAtomic and endAtomic, around the body of a runtime call.           *)

Rest == <<sigVars, hdlVars, h, histVars>>

Add(t, n) == /\ atomicState' = atomicState + n
             /\ nest' = [nest EXCEPT ![t] = @ + n]

\* Mutated form: the counter is raised without the lock.
BeginAtomic_unlocked(t) ==
  \/ /\ Goto(t, "enter", "enter_store")
     /\ tmp' = [tmp EXCEPT ![t] = atomicState]
     /\ UNCHANGED <<call, nest, atomicState, limitZero, thrVars, Rest>>
  \/ /\ Goto(t, "enter_store", "enter_limit")
     /\ atomicState' = tmp[t] + 1
     /\ nest' = [nest EXCEPT ![t] = @ + 1]
     /\ UNCHANGED <<call, tmp, limitZero, thrVars, Rest>>

BeginAtomic(t) ==
  /\ Goto(t, "enter", "enter_limit")
  /\ Add(t, 1)
  /\ UNCHANGED <<call, tmp, limitZero, thrVars, Rest>>

\* Mutated form: limit is left at 0.
BeginAtomicLimit_keep(t) ==
  /\ Goto(t, "enter_limit", IF call[t].op = "switch" THEN "switch" ELSE "leave")
  /\ UNCHANGED <<call, tmp, nest, atomicState, limitZero, thrVars, Rest>>

\* Then GC_collect_real marks the stack, or GC_switchToThread switches.
BeginAtomicLimit(t) ==
  /\ Goto(t, "enter_limit", IF call[t].op = "switch" THEN "switch" ELSE "leave")
  /\ limitZero' = FALSE
  /\ UNCHANGED <<call, tmp, nest, atomicState, thrVars, Rest>>

EndAtomic(t) ==
  /\ Goto(t, "leave", "leave_test")
  /\ Add(t, -1)
  /\ UNCHANGED <<call, tmp, limitZero, thrVars, Rest>>

\* The test of endAtomic, and of MLton_callFromC after its decAtomic.
EndAtomicTest(t) ==
  /\ Goto(t, "leave_test", IF atomicState = 0 /\ signalIsPending
                           THEN "leave_set" ELSE call[t].ret)
  /\ UNCHANGED <<call, tmp, nest, atomicState, limitZero, thrVars, Rest>>

EndAtomicSet(t) ==
  /\ Goto(t, "leave_set", call[t].ret)
  /\ limitZero' = TRUE
  /\ UNCHANGED <<call, tmp, nest, atomicState, thrVars, Rest>>

-----------------------------------------------------------------------------
(* GC_switchToThread and the start of the handler.                         *)

SwitchToThread(t) ==
  /\ Goto(t, "switch", "switch_test")
  /\ current' = [current EXCEPT ![t] = call[t].to]
  /\ Add(t, -1)
  /\ UNCHANGED <<call, tmp, limitZero, saved, savedRef, Rest>>

\* Mutated form: atomicState is not looked at.
SwitchTest_anyLevel(t) ==
  /\ Goto(t, "switch_test", IF signalIsPending THEN "start" ELSE "leave")
  /\ UNCHANGED <<call, tmp, nest, atomicState, limitZero, thrVars, Rest>>

\* switchToSignalHandlerThreadIfNonAtomicAndSignalPending.
SwitchTest(t) ==
  /\ Goto(t, "switch_test", IF atomicState = 1 /\ signalIsPending
                            THEN "start" ELSE "leave")
  /\ UNCHANGED <<call, tmp, nest, atomicState, limitZero, thrVars, Rest>>

\* The assignments of GC_startSignalHandler.
Started(t) ==
  /\ signalIsPending' = FALSE /\ amInSignalHandler' = TRUE
  /\ saved' = [saved EXCEPT ![t] = current[t]]

StartSignalHandler(t) ==
  /\ Goto(t, "start", "start_set")
  /\ Started(t)
  /\ UNCHANGED <<call, tmp, nest, atomicState, limitZero, current, savedRef,
                 signalsPending, hdlVars, h, histVars>>

\* setAtomic(2), whatever the counter is by now, and the second switch.
StartSignalHandlerSet(t) ==
  /\ Goto(t, "start_set", "leave")
  /\ nest' = [nest EXCEPT ![t] = 2]
  /\ atomicState' = 2
  /\ current' = [current EXCEPT ![t] = "handler"]
  /\ call' = [call EXCEPT ![t].ret = "h_saved"]
  /\ UNCHANGED <<tmp, limitZero, saved, savedRef, Rest>>

-----------------------------------------------------------------------------
(* The handler thread: the loop of setSignalHandler around the function of *)
(* signal.sml.                                                             *)

\* Mutated form: savedThread is reset before it is read.
HandlerSaved_resetFirst(t) ==
  /\ Goto(t, "h_saved", "h_find")
  /\ resume' = None
  /\ saved' = [saved EXCEPT ![t] = None]
  /\ blocked' = TRUE
  /\ UNCHANGED <<call, tmp, nest, atomicState, limitZero, current, savedRef,
                 sigVars, fs, h, histVars>>

\* Prim.saved resets savedThread; Mask.block (handled ()).
HandlerSaved(t) ==
  /\ Goto(t, "h_saved", "h_find")
  /\ resume' = saved[t]
  /\ saved' = [saved EXCEPT ![t] = None]
  /\ blocked' = TRUE
  /\ UNCHANGED <<call, tmp, nest, atomicState, limitZero, current, savedRef,
                 sigVars, fs, h, histVars>>

\* The fold over isPending.
HandlerFind(t) ==
  /\ Goto(t, "h_find", "h_reset")
  /\ fs' = signalsPending
  /\ UNCHANGED <<call, tmp, nest, atomicState, limitZero, thrVars, sigVars,
                 resume, blocked, h, histVars>>

\* Mutated form: the mask is restored before resetPending.
HandlerReset_unmasked(t) ==
  /\ \/ /\ blocked /\ Goto(t, "h_reset", "h_reset")
        /\ UNCHANGED signalsPending
     \/ /\ ~blocked /\ Goto(t, "h_reset", "h_unblock")
        /\ signalsPending' = {}
  /\ blocked' = FALSE
  /\ UNCHANGED <<call, tmp, nest, atomicState, limitZero, thrVars, resume, fs,
                 signalIsPending, amInSignalHandler, h, histVars>>

\* Posix_Signal_resetPending.
HandlerReset(t) ==
  /\ Goto(t, "h_reset", "h_unblock")
  /\ signalsPending' = {}
  /\ UNCHANGED <<call, tmp, nest, atomicState, limitZero, thrVars, hdlVars,
                 signalIsPending, amInSignalHandler, h, histVars>>

\* Mask.setBlocked, and the handlers of the signals found.
HandlerRun(t) ==
  /\ Goto(t, "h_unblock", "h_finish")
  /\ blocked' = FALSE /\ fs' = {}
  /\ owed' = owed \ fs
  /\ UNCHANGED <<call, tmp, nest, atomicState, limitZero, thrVars, sigVars,
                 resume, h, arrivals>>

\* GC_finishSignalHandler and the switch to the thread to go on with.
FinishSignalHandler(t) ==
  /\ Goto(t, "h_finish", "enter")
  /\ amInSignalHandler' = FALSE
  /\ call' = [call EXCEPT ![t] = [op |-> "switch", to |-> resume, ret |-> "ml"]]
  /\ resume' = None
  /\ UNCHANGED <<tmp, nest, atomicState, limitZero, thrVars, signalIsPending,
                 signalsPending, blocked, fs, h, histVars>>

-----------------------------------------------------------------------------
(* ML code: Thread_atomicBegin and Thread_atomicEnd as compiled, the check *)
(* of limit at loop headers, Thread.switch, and calls from C.              *)

Unlocked == <<nest, atomicState, limitZero, thrVars, Rest>>

\* bumpAtomicState loads the counter ...
Load(t, from, to, ret) ==
  /\ Goto(t, from, to)
  /\ tmp' = [tmp EXCEPT ![t] = atomicState]
  /\ call' = [call EXCEPT ![t].ret = ret]
  /\ UNCHANGED Unlocked

\* ... and stores it.
Store(t, from, to, n) ==
  /\ Goto(t, from, to)
  /\ atomicState' = tmp[t] + n
  /\ nest' = [nest EXCEPT ![t] = @ + n]
  /\ tmp' = [tmp EXCEPT ![t] = 0]
  /\ UNCHANGED <<call, limitZero, thrVars, Rest>>

AtomicBegin(t) == nest[t] < MaxNest /\ Load(t, "ml", "begin", "ml")
AtomicBeginStore(t) == Store(t, "begin", "begin_test", 1)

AtomicBeginTest(t) ==
  /\ Goto(t, "begin_test", call[t].ret)
  /\ limitZero' = (limitZero /\ ~signalIsPending)
  /\ UNCHANGED <<call, tmp, nest, atomicState, thrVars, Rest>>

AtomicEnd(t) == nest[t] > 0 /\ Load(t, "ml", "end", "ml")
AtomicEndStore(t) == Store(t, "end", "end_test", -1)

\* A pending signal makes compiled code call GC_collect, which enters and
\* leaves the runtime only if the thread has yet to mark its stack.
AtomicEndTest(t) ==
  /\ \/ Goto(t, "end_test", call[t].ret)
     \/ /\ signalIsPending /\ atomicState = 0
        /\ Goto(t, "end_test", "enter")
  /\ call' = [call EXCEPT ![t].op = "collect"]
  /\ UNCHANGED <<tmp, Unlocked>>

\* The check at a loop header that limit = 0 makes fail.
LimitCheck(t) ==
  /\ limitZero
  /\ Goto(t, "ml", "enter")
  /\ call' = [call EXCEPT ![t] = NoCall]
  /\ UNCHANGED <<tmp, Unlocked>>

CallSwitch(t, to, ret) == [call EXCEPT ![t] = [op |-> "switch", to |-> to, ret |-> ret]]

\* Thread.switch, inside the atomic section it has begun, to a thread that is
\* paused, or (one level up) to a new one.
Switch(t) ==
  /\ t \in Switchers /\ nest[t] > 0
  /\ Goto(t, "ml", "enter")
  /\ call' = CallSwitch(t, current[t], "ml")
  /\ UNCHANGED <<tmp, Unlocked>>

\* Signal.suspend: sigsuspend has returned, and switchToSignalHandler begins an
\* atomic section, starts the handler and switches to it.
Suspend(t) ==
  /\ t = Main /\ nest[t] = 0 /\ signalIsPending
  /\ Load(t, "ml", "begin", "suspend")

SuspendStart(t) ==
  /\ Goto(t, "suspend", "suspend_set")
  /\ Started(t)
  /\ UNCHANGED <<call, tmp, nest, atomicState, limitZero, current, savedRef,
                 signalsPending, hdlVars, h, histVars>>

SuspendSet(t) ==
  /\ Goto(t, "suspend_set", "enter")
  /\ nest' = [nest EXCEPT ![t] = 2]
  /\ atomicState' = 2
  /\ call' = CallSwitch(t, "handler", "h_saved")
  /\ UNCHANGED <<tmp, limitZero, thrVars, Rest>>

\* MLton_callFromC; a call from inside a call is not modelled.
CallFromC(t) ==
  /\ nest[t] = 0 /\ current[t] = "user"
  /\ Goto(t, "ml", "c_limit")
  /\ saved' = [saved EXCEPT ![t] = current[t]]
  /\ Add(t, 3)
  /\ UNCHANGED <<call, tmp, limitZero, current, savedRef, Rest>>

CallFromCSwitch(t) ==
  /\ Goto(t, "c_limit", "enter")
  /\ limitZero' = (limitZero /\ ~signalIsPending)
  /\ call' = CallSwitch(t, "chandler", "c_handler")
  /\ UNCHANGED <<tmp, nest, atomicState, thrVars, Rest>>

\* handlerLoop takes the saved thread and switches to a worker, which ends
\* the atomic section and runs the exported function.
HandlerLoop(t) ==
  /\ Goto(t, "c_handler", "enter")
  /\ savedRef' = [savedRef EXCEPT ![t] = saved[t]]
  /\ saved' = [saved EXCEPT ![t] = None]
  /\ call' = CallSwitch(t, "worker", "c_worker")
  /\ UNCHANGED <<tmp, nest, atomicState, limitZero, current, Rest>>

WorkerStart(t)  == Load(t, "c_worker", "end", "ml")
WorkerReturn(t) == nest[t] = 0 /\ current[t] = "worker"
                   /\ Load(t, "ml", "begin", "c_return")

\* setSaved, returnToC, incAtomic and the switch back (GC_getSavedThread
\* resets savedThread).
ReturnToC(t) ==
  /\ Goto(t, "c_return", "enter")
  /\ Add(t, 1)
  /\ call' = CallSwitch(t, savedRef[t], "c_done")
  /\ savedRef' = [savedRef EXCEPT ![t] = None]
  /\ UNCHANGED <<tmp, limitZero, current, saved, Rest>>

\* decAtomic and the test that follows it.
CallFromCDone(t) ==
  /\ Goto(t, "c_done", "leave_test")
  /\ Add(t, -1)
  /\ call' = [call EXCEPT ![t] = NoCall]
  /\ UNCHANGED <<tmp, limitZero, thrVars, Rest>>

-----------------------------------------------------------------------------
GCHandler(r) == \/ \E sig \in Sigs : GCHandlerTest(r, sig)
                \/ GCHandlerLimit(r) \/ GCHandlerPend(r) \/ GCHandlerAdd(r)

Runtime(t) == \/ BeginAtomic(t) \/ BeginAtomicLimit(t)
              \/ EndAtomic(t) \/ EndAtomicTest(t) \/ EndAtomicSet(t)
              \/ SwitchToThread(t) \/ SwitchTest(t)
              \/ StartSignalHandler(t) \/ StartSignalHandlerSet(t)

HandlerThread(t) == \/ HandlerSaved(t) \/ HandlerFind(t) \/ HandlerReset(t)
                    \/ HandlerRun(t) \/ FinishSignalHandler(t)

MLCode(t) == \/ AtomicBegin(t) \/ AtomicBeginStore(t) \/ AtomicBeginTest(t)
             \/ AtomicEnd(t) \/ AtomicEndStore(t) \/ AtomicEndTest(t)
             \/ LimitCheck(t) \/ Switch(t)
             \/ Suspend(t) \/ SuspendStart(t) \/ SuspendSet(t)
             \/ CallFromC(t) \/ CallFromCSwitch(t) \/ HandlerLoop(t)
             \/ WorkerStart(t) \/ WorkerReturn(t) \/ ReturnToC(t) \/ CallFromCDone(t)

Step == \/ \E r \in Receivers : GCHandler(r)
        \/ \E t \in Mutators : Runtime(t) \/ HandlerThread(t) \/ MLCode(t)

\* Main is between looking for a signal and having taken what it found.
Serving ==
  \/ pc[Main] \in {"switch_test", "start", "suspend"}
  \/ amInSignalHandler /\ pc[Main] \notin {"h_unblock", "h_finish"}

\* What no lock prevents: compiled code is about to store a stale counter;
\* atomicState or signalIsPending has changed since a mutator tested it, which
\* is about to set limit or the counter; GC_handler runs on another thread
\* while the main thread serves signals, or on two threads at once.
Collision ==
  \/ \E t \in Mutators :
       \/ pc[t] \in {"begin", "end"} /\ tmp[t] # atomicState
       \/ pc[t] \in {"start", "start_set", "suspend", "suspend_set"} /\ atomicState # 1
       \/ pc[t] = "leave_set" /\ ~(atomicState = 0 /\ signalIsPending)
  \/ \E r \in Receivers \ {Main} :
       /\ h[r].at # "idle"
       /\ \/ Serving
          \/ \E q \in Receivers \ {r} : h[q].at # "idle"

Next == ~collided /\ Step /\ collided' = Collision'

Spec == Init /\ [][Next]_vars

-----------------------------------------------------------------------------
(* Properties.                                                             *)

\* Every variable keeps its type: atomicState in particular, an unsigned
\* word, never goes below zero.
TypeOK ==
  /\ call \in [Mutators -> [op : {"collect", "switch"}, to : Green,
                           ret : {"ml", "h_saved", "c_handler", "c_worker",
                                  "c_return", "c_done", "suspend"}]]
  /\ tmp \in [Mutators -> Nat] /\ nest \in [Mutators -> Nat]
  /\ atomicState \in Nat
  /\ {limitZero, signalIsPending, amInSignalHandler, blocked, collided}
       \subseteq BOOLEAN
  /\ signalsPending \subseteq Sigs /\ fs \subseteq Sigs /\ owed \subseteq Sigs
  /\ current \in [Mutators -> Green]
  /\ saved \in [Mutators -> Green \cup {None}]
  /\ savedRef \in [Mutators -> Green \cup {None}] /\ resume \in Green \cup {None}
  /\ h \in [Receivers -> [at : {"idle", "limit", "pend", "add"}, sig : Sigs, load : SUBSET Sigs]]
  /\ arrivals \in 0 .. MaxArrivals

SumNest[S \in SUBSET Mutators] ==
  IF S = {} THEN 0 ELSE LET t == CHOOSE t \in S : TRUE IN nest[t] + SumNest[S \ {t}]

\* The one counter is the sum of what the threads have contributed, through
\* every switch, call from C and start of the handler (which sets it).
AtomicBalanced == collided \/ atomicState = SumNest[Mutators]

\* The places of the handler thread.
InHandler == {"h_saved", "h_find", "h_reset", "h_unblock", "h_finish"}

\* The asserts of GC_startSignalHandler and GC_finishSignalHandler, and the
\* comment between them: the handler is started with no thread saved and
\* never while it runs, runs on the one POSIX thread that has a handler
\* thread, and runs in an atomic section of its own.
HandlerExclusive ==
  \A t \in Mutators :
    /\ pc[t] \in {"start", "suspend"} =>
                          /\ t = Main /\ saved[t] = None
                          /\ signalIsPending /\ ~amInSignalHandler
    /\ pc[t] \in InHandler => /\ t = Main /\ amInSignalHandler
                              /\ current[t] = "handler" /\ nest[t] = 1

\* A signal that GC_handler has noted is found by a run of the handler: until
\* then its bit is set, and either signalIsPending is, too, so that the next
\* switch starts the handler, or the handler has yet to look.
NoSignalLost ==
  \A sig \in owed :
    \/ collided
    \/ sig \in fs
    \/ /\ sig \in signalsPending
       /\ \/ signalIsPending
          \/ amInSignalHandler /\ pc[Main] \notin {"h_reset", "h_unblock", "h_finish"}

\* limit is 0 only for the sake of a signal that is noted or about to be, so
\* that the compiled atomicBegin, which looks at signalIsPending alone, finds
\* it.  GC_handler on another thread may store the 0 late, when the program is
\* already on its way into the handler; the switch that ends that run of the
\* handler resets it.
LimitForPending ==
  \/ collided
  \/ limitZero => \/ signalIsPending
                  \/ \E r \in Receivers : h[r].at = "pend"
                  \/ amInSignalHandler
                  \/ pc[Main] \in {"enter", "enter_limit"}
=============================================================================
