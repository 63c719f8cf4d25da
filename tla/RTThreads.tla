------------------------------ MODULE RTThreads ------------------------------
(***************************************************************************)
(* The life of the real-time threads: realtimeThreadInit creates them,     *)
(* they wait in realtimeRunner until RT_init, called by the ML program on  *)
(* the main thread, has given each a pair of green threads; then they      *)
(* enter ML through Parallel_run and serve the work queue of their         *)
(* priority, which is guarded by the spin lock ML_lock; a thread that      *)
(* calls exit goes through RTGC_done.                                      *)
(*                                                                         *)
(* rtThreads_lock is a default POSIX mutex: as glibc implements it,        *)
(* unlocking it, by pthread_mutex_unlock or by waiting on its condition,   *)
(* frees it whoever holds it.  The ML part of the queue (primthread.sml)   *)
(* reads and writes the list of a priority in separate steps.              *)
(***************************************************************************)
EXTENDS Integers, Sequences

CONSTANTS
  MAXPRI,    \* threads 0 .. MAXPRI-1; thread 1 is the collector
  MaxWork    \* bound: calls of pspawn by the main thread

ASSUME RTThreadsAssumption == MAXPRI \in Nat /\ MAXPRI >= 3 /\ MaxWork \in Nat

RT      == 2 .. (MAXPRI - 1)
Threads == {0} \cup RT
NoOne   == -1

VARIABLES
  useRTThreads,   \* the run-time option of the same name
  pc,
  initialized,    \* threads accounted for by realtimeThreadInit
  prepared,       \* threads whose callFromCHandlerThread and currentThread are set
  rtinitfromML,
  rtLock,         \* owner of rtThreads_lock
  ML_mutex,       \* owner of ML_lock; 0, the main thread, until initialised
  workQ,          \* work queued for each priority
  seen,           \* the list a thread has read inside addWork or getWork
  job,            \* what it adds there, and for which priority
  added, taken,   \* history: work added to and taken from each priority
  gc,             \* the collector: "idle", "running", or "broadcast" it has to make
  exited          \* the process has ended

bootVars  == <<useRTThreads, initialized, prepared, rtinitfromML, rtLock>>
queueVars == <<ML_mutex, workQ, seen, job, added, taken>>
vars == <<bootVars, pc, queueVars, gc, exited>>

Work == Threads \X (0 .. MaxWork)      \* who added it, and its number

MainBootPlaces == {"create", "copy", "flag", "rtlock", "broadcast", "rtunlock"}
BootPlaces  == {"start", "test", "sleep", "waiting", "reacquire", "unlock"}
MLPlaces    == {"thread_main", "addlock", "addread", "addwrite", "addunlock",
                "getlock", "getread", "getwrite", "getunlock", "working",
                "done", "block", "exitwait", "free"}

Init ==
  /\ useRTThreads \in BOOLEAN
  /\ pc = [t \in Threads |-> IF t = 0 THEN "create" ELSE "absent"]
  /\ initialized = 2
  /\ prepared = {}
  /\ rtinitfromML = FALSE
  /\ rtLock = NoOne
  /\ ML_mutex = 0
  /\ workQ = [p \in RT |-> <<>>]
  /\ seen = [t \in Threads |-> <<>>]
  /\ job = [t \in Threads |-> [work |-> <<0, 0>>, pri |-> 2]]
  /\ added = [p \in RT |-> <<>>]
  /\ taken = [p \in RT |-> <<>>]
  /\ gc = "idle"
  /\ exited = FALSE

Goto(t, from, to) == /\ ~exited /\ pc[t] = from
                     /\ pc' = [pc EXCEPT ![t] = to]

-----------------------------------------------------------------------------
(* The main thread, before and in RT_init.                                 *)

\* Mutated form: the loop runs up to MAXPRI itself.
RealtimeThreadInit_oneMore ==
  /\ ~exited /\ pc[0] = "create" /\ initialized <= MAXPRI
  /\ \/ /\ useRTThreads
        /\ pc' = [pc EXCEPT ![initialized] = "start"]
        /\ initialized' = initialized + 1
        /\ UNCHANGED exited
     \/ /\ useRTThreads
        /\ exited' = TRUE
        /\ UNCHANGED <<pc, initialized>>
     \/ /\ ~useRTThreads
        /\ initialized' = MAXPRI
        /\ UNCHANGED <<pc, exited>>
  /\ UNCHANGED <<useRTThreads, prepared, rtinitfromML, rtLock, queueVars, gc>>

\* One iteration of the loop of realtimeThreadInit, or its other branch,
\* which only pretends; pthread_create may fail, which ends the process.
RealtimeThreadInit ==
  /\ ~exited /\ pc[0] = "create" /\ initialized < MAXPRI
  /\ \/ /\ useRTThreads
        /\ pc' = [pc EXCEPT ![initialized] = "start"]
        /\ initialized' = initialized + 1
        /\ UNCHANGED exited
     \/ /\ useRTThreads
        /\ exited' = TRUE
        /\ UNCHANGED <<pc, initialized>>
     \/ /\ ~useRTThreads
        /\ initialized' = MAXPRI
        /\ UNCHANGED <<pc, exited>>
  /\ UNCHANGED <<useRTThreads, prepared, rtinitfromML, rtLock, queueVars, gc>>

\* realtimeThreadWaitForInit leaves its loop; ML code runs up to RT_init.
RealtimeThreadWaitForInit ==
  /\ ~(initialized < MAXPRI)
  /\ Goto(0, "create", "copy")
  /\ UNCHANGED <<bootVars, queueVars, gc, exited>>

\* One iteration of RT_init's loop: green threads for the next real-time
\* thread, in order, whether or not such a thread runs.
RTInitCopy ==
  /\ RT # prepared
  /\ Goto(0, "copy", "copy")
  /\ prepared' = prepared \cup {CHOOSE i \in RT \ prepared : \A j \in RT \ prepared : i <= j}
  /\ UNCHANGED <<useRTThreads, initialized, rtinitfromML, rtLock, queueVars, gc, exited>>

\* Mutated form: the flag goes up with the mutexes still to be initialised.
InitializeMutexes_late ==
  /\ RT = prepared
  /\ Goto(0, "copy", "rtlock")
  /\ rtinitfromML' = TRUE
  /\ UNCHANGED <<useRTThreads, initialized, prepared, rtLock, queueVars, gc, exited>>

InitializeMutexes ==
  /\ RT = prepared
  /\ Goto(0, "copy", "flag")
  /\ ML_mutex' = NoOne
  /\ UNCHANGED <<bootVars, workQ, seen, job, added, taken, gc, exited>>

\* rtinitfromML = TRUE, outside the lock.
RTInitFlag ==
  /\ Goto(0, "flag", "rtlock")
  /\ rtinitfromML' = TRUE
  /\ UNCHANGED <<useRTThreads, initialized, prepared, rtLock, queueVars, gc, exited>>

RTInitLock ==
  /\ rtLock = NoOne
  /\ Goto(0, "rtlock", "broadcast")
  /\ rtLock' = 0
  /\ UNCHANGED <<useRTThreads, initialized, prepared, rtinitfromML, queueVars, gc, exited>>

\* Mutated form: SIGNAL_RT_THREADS in place of BROADCAST_RT_THREADS.
RTInitBroadcast_signal ==
  /\ ~exited /\ pc[0] = "broadcast"
  /\ LET W == {t \in RT : pc[t] = "waiting"}
     IN  \/ /\ W = {}
            /\ pc' = [pc EXCEPT ![0] = "rtunlock"]
         \/ \E t \in W : pc' = [pc EXCEPT ![0] = "rtunlock", ![t] = "reacquire"]
  /\ UNCHANGED <<bootVars, queueVars, gc, exited>>

RTInitBroadcast ==
  /\ ~exited /\ pc[0] = "broadcast"
  /\ pc' = [t \in Threads |-> IF t = 0 THEN "rtunlock"
                              ELSE IF pc[t] = "waiting" THEN "reacquire" ELSE pc[t]]
  /\ UNCHANGED <<bootVars, queueVars, gc, exited>>

RTInitUnlock ==
  /\ Goto(0, "rtunlock", "ml")
  /\ rtLock' = NoOne
  /\ UNCHANGED <<useRTThreads, initialized, prepared, rtinitfromML, queueVars, gc, exited>>

-----------------------------------------------------------------------------
(* realtimeRunner.                                                         *)

RunnerLock(t) ==
  /\ rtLock = NoOne
  /\ Goto(t, "start", "test")
  /\ rtLock' = t
  /\ UNCHANGED <<useRTThreads, initialized, prepared, rtinitfromML, queueVars, gc, exited>>

\* The loop's test: made with the lock the first time and without it
\* afterwards.  Leaving the loop does not release it.
RunnerTest(t) ==
  /\ Goto(t, "test", IF rtinitfromML THEN "thread_main" ELSE "sleep")
  /\ UNCHANGED <<bootVars, queueVars, gc, exited>>

\* BLOCK_RT_THREADS, on the strength of that test, releases the lock.
RunnerSleep(t) ==
  /\ Goto(t, "sleep", "waiting")
  /\ rtLock' = NoOne
  /\ UNCHANGED <<useRTThreads, initialized, prepared, rtinitfromML, queueVars, gc, exited>>

SpuriousWakeup(t) ==
  /\ \/ Goto(t, "waiting", "reacquire")
     \/ Goto(t, "exitwait", "free")
  /\ UNCHANGED <<bootVars, queueVars, gc, exited>>

\* It returns with the lock ...
RunnerReacquire(t) ==
  /\ rtLock = NoOne
  /\ Goto(t, "reacquire", "unlock")
  /\ rtLock' = t
  /\ UNCHANGED <<useRTThreads, initialized, prepared, rtinitfromML, queueVars, gc, exited>>

\* ... which is released before the test is made again.
RunnerUnlock(t) ==
  /\ Goto(t, "unlock", "test")
  /\ rtLock' = NoOne
  /\ UNCHANGED <<useRTThreads, initialized, prepared, rtinitfromML, queueVars, gc, exited>>

-----------------------------------------------------------------------------
(* primthread.sml.                                                         *)

Submit(t, from, w, p) ==
  /\ Goto(t, from, "addlock")
  /\ job' = [job EXCEPT ![t] = [work |-> w, pri |-> p]]
  /\ UNCHANGED <<bootVars, ML_mutex, workQ, seen, added, taken, gc, exited>>

\* thread_main: every real-time thread adds the work "test" for priority 2.
ThreadMain(t) == Submit(t, "thread_main", <<t, 0>>, 2)

\* pspawn on the main thread.  Its first step numbers the work.
Pspawn == /\ job[0].work[2] < MaxWork
          /\ \E p \in RT : Submit(0, "ml", <<0, job[0].work[2] + 1>>, p)

\* Mutated form: the compare-and-swap is a plain store.
MLLock_store(t) ==
  /\ \/ Goto(t, "addlock", "addread")
     \/ Goto(t, "getlock", "getread")
  /\ ML_mutex' = t
  /\ UNCHANGED <<bootVars, workQ, seen, job, added, taken, gc, exited>>

\* ML_lock: spin until it is free, then compare-and-swap.
MLLock(t) ==
  /\ ML_mutex = NoOne
  /\ \/ Goto(t, "addlock", "addread")
     \/ Goto(t, "getlock", "getread")
  /\ ML_mutex' = t
  /\ UNCHANGED <<bootVars, workQ, seen, job, added, taken, gc, exited>>

\* ML_unlock: compare-and-swap, without effect for a thread that does not hold it.
MLUnlock(t) ==
  /\ \/ Goto(t, "addunlock", IF t = 0 THEN "ml" ELSE "getlock")
     \/ Goto(t, "getunlock", IF seen[t] = <<>> THEN "getlock" ELSE "working")
  /\ ML_mutex' = IF ML_mutex = t THEN NoOne ELSE ML_mutex
  /\ UNCHANGED <<bootVars, workQ, seen, job, added, taken, gc, exited>>

\* Array.unsafeSub (wq, p), in addWork and in getWork.
ReadList(t) ==
  /\ \/ Goto(t, "addread", "addwrite") /\ seen' = [seen EXCEPT ![t] = workQ[job[t].pri]]
     \/ Goto(t, "getread", "getwrite") /\ seen' = [seen EXCEPT ![t] = workQ[t]]
  /\ UNCHANGED <<bootVars, ML_mutex, workQ, job, added, taken, gc, exited>>

\* Array.unsafeUpdate (wq, p, ... @ [w])
AddWork(t) ==
  LET p == job[t].pri IN
  /\ Goto(t, "addwrite", "addunlock")
  /\ workQ' = [workQ EXCEPT ![p] = Append(seen[t], job[t].work)]
  /\ added' = [added EXCEPT ![p] = Append(@, job[t].work)]
  /\ UNCHANGED <<bootVars, ML_mutex, seen, job, taken, gc, exited>>

\* getWork: the thread's own priority; an empty list is left alone.
GetWork(t) ==
  /\ Goto(t, "getwrite", "getunlock")
  /\ IF seen[t] = <<>> THEN UNCHANGED <<workQ, taken>>
     ELSE /\ workQ' = [workQ EXCEPT ![t] = Tail(seen[t])]
          /\ taken' = [taken EXCEPT ![t] = Append(@, Head(seen[t]))]
  /\ UNCHANGED <<bootVars, ML_mutex, seen, job, added, gc, exited>>

\* loop: the work returns, and the next is fetched.
WorkReturns(t) ==
  /\ Goto(t, "working", "getlock")
  /\ UNCHANGED <<bootVars, queueVars, gc, exited>>

-----------------------------------------------------------------------------
(* RTGC_done and the collector it waits for.                               *)

\* MLton_halt, from a work item or from the main program.
Halt(t) ==
  /\ Goto(t, IF t = 0 THEN "ml" ELSE "working", "done")
  /\ UNCHANGED <<bootVars, queueVars, gc, exited>>

\* With real-time threads every thread but number 2 spins here for ever.
DoneTest(t) ==
  /\ t = 2 \/ ~useRTThreads
  /\ Goto(t, "done", IF gc = "running" THEN "block" ELSE "free")
  /\ UNCHANGED <<bootVars, queueVars, gc, exited>>

\* LOCK_FL; BLOCK: no test is made again under the lock.
DoneBlock(t) ==
  /\ Goto(t, "block", "exitwait")
  /\ UNCHANGED <<bootVars, queueVars, gc, exited>>

\* free(s->worklist); exit.
DoneFree(t) ==
  /\ Goto(t, "free", "free")
  /\ exited' = TRUE
  /\ UNCHANGED <<bootVars, queueVars, gc>>

\* Once the main thread runs ML it may ask for a collection at any time.
GCStart ==
  /\ ~exited /\ gc = "idle" /\ pc[0] = "ml"
  /\ gc' = "running"
  /\ UNCHANGED <<bootVars, pc, queueVars, exited>>

\* isGCRunning = false
GCFinish ==
  /\ ~exited /\ gc = "running"
  /\ gc' = "broadcast"
  /\ UNCHANGED <<bootVars, pc, queueVars, exited>>

\* Mutated form: whoever waits on fl_empty_cond is not told.
GCBroadcast_silent ==
  /\ ~exited /\ gc = "broadcast"
  /\ gc' = "idle"
  /\ UNCHANGED <<bootVars, pc, queueVars, exited>>

GCBroadcast ==
  /\ ~exited /\ gc = "broadcast"
  /\ gc' = "idle"
  /\ pc' = [t \in Threads |-> IF pc[t] = "exitwait" THEN "free" ELSE pc[t]]
  /\ UNCHANGED <<bootVars, queueVars, exited>>

-----------------------------------------------------------------------------
MainBoot == \/ RealtimeThreadInit \/ RealtimeThreadWaitForInit \/ RTInitCopy
            \/ InitializeMutexes \/ RTInitFlag \/ RTInitLock
            \/ RTInitBroadcast \/ RTInitUnlock

Runner(t) == RunnerLock(t) \/ RunnerTest(t) \/ RunnerSleep(t) \/ RunnerReacquire(t) \/ RunnerUnlock(t)

QueueStep(t) == MLLock(t) \/ ReadList(t) \/ AddWork(t) \/ GetWork(t) \/ MLUnlock(t)

Done(t) == DoneTest(t) \/ DoneBlock(t) \/ DoneFree(t)

Next ==
  \/ MainBoot \/ Pspawn
  \/ \E t \in RT : Runner(t) \/ ThreadMain(t) \/ WorkReturns(t)
  \/ \E t \in Threads : QueueStep(t) \/ Halt(t) \/ Done(t) \/ SpuriousWakeup(t)
  \/ GCStart \/ GCFinish \/ GCBroadcast

Spec == Init /\ [][Next]_vars

\* The scheduler runs every thread that can run, and a mutex that is free
\* again and again is given to a thread that waits for it.  ML code and the
\* spin lock promise nothing.
Fairness ==
  /\ WF_vars(MainBoot) /\ SF_vars(RTInitLock)
  /\ \A t \in RT : /\ WF_vars(Runner(t))
                   /\ SF_vars(RunnerLock(t)) /\ SF_vars(RunnerReacquire(t))
  /\ \A t \in Threads : WF_vars(Done(t))
  /\ WF_vars(GCFinish \/ GCBroadcast)

FairSpec == Spec /\ Fairness

-----------------------------------------------------------------------------
(* Properties.                                                             *)

\* Every variable keeps its type.
TypeOK ==
  /\ useRTThreads \in BOOLEAN
  /\ pc \in [Threads -> {"absent", "ml"} \cup MainBootPlaces
                           \cup BootPlaces \cup MLPlaces]
  /\ initialized \in 2 .. MAXPRI
  /\ prepared \subseteq RT
  /\ rtinitfromML \in BOOLEAN
  /\ rtLock \in Threads \cup {NoOne}
  /\ ML_mutex \in Threads \cup {NoOne}
  /\ {workQ, added, taken} \subseteq [RT -> Seq(Work)]
  /\ seen \in [Threads -> Seq(Work)]
  /\ job \in [Threads -> [work : Work, pri : RT]]
  /\ gc \in {"idle", "running", "broadcast"}
  /\ exited \in BOOLEAN

\* A real-time thread runs ML code only after RT_init has given it its green
\* threads and has initialised the mutexes (while the main thread boots it
\* never holds ML_mutex, so 0 still is the static value), which
\* MLton_callFromC and the first addWork rely on: however it comes to leave
\* the loop of realtimeRunner, on time, late or after a spurious wake-up.
RunsPrepared ==
  \A t \in RT : pc[t] \in MLPlaces =>
     /\ t \in prepared
     /\ pc[0] \in MainBootPlaces => ML_mutex # 0

\* addWork and getWork neither lose, duplicate nor reorder work, although
\* they read a list and write it in separate steps: what was taken from a
\* priority, followed by what is queued, is what was added, in order.
WorkConserved == \A p \in RT : added[p] = taken[p] \o workQ[p]

\* A thread came late: it found the flag set at its first test, left the loop
\* with rtThreads_lock, and keeps it in ML for good.
Late == \E t \in RT : pc[t] \in MLPlaces /\ rtLock = t

\* A real-time thread that RT_init still reaches: it has to test the flag, or
\* sleeps with the broadcast to come.
Reached(t) == \/ pc[t] \in {"start", "test", "reacquire", "unlock"}
              \/ pc[t] = "waiting" /\ pc[0] \in {"rtlock", "broadcast"}

\* Once RT_init raises rtinitfromML, the main thread gets out of RT_init and
\* every real-time thread it still reaches into ML, unless the process ends or
\* a thread came late.  Left out is a thread that found the flag down without
\* the lock, after a spurious wake-up, and sleeps only after the broadcast:
\* nothing wakes it.
BootsUnlessLate ==
  /\ rtinitfromML ~> exited \/ Late \/ pc[0] \notin MainBootPlaces
  /\ \A t \in RT : rtinitfromML /\ Reached(t) ~> exited \/ Late \/ pc[t] \in MLPlaces

\* A thread that RTGC_done has made wait while the collection it saw is
\* still on is woken by its end and leaves the program.
ExitAfterCollection ==
  \A t \in Threads : (pc[t] = "exitwait" /\ gc \in {"running", "broadcast"}) ~> exited
=============================================================================
