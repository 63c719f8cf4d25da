--------------------------- MODULE RTThreadsProofs ---------------------------
(***************************************************************************)
(* Proofs about RTThreads, for every number of real-time threads and every *)
(* amount of work.                                                         *)
(***************************************************************************)
EXTENDS RTThreads, SequenceTheorems, TLAPS

USE RTThreadsAssumption

\* The main thread is not a real-time thread, and no thread is NoOne.
LEMMA ThreadFacts ==
  /\ 0 \in Threads /\ 0 \notin RT /\ RT \subseteq Threads /\ 2 \in RT
  /\ NoOne \notin Threads
  BY DEF Threads, RT, NoOne

\* Adding at the end of the queue is adding at the end of everything.
LEMMA AddedLast ==
  ASSUME NEW S, NEW q \in Seq(S), NEW s \in Seq(S), NEW w \in S
  PROVE  s \o Append(q, w) = Append(s \o q, w)
<1> DEFINE a == s \o Append(q, w)
           b == Append(s \o q, w)
<1>1. s \o q \in Seq(S) /\ Append(q, w) \in Seq(S)
  BY ConcatProperties
<1>2. a \in Seq(S) /\ b \in Seq(S) /\ Len(a) = Len(b)
  BY <1>1, ConcatProperties, LenProperties
<1>3. ASSUME NEW i \in 1 .. Len(a) PROVE a[i] = b[i]
  BY <1>1, <1>2, <1>3, ConcatProperties, LenProperties
<1> HIDE DEF a, b
<1>4. a = b
  BY <1>2, <1>3, SeqEqual
<1> QED BY <1>4 DEF a, b

\* Taking the first of the queue moves it, and changes nothing otherwise.
LEMMA TakenFirst ==
  ASSUME NEW S, NEW q \in Seq(S), NEW s \in Seq(S), q # <<>>
  PROVE  Append(s, Head(q)) \o Tail(q) = s \o q
<1> DEFINE a == Append(s, Head(q)) \o Tail(q)
           b == s \o q
<1>1. /\ Head(q) \in S /\ Tail(q) \in Seq(S) /\ Append(s, Head(q)) \in Seq(S)
      /\ Len(q) \in Nat \ {0} /\ Len(s) \in Nat /\ Len(Tail(q)) = Len(q) - 1
      /\ \A i \in 1 .. Len(Tail(q)) : Tail(q)[i] = q[i + 1]
      /\ Head(q) = q[1]
  BY HeadTailProperties, EmptySeq, LenProperties
<1>2. a \in Seq(S) /\ b \in Seq(S) /\ Len(a) = Len(b) /\ Len(b) = Len(s) + Len(q)
  BY <1>1, ConcatProperties
<1>3. ASSUME NEW i \in 1 .. Len(a) PROVE a[i] = b[i]
  BY <1>1, <1>2, <1>3, ConcatProperties
<1> HIDE DEF a, b
<1>4. a = b
  BY <1>2, <1>3, SeqEqual
<1> QED BY <1>4 DEF a, b

-----------------------------------------------------------------------------
\* Where each kind of thread can be: the main thread never takes work, and a
\* real-time thread never boots the others.
MainPlaces == MainBootPlaces \cup {"ml", "addlock", "addread", "addwrite", "addunlock",
                                   "done", "block", "exitwait", "free"}
RTPlaces   == {"absent"} \cup BootPlaces \cup MLPlaces

PlacesInv == /\ pc \in [Threads -> MainPlaces \cup RTPlaces]
             /\ pc[0] \in MainPlaces
             /\ \A t \in RT : pc[t] \in RTPlaces

\* RT_init prepares the threads in the order of their numbers.
BootTypeInv == /\ initialized \in 2 .. MAXPRI
               /\ \E k \in 1 .. (MAXPRI - 1) : prepared = 2 .. k
               /\ rtLock \in Threads \cup {NoOne}
               /\ useRTThreads \in BOOLEAN /\ rtinitfromML \in BOOLEAN

QueueTypeInv == /\ ML_mutex \in Threads \cup {NoOne}
                /\ workQ \in [RT -> Seq(Work)]
                /\ added \in [RT -> Seq(Work)]
                /\ taken \in [RT -> Seq(Work)]
                /\ seen \in [Threads -> Seq(Work)]
                /\ job \in [Threads -> [work : Work, pri : RT]]

TypeInv == /\ PlacesInv /\ BootTypeInv /\ QueueTypeInv
           /\ gc \in {"idle", "running", "broadcast"} /\ exited \in BOOLEAN

\* A thread goes to another of its places.
LEMMA PlacesStep ==
  ASSUME PlacesInv, NEW t \in Threads, NEW to, pc' = [pc EXCEPT ![t] = to],
         t = 0 => to \in MainPlaces, t \in RT => to \in RTPlaces
  PROVE  PlacesInv'
BY ThreadFacts DEF PlacesInv, Threads

\* What the main thread does until RT_init returns.
LEMMA MainBootTyped ==
  ASSUME TypeInv, MainBoot PROVE TypeInv'
<1> USE ThreadFacts DEF TypeInv, Goto, bootVars
<1> DEFINE Rest == /\ UNCHANGED <<workQ, added, taken, seen, job, gc>>
                   /\ ML_mutex' \in {ML_mutex, NoOne} /\ exited' \in BOOLEAN
<1>0. ASSUME Rest PROVE QueueTypeInv' /\ gc' \in {"idle", "running", "broadcast"} /\ exited' \in BOOLEAN
  BY <1>0 DEF QueueTypeInv
<1>1. CASE RealtimeThreadInit
  <2>1. initialized \in RT /\ initialized + 1 \in 2 .. MAXPRI
    BY <1>1 DEF RealtimeThreadInit, BootTypeInv, RT
  <2>2. PlacesInv'
    BY <1>1, <2>1, PlacesStep DEF RealtimeThreadInit, RTPlaces, BootPlaces, PlacesInv
  <2>3. BootTypeInv'
    BY <1>1, <2>1 DEF RealtimeThreadInit, BootTypeInv
  <2>4. Rest
    BY <1>1 DEF RealtimeThreadInit, queueVars
  <2> QED BY <1>0, <2>2, <2>3, <2>4
<1>2. CASE RTInitCopy
  <2>1. PICK k \in 1 .. (MAXPRI - 1) : prepared = 2 .. k
    BY DEF BootTypeInv
  <2>2. k + 1 \in RT \ prepared /\ \A j \in RT \ prepared : k + 1 <= j
    BY <1>2, <2>1 DEF RTInitCopy, RT
  <2>3. (CHOOSE i \in RT \ prepared : \A j \in RT \ prepared : i <= j) = k + 1
    BY <2>2 DEF RT
  <2>4. prepared' = 2 .. (k + 1) /\ k + 1 \in 1 .. (MAXPRI - 1)
    BY <1>2, <2>1, <2>2, <2>3 DEF RTInitCopy, RT
  <2>5. BootTypeInv'
    BY <1>2, <2>4 DEF RTInitCopy, BootTypeInv
  <2>6. Rest
    BY <1>2 DEF RTInitCopy, queueVars
  <2>7. PlacesInv'
    BY <1>2, PlacesStep DEF RTInitCopy, MainPlaces, MainBootPlaces
  <2> QED BY <1>0, <2>5, <2>6, <2>7
<1>3. CASE \/ RealtimeThreadWaitForInit \/ InitializeMutexes \/ RTInitFlag \/ RTInitLock \/ RTInitUnlock
  <2> USE <1>3 DEF RealtimeThreadWaitForInit, InitializeMutexes, RTInitFlag, RTInitLock, RTInitUnlock
  <2>1. PlacesInv'
    BY PlacesStep DEF MainPlaces, MainBootPlaces
  <2>2. BootTypeInv'
    BY DEF BootTypeInv
  <2>3. Rest
    BY DEF queueVars
  <2> QED BY <1>0, <2>1, <2>2, <2>3
<1>4. CASE RTInitBroadcast
  <2>1. PlacesInv'
    BY <1>4 DEF RTInitBroadcast, PlacesInv, MainPlaces, MainBootPlaces, RTPlaces, BootPlaces
  <2>2. BootTypeInv' /\ Rest
    BY <1>4 DEF RTInitBroadcast, BootTypeInv, queueVars
  <2> QED BY <1>0, <2>1, <2>2
<1> QED BY <1>1, <1>2, <1>3, <1>4 DEF MainBoot

\* What threads do to the work queues.
LEMMA QueueTyped ==
  ASSUME TypeInv, NEW t \in Threads, QueueStep(t) PROVE TypeInv'
<1> USE ThreadFacts DEF TypeInv, Goto
<1>0. ASSUME UNCHANGED <<bootVars, gc, exited>>
      PROVE  BootTypeInv' /\ gc' \in {"idle", "running", "broadcast"} /\ exited' \in BOOLEAN
  BY <1>0 DEF bootVars, BootTypeInv
\* Only a real-time thread is in getWork.
<1>1. pc[t] \in {"getlock", "getread", "getwrite", "getunlock"} => t \in RT
  BY DEF PlacesInv, MainPlaces, MainBootPlaces, Threads
<1>2. PlacesInv'
  <2> USE PlacesStep, <1>1 DEF MainPlaces, RTPlaces, MLPlaces
  <2>1. CASE MLLock(t)
    BY <2>1 DEF MLLock
  <2>2. CASE ReadList(t)
    BY <2>2 DEF ReadList
  <2>3. CASE AddWork(t)
    BY <2>3 DEF AddWork
  <2>4. CASE GetWork(t)
    BY <2>4 DEF GetWork
  <2>5. CASE MLUnlock(t)
    BY <2>5 DEF MLUnlock
  <2> QED BY <2>1, <2>2, <2>3, <2>4, <2>5 DEF QueueStep
<1>3. QueueTypeInv'
  <2> USE DEF QueueTypeInv
  <2>1. CASE MLLock(t)
    BY <2>1 DEF MLLock
  <2>2. CASE ReadList(t)
    BY <1>1, <2>2 DEF ReadList
  <2>3. CASE AddWork(t)
    <3>0. job[t].pri \in RT /\ job[t].work \in Work /\ seen[t] \in Seq(Work)
      OBVIOUS
    <3>1. job[t].pri \in RT /\ Append(seen[t], job[t].work) \in Seq(Work)
      BY <3>0
    <3>2. Append(added[job[t].pri], job[t].work) \in Seq(Work)
      BY <3>1
    <3> QED BY <2>3, <3>1, <3>2 DEF AddWork
  <2>4. CASE GetWork(t)
    <3>1. CASE seen[t] = <<>>
      BY <2>4, <3>1 DEF GetWork
    <3>2. CASE seen[t] # <<>>
      <4>1. t \in RT
        BY <1>1, <2>4 DEF GetWork
      <4>2. Tail(seen[t]) \in Seq(Work) /\ Head(seen[t]) \in Work
        BY <3>2, HeadTailProperties
      <4>3. workQ' \in [RT -> Seq(Work)]
        <5>1. PICK q \in Seq(Work) : workQ' = [workQ EXCEPT ![t] = q]
          BY <2>4, <3>2, <4>2 DEF GetWork
        <5> QED BY <5>1
      <4>4. taken' \in [RT -> Seq(Work)]
        <5>1. PICK w \in Work : taken' = [taken EXCEPT ![t] = Append(@, w)]
          BY <2>4, <3>2, <4>2 DEF GetWork
        <5> QED BY <4>1, <5>1
      <4> QED BY <2>4, <4>3, <4>4 DEF GetWork
    <3> QED BY <3>1, <3>2
  <2>5. CASE MLUnlock(t)
    BY <2>5 DEF MLUnlock
  <2> QED BY <2>1, <2>2, <2>3, <2>4, <2>5 DEF QueueStep
<1>4. UNCHANGED <<bootVars, gc, exited>>
  BY DEF QueueStep, MLLock, ReadList, AddWork, GetWork, MLUnlock
<1> QED BY <1>0, <1>2, <1>3, <1>4

\* The type invariant together with the places, which it needs: getWork reads
\* the queue of the thread's own number, which the main thread has not.
THEOREM TypeInvariant == Spec => []TypeInv
<1>1. Init => TypeInv
  <2> SUFFICES ASSUME Init PROVE TypeInv
    OBVIOUS
  <2> USE ThreadFacts
  <2>1. PlacesInv
    BY DEF Init, PlacesInv, MainPlaces, MainBootPlaces, RTPlaces
  <2>2. <<0, 0>> \in Work
    BY DEF Work
  <2>3. QueueTypeInv
    BY <2>2 DEF Init, QueueTypeInv
  <2>4. initialized \in 2 .. MAXPRI /\ \E k \in 1 .. (MAXPRI - 1) : prepared = 2 .. k
    <3>1. initialized \in 2 .. MAXPRI
      BY DEF Init
    <3>2. 1 \in 1 .. (MAXPRI - 1)
      OBVIOUS
    <3>3. prepared = 2 .. 1
      BY DEF Init
    <3>4. \E k \in 1 .. (MAXPRI - 1) : prepared = 2 .. k
      BY <3>2, <3>3, Zenon
    <3> QED BY <3>1, <3>4
  <2>5. /\ useRTThreads \in BOOLEAN /\ rtinitfromML \in BOOLEAN /\ rtLock \in Threads \cup {NoOne}
        /\ gc \in {"idle", "running", "broadcast"} /\ exited \in BOOLEAN
    BY Zenon DEF Init
  <2> QED BY <2>1, <2>3, <2>4, <2>5 DEF TypeInv, BootTypeInv
<1>2. TypeInv /\ [Next]_vars => TypeInv'
  <2> SUFFICES ASSUME TypeInv, [Next]_vars PROVE TypeInv'
    OBVIOUS
  <2>0. ASSUME PlacesInv', rtLock' \in Threads \cup {NoOne}, UNCHANGED queueVars,
               UNCHANGED <<useRTThreads, initialized, prepared, rtinitfromML>>,
               gc' \in {"idle", "running", "broadcast"}, exited' \in BOOLEAN
        PROVE  TypeInv'
    BY <2>0 DEF TypeInv, QueueTypeInv, BootTypeInv, queueVars
  <2> USE ThreadFacts DEF Goto
  <2>1. CASE MainBoot
    BY <2>1, MainBootTyped
  <2>2. ASSUME NEW t \in Threads, NEW from, NEW w \in Work, NEW p \in RT, Submit(t, from, w, p)
        PROVE  TypeInv'
    <3>1. PlacesInv'
      BY <2>2, PlacesStep DEF TypeInv, Submit, MainPlaces, RTPlaces, MLPlaces
    <3> QED BY <2>2, <3>1 DEF TypeInv, Submit, QueueTypeInv, BootTypeInv, bootVars
  <2>3. CASE Pspawn
    <3>1. PICK n \in 0 .. MaxWork : job[0].work[2] = n
      BY DEF TypeInv, QueueTypeInv, Work
    <3>2. <<0, job[0].work[2] + 1>> \in Work
      BY <2>3, <3>1 DEF Pspawn, Work
    <3> QED BY <2>2, <2>3, <3>2 DEF Pspawn
  <2>4. ASSUME NEW t \in RT, ThreadMain(t) PROVE TypeInv'
    <3>1. <<t, 0>> \in Work
      BY DEF Work
    <3> QED BY <2>2, <2>4, <3>1 DEF ThreadMain
  <2>5. ASSUME NEW t \in RT, Runner(t) \/ WorkReturns(t) PROVE TypeInv'
    <3> USE <2>5 DEF Runner, RunnerLock, RunnerTest, RunnerSleep, RunnerReacquire, RunnerUnlock, WorkReturns
    <3>1. PlacesInv'
      BY PlacesStep DEF TypeInv, RTPlaces, BootPlaces, MLPlaces
    <3> QED BY <2>0, <3>1 DEF TypeInv, BootTypeInv, bootVars
  <2>6. ASSUME NEW t \in Threads, QueueStep(t) PROVE TypeInv'
    BY <2>6, QueueTyped
  <2>7. ASSUME NEW t \in Threads, Halt(t) \/ Done(t) \/ SpuriousWakeup(t) PROVE TypeInv'
    <3> USE <2>7 DEF Halt, Done, DoneTest, DoneBlock, DoneFree, SpuriousWakeup
    <3>1. PlacesInv'
      <4>1. pc[t] = "waiting" => t \in RT
        BY DEF TypeInv, PlacesInv, MainPlaces, MainBootPlaces, Threads
      <4> QED BY <4>1, PlacesStep DEF TypeInv, MainPlaces, RTPlaces, BootPlaces, MLPlaces
    <3>2. exited' \in BOOLEAN
      BY DEF TypeInv
    <3> QED BY <2>0, <3>1, <3>2 DEF TypeInv, BootTypeInv, bootVars
  <2>8. CASE GCStart \/ GCFinish \/ GCBroadcast
    <3> USE <2>8 DEF GCStart, GCFinish, GCBroadcast
    <3>1. PlacesInv'
      BY DEF TypeInv, PlacesInv, MainPlaces, RTPlaces, MLPlaces
    <3> QED BY <2>0, <3>1 DEF TypeInv, BootTypeInv, bootVars
  <2>9. CASE UNCHANGED vars
    <3>1. PlacesInv'
      BY <2>9 DEF TypeInv, PlacesInv, vars
    <3> QED BY <2>0, <2>9, <3>1 DEF TypeInv, BootTypeInv, vars, bootVars
  <2> QED BY <2>1, <2>3, <2>4, <2>5, <2>6, <2>7, <2>8, <2>9 DEF Next
<1> QED BY <1>1, <1>2, PTL DEF Spec

\* Every variable keeps its type, the work queues and the owner of each lock
\* included.
THEOREM TypeCorrect == Spec => []TypeOK
<1>1. TypeInv => TypeOK
  <2> SUFFICES ASSUME TypeInv PROVE TypeOK
    OBVIOUS
  <2>1. pc \in [Threads -> {"absent", "ml"} \cup MainBootPlaces \cup BootPlaces \cup MLPlaces]
    BY DEF TypeInv, PlacesInv, MainPlaces, RTPlaces, MLPlaces
  <2>2. prepared \subseteq RT
    BY DEF TypeInv, BootTypeInv, RT
  <2> QED BY <2>1, <2>2 DEF TypeOK, TypeInv, BootTypeInv, QueueTypeInv
<1> QED BY <1>1, TypeInvariant, PTL

-----------------------------------------------------------------------------
\* The flag is up exactly from the moment RT_init raises it, by when every
\* thread is prepared and ML_mutex initialised; no real-time thread is in ML
\* before that.
BootInv ==
  /\ rtinitfromML <=> pc[0] \notin {"create", "copy", "flag"}
  /\ pc[0] \notin {"create", "copy"} => prepared = RT
  /\ pc[0] \in MainBootPlaces \ {"create", "copy"} => ML_mutex # 0
  /\ \A t \in RT : pc[t] \in MLPlaces => rtinitfromML

\* The invariant of the boot: however a real-time thread leaves its waiting
\* loop, it finds the flag up.
THEOREM BootInvariant == Spec => []BootInv
<1>1. Init => BootInv
  BY ThreadFacts DEF Init, BootInv, MainBootPlaces, MLPlaces
<1>2. TypeInv /\ BootInv /\ [Next]_vars => BootInv'
  <2> SUFFICES ASSUME TypeInv, BootInv, [Next]_vars PROVE BootInv'
    OBVIOUS
  <2> USE ThreadFacts DEF TypeInv, PlacesInv, BootInv, MainBootPlaces, MLPlaces, Goto
  <2>1. CASE MainBoot
    <3>1. CASE RealtimeThreadInit
      BY <3>1 DEF RealtimeThreadInit, queueVars, BootTypeInv, RT
    <3>2. CASE RealtimeThreadWaitForInit
      BY <3>2 DEF RealtimeThreadWaitForInit, bootVars, queueVars
    <3>3. CASE RTInitCopy
      BY <3>3 DEF RTInitCopy, queueVars
    <3>4. CASE InitializeMutexes
      BY <3>4 DEF InitializeMutexes, bootVars, NoOne
    <3>5. CASE RTInitFlag
      BY <3>5 DEF RTInitFlag, queueVars
    <3>6. CASE RTInitLock \/ RTInitUnlock
      BY <3>6 DEF RTInitLock, RTInitUnlock, queueVars
    <3>7. CASE RTInitBroadcast
      BY <3>7 DEF RTInitBroadcast, bootVars, queueVars
    <3> QED BY <2>1, <3>1, <3>2, <3>3, <3>4, <3>5, <3>6, <3>7 DEF MainBoot
  \* A thread that is in ML and stays there.
  <2>2. ASSUME NEW t \in Threads, NEW to,
               pc[t] \in MLPlaces \cup {"ml"}, to \in MLPlaces \cup {"ml"},
               pc' = [pc EXCEPT ![t] = to], UNCHANGED <<bootVars>>,
               ML_mutex' \in {ML_mutex, NoOne, t}
        PROVE  BootInv'
    <3>1. CASE t = 0
      <4>1. pc'[0] = to /\ \A u \in RT : pc'[u] = pc[u]
        BY <2>2, <3>1
      <4> QED BY <2>2, <3>1, <4>1 DEF bootVars
    <3>2. CASE t \in RT
      <4>1. pc'[0] = pc[0] /\ pc'[t] = to /\ \A u \in RT \ {t} : pc'[u] = pc[u]
        BY <2>2, <3>2
      <4>2. ML_mutex # 0 => ML_mutex' # 0
        BY <2>2, <3>2 DEF NoOne
      <4>3. rtinitfromML
        BY <2>2, <3>2 DEF RTPlaces, BootPlaces
      <4> QED BY <2>2, <3>2, <4>1, <4>2, <4>3 DEF bootVars
    <3> QED BY <3>1, <3>2 DEF Threads
  <2>3. CASE Pspawn
    BY <2>2, <2>3 DEF Pspawn, Submit
  <2>4. ASSUME NEW t \in RT, ThreadMain(t) \/ WorkReturns(t) PROVE BootInv'
    BY <2>2, <2>4 DEF ThreadMain, Submit, WorkReturns, queueVars
  <2>5. ASSUME NEW t \in RT, Runner(t) PROVE BootInv'
    <3>1. CASE RunnerLock(t) \/ RunnerSleep(t) \/ RunnerReacquire(t) \/ RunnerUnlock(t)
      BY <3>1 DEF RunnerLock, RunnerSleep, RunnerReacquire, RunnerUnlock, queueVars
    <3>2. CASE RunnerTest(t) /\ rtinitfromML
      BY <3>2 DEF RunnerTest, bootVars, queueVars
    <3>3. CASE RunnerTest(t) /\ ~rtinitfromML
      BY <3>3 DEF RunnerTest, bootVars, queueVars
    <3> QED BY <2>5, <3>1, <3>2, <3>3 DEF Runner
  <2>6. ASSUME NEW t \in Threads, QueueStep(t) PROVE BootInv'
    BY <2>2, <2>6 DEF QueueStep, MLLock, ReadList, AddWork, GetWork, MLUnlock
  <2>7. ASSUME NEW t \in Threads, Halt(t) \/ Done(t) PROVE BootInv'
    BY <2>2, <2>7 DEF Halt, Done, DoneTest, DoneBlock, DoneFree, queueVars
  <2>8. ASSUME NEW t \in Threads, SpuriousWakeup(t) PROVE BootInv'
    BY <2>8 DEF SpuriousWakeup, bootVars, queueVars
  <2>9. CASE GCStart \/ GCFinish \/ GCBroadcast
    BY <2>9 DEF GCStart, GCFinish, GCBroadcast, bootVars, queueVars
  <2>10. CASE UNCHANGED vars
    BY <2>10 DEF vars, bootVars, queueVars
  <2> QED BY <2>1, <2>3, <2>4, <2>5, <2>6, <2>7, <2>8, <2>9, <2>10 DEF Next
<1> QED BY <1>1, <1>2, TypeInvariant, PTL DEF Spec

\* No real-time thread, of however many, enters ML unprepared or before the
\* mutex of the work queue is initialised.
THEOREM ThreadsRunPrepared == Spec => []RunsPrepared
<1>1. BootInv => RunsPrepared
  BY DEF BootInv, RunsPrepared, MainBootPlaces
<1> QED BY <1>1, BootInvariant, PTL

-----------------------------------------------------------------------------
\* The places between ML_lock and ML_unlock.
Critical == {"addread", "addwrite", "addunlock", "getread", "getwrite", "getunlock"}

\* ML_lock keeps others out, so what a thread has read of a list is still
\* the list when it writes it back.
QueueInv ==
  /\ \A t \in Threads : pc[t] \in Critical => ML_mutex = t
  /\ \A t \in Threads : pc[t] = "addwrite" => seen[t] = workQ[job[t].pri]
  /\ \A t \in RT : pc[t] = "getwrite" => seen[t] = workQ[t]
  /\ WorkConserved

\* The invariant of the work queue.
THEOREM QueueInvariant == Spec => []QueueInv
<1>1. Init => QueueInv
  <2> SUFFICES ASSUME Init PROVE QueueInv
    OBVIOUS
  <2>1. WorkConserved
    BY ConcatEmptySeq, EmptySeq DEF Init, WorkConserved
  <2>2. \A t \in Threads : pc[t] \in {"create", "absent"}
    BY DEF Init
  <2> QED BY <2>1, <2>2, ThreadFacts DEF QueueInv, Critical
<1>2. TypeInv /\ BootInv /\ QueueInv /\ [Next]_vars => QueueInv'
  <2> SUFFICES ASSUME TypeInv, BootInv, QueueInv, [Next]_vars PROVE QueueInv'
    OBVIOUS
  <2> pc \in [Threads -> MainPlaces \cup RTPlaces]
    BY DEF TypeInv, PlacesInv
  <2> USE ThreadFacts DEF Critical, Goto
  \* A step that leaves the queues alone and enters no critical place.
  <2>0. ASSUME UNCHANGED <<ML_mutex, workQ, seen, added, taken>>,
               \A t \in Threads : pc'[t] \in Critical => pc'[t] = pc[t] /\ job'[t] = job[t]
        PROVE  QueueInv'
    BY <2>0 DEF QueueInv, WorkConserved
  <2>1. CASE InitializeMutexes
    <3>1. \A t \in Threads : pc[t] \notin Critical
      BY <2>1 DEF InitializeMutexes, BootInv, MLPlaces, Threads
    <3>2. pc'[0] = "flag" /\ \A t \in RT : pc'[t] = pc[t]
      BY <2>1 DEF InitializeMutexes
    <3> QED BY <2>1, <3>1, <3>2 DEF InitializeMutexes, Threads, QueueInv, WorkConserved
  <2>2. CASE MainBoot /\ ~InitializeMutexes
    <3>1. UNCHANGED queueVars
      BY <2>2 DEF MainBoot, RealtimeThreadInit, RealtimeThreadWaitForInit, RTInitCopy, RTInitFlag,
         RTInitLock, RTInitBroadcast, RTInitUnlock
    <3>2. \A t \in Threads : pc'[t] = pc[t] \/ pc'[t] \notin Critical
      <4>1. CASE RealtimeThreadInit
        BY <4>1 DEF RealtimeThreadInit
      <4>2. CASE RTInitBroadcast
        BY <4>2 DEF RTInitBroadcast
      <4>3. CASE RealtimeThreadWaitForInit \/ RTInitCopy \/ RTInitFlag \/ RTInitLock \/ RTInitUnlock
        BY <4>3 DEF RealtimeThreadWaitForInit, RTInitCopy, RTInitFlag, RTInitLock, RTInitUnlock
      <4> QED BY <2>2, <4>1, <4>2, <4>3 DEF MainBoot
    <3> QED BY <2>0, <3>1, <3>2 DEF queueVars
  <2>3. ASSUME NEW t \in Threads, NEW from, NEW w, NEW p, Submit(t, from, w, p) PROVE QueueInv'
    <3>1. \A u \in Threads : pc'[u] \in Critical => pc'[u] = pc[u] /\ job'[u] = job[u]
      BY <2>3 DEF Submit, TypeInv, QueueTypeInv
    <3> QED BY <2>0, <2>3, <3>1 DEF Submit
  <2>4. CASE Pspawn \/ \E t \in RT : ThreadMain(t)
    BY <2>3, <2>4 DEF Pspawn, ThreadMain
  <2>5. ASSUME NEW t \in Threads, Runner(t) \/ WorkReturns(t) \/ Halt(t) \/ Done(t) \/ SpuriousWakeup(t)
        PROVE  QueueInv'
    <3>1. UNCHANGED queueVars
      BY <2>5 DEF Runner, RunnerLock, RunnerTest, RunnerSleep, RunnerReacquire, RunnerUnlock, WorkReturns,
         Halt, Done, DoneTest, DoneBlock, DoneFree, SpuriousWakeup
    <3>2. PICK to : to \notin Critical /\ pc' = [pc EXCEPT ![t] = to]
      BY <2>5 DEF Runner, RunnerLock, RunnerTest, RunnerSleep, RunnerReacquire, RunnerUnlock, WorkReturns,
         Halt, Done, DoneTest, DoneBlock, DoneFree, SpuriousWakeup
    <3> QED BY <2>0, <3>1, <3>2 DEF queueVars
  <2>6. ASSUME NEW t \in Threads, QueueStep(t) PROVE QueueInv'
    \* Whoever is in a critical place is the only one.
    <3>0. ASSUME pc[t] \in Critical \/ ML_mutex = NoOne
          PROVE  \A u \in Threads \ {t} : pc[u] \notin Critical
      BY <3>0 DEF QueueInv
    <3>1. CASE MLLock(t)
      <4>1. pc'[t] \in {"addread", "getread"} /\ \A u \in Threads \ {t} : pc'[u] = pc[u]
        BY <3>1 DEF MLLock
      <4> QED BY <3>0, <3>1, <4>1 DEF MLLock, QueueInv, WorkConserved
    <3>2. CASE ReadList(t)
      <4>1. \A u \in Threads \ {t} : pc'[u] = pc[u] /\ pc[u] \notin Critical
        BY <3>0, <3>2 DEF ReadList
      <4>2. ML_mutex = t
        BY <3>2 DEF ReadList, QueueInv
      <4>3. \/ pc'[t] = "addwrite" /\ seen'[t] = workQ[job[t].pri]
            \/ pc'[t] = "getwrite" /\ seen'[t] = workQ[t]
        BY <3>2 DEF ReadList, TypeInv, QueueTypeInv
      <4> QED BY <3>2, <4>1, <4>2, <4>3 DEF ReadList, QueueInv, WorkConserved
    <3>3. CASE AddWork(t)
      <4> DEFINE p == job[t].pri
                 w == job[t].work
      <4>1. /\ p \in RT /\ w \in Work /\ workQ[p] \in Seq(Work) /\ taken[p] \in Seq(Work)
            /\ added \in [RT -> Seq(Work)] /\ workQ \in [RT -> Seq(Work)]
        BY DEF TypeInv, QueueTypeInv
      <4>2. ML_mutex = t /\ seen[t] = workQ[p] /\ added[p] = taken[p] \o workQ[p]
        BY <3>3, <4>1 DEF AddWork, QueueInv, WorkConserved
      <4> HIDE DEF p, w
      <4>3. taken[p] \o Append(workQ[p], w) = Append(added[p], w)
        <5>1. \A q, r \in Seq(Work) : \A v \in Work : r \o Append(q, v) = Append(r \o q, v)
          BY AddedLast
        <5>2. taken[p] \o Append(workQ[p], w) = Append(taken[p] \o workQ[p], w)
          BY <4>1, <5>1, Zenon
        <5> QED BY <4>2, <5>2, Zenon
      <4>4. /\ workQ' = [workQ EXCEPT ![p] = Append(workQ[p], w)]
            /\ added' = [added EXCEPT ![p] = Append(added[p], w)]
            /\ UNCHANGED <<ML_mutex, taken>>
        BY <3>3, <4>2 DEF AddWork, p, w
      <4>5. WorkConserved'
        <5> SUFFICES ASSUME NEW x \in RT PROVE added'[x] = taken'[x] \o workQ'[x]
          BY DEF WorkConserved
        <5>1. CASE x = p
          BY <4>1, <4>3, <4>4, <5>1, Zenon
        <5>2. CASE x # p
          <6>1. added'[x] = added[x] /\ taken'[x] = taken[x] /\ workQ'[x] = workQ[x]
            BY <4>1, <4>4, <5>2
          <6> QED BY <6>1 DEF QueueInv, WorkConserved
        <5> QED BY <5>1, <5>2
      <4>6. pc'[t] = "addunlock" /\ \A u \in Threads \ {t} : pc'[u] = pc[u] /\ pc[u] \notin Critical
        BY <3>0, <3>3 DEF AddWork
      <4> QED BY <4>2, <4>4, <4>5, <4>6 DEF QueueInv
    <3>4. CASE GetWork(t) /\ seen[t] = <<>>
      <4>1. pc'[t] = "getunlock" /\ \A u \in Threads \ {t} : pc'[u] = pc[u] /\ pc[u] \notin Critical
        BY <3>0, <3>4 DEF GetWork
      <4>2. ML_mutex = t
        BY <3>4 DEF GetWork, QueueInv
      <4> QED BY <3>4, <4>1, <4>2 DEF GetWork, QueueInv, WorkConserved
    <3>5. CASE GetWork(t) /\ seen[t] # <<>>
      <4>1. t \in RT
        BY <3>5 DEF GetWork, TypeInv, PlacesInv, MainPlaces, MainBootPlaces, Threads
      <4>2. /\ seen[t] = workQ[t] /\ workQ[t] \in Seq(Work) /\ taken[t] \in Seq(Work)
            /\ added[t] = taken[t] \o workQ[t] /\ ML_mutex = t
            /\ taken \in [RT -> Seq(Work)] /\ workQ \in [RT -> Seq(Work)]
        BY <3>5, <4>1 DEF GetWork, TypeInv, QueueTypeInv, QueueInv, WorkConserved
      <4>3. Append(taken[t], Head(workQ[t])) \o Tail(workQ[t]) = added[t]
        <5>1. workQ[t] # <<>>
          BY <3>5, <4>2
        <5> QED BY <4>2, <5>1, TakenFirst
      <4>4. /\ workQ' = [workQ EXCEPT ![t] = Tail(workQ[t])]
            /\ taken' = [taken EXCEPT ![t] = Append(taken[t], Head(workQ[t]))]
            /\ UNCHANGED <<ML_mutex, added>>
        BY <3>5, <4>2 DEF GetWork
      <4>5. WorkConserved'
        <5> SUFFICES ASSUME NEW x \in RT PROVE added'[x] = taken'[x] \o workQ'[x]
          BY DEF WorkConserved
        <5>1. CASE x = t
          BY <4>2, <4>3, <4>4, <5>1, Zenon
        <5>2. CASE x # t
          <6>1. added'[x] = added[x] /\ taken'[x] = taken[x] /\ workQ'[x] = workQ[x]
            BY <4>2, <4>4, <5>2
          <6> QED BY <6>1 DEF QueueInv, WorkConserved
        <5> QED BY <5>1, <5>2
      <4>6. pc'[t] = "getunlock" /\ \A u \in Threads \ {t} : pc'[u] = pc[u] /\ pc[u] \notin Critical
        BY <3>0, <3>5 DEF GetWork
      <4> QED BY <4>2, <4>4, <4>5, <4>6 DEF QueueInv
    <3>6. CASE MLUnlock(t)
      <4>1. \A u \in Threads : pc'[u] \notin Critical
        BY <3>0, <3>6 DEF MLUnlock
      <4> QED BY <3>6, <4>1 DEF MLUnlock, QueueInv, WorkConserved
    <3> QED BY <2>6, <3>1, <3>2, <3>3, <3>4, <3>5, <3>6 DEF QueueStep
  <2>7. CASE GCStart \/ GCFinish \/ GCBroadcast
    <3>1. UNCHANGED queueVars /\ \A t \in Threads : pc'[t] = pc[t] \/ pc'[t] \notin Critical
      BY <2>7 DEF GCStart, GCFinish, GCBroadcast
    <3> QED BY <2>0, <3>1 DEF queueVars
  <2>8. CASE UNCHANGED vars
    BY <2>0, <2>8 DEF vars, queueVars
  <2> QED BY <2>1, <2>2, <2>4, <2>5, <2>6, <2>7, <2>8 DEF Next
<1> QED BY <1>1, <1>2, TypeInvariant, BootInvariant, PTL DEF Spec

\* Work is neither lost, duplicated nor reordered, whatever the number of
\* threads that add and take it.
THEOREM WorkIsConserved == Spec => []WorkConserved
<1>1. QueueInv => WorkConserved
  BY DEF QueueInv
<1> QED BY <1>1, QueueInvariant, PTL
=============================================================================
