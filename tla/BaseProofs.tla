----------------------------- MODULE BaseProofs -----------------------------
(* Proofs about the parts of base/: the spin lock, the socket pair, the       *)
(* thread pool, the asynchronous log, the chunk queue and the byte order.     *)
EXTENDS BaseParts, WellFoundedInduction, TLAPS

CONSTANTS Widths, Bytes, MaxInts
VARIABLES wire, ints, result
Order == INSTANCE ByteOrder WITH bytes <- wire

-----------------------------------------------------------------------------
(* fast_mutex.  The lock word is 1 exactly while a thread owns the mutex,     *)
(* from the exchange that found 0 to unlock(), and no two do.                 *)
OneOwner == \A t, u \in Threads : Mutex!Owns(t) /\ Mutex!Owns(u) => t = u
Marked   == mLock = 1 <=> \E t \in Threads : Mutex!Owns(t)
MutexInv == Mutex!TypeOK /\ OneOwner /\ Marked

(* No thread owns a new fast_mutex. *)
LEMMA MutexInit == Mutex!Init => MutexInv
  BY DEF Mutex!Init, MutexInv, Mutex!TypeOK, OneOwner, Marked, Mutex!Owns

(* A call of lock() or try_lock() alone changes no owner. *)
LEMMA EnterStep ==
  ASSUME MutexInv, NEW t \in Threads, Mutex!Enter(t)
  PROVE  MutexInv'
<1>1. PICK way \in {"locking", "trying"} : pc' = [pc EXCEPT ![t] = way]
  BY DEF Mutex!Enter
<1>2. Mutex!TypeOK'
  BY <1>1 DEF MutexInv, Mutex!TypeOK, Mutex!Enter
<1>3. \A u \in Threads : Mutex!Owns(u)' <=> Mutex!Owns(u)
  BY <1>1 DEF MutexInv, Mutex!TypeOK, Mutex!Enter, Mutex!Owns
<1>4. QED
  BY <1>2, <1>3 DEF MutexInv, OneOwner, Marked, Mutex!Enter

(* The exchange makes its thread the owner exactly when there was none. *)
LEMMA ExchangeStep ==
  ASSUME MutexInv, NEW t \in Threads, Mutex!Exchange(t)
  PROVE  MutexInv'
<1>1. Mutex!TypeOK'
  BY DEF MutexInv, Mutex!TypeOK, Mutex!Exchange
<1>2. \A u \in Threads \ {t} : Mutex!Owns(u)' <=> Mutex!Owns(u)
  BY DEF MutexInv, Mutex!TypeOK, Mutex!Exchange, Mutex!Owns
<1>3. ~Mutex!Owns(t)
  BY DEF MutexInv, Mutex!TypeOK, Mutex!Exchange, Mutex!Owns
<1>4. Mutex!Owns(t)' <=> mLock = 0
  BY DEF MutexInv, Mutex!TypeOK, Mutex!Exchange, Mutex!Owns
<1>5. mLock' = 1
  BY DEF Mutex!Exchange
<1>6. CASE mLock = 0
  <2>1. \A u \in Threads : ~Mutex!Owns(u)
    BY <1>6 DEF MutexInv, Marked
  <2>2. QED
    BY <1>1, <1>2, <1>4, <1>5, <1>6, <2>1 DEF MutexInv, OneOwner, Marked
<1>7. CASE mLock = 1
  <2>1. \A u \in Threads : Mutex!Owns(u)' <=> Mutex!Owns(u)
    BY <1>2, <1>3, <1>4, <1>7
  <2>2. QED
    BY <1>1, <1>5, <1>7, <2>1 DEF MutexInv, OneOwner, Marked
<1>8. QED
  BY <1>6, <1>7 DEF MutexInv, Mutex!TypeOK

(* The test of what the exchange found changes no owner. *)
LEMMA TestOldStep ==
  ASSUME MutexInv, NEW t \in Threads, Mutex!TestOld(t)
  PROVE  MutexInv'
<1>1. Mutex!TypeOK'
  BY DEF MutexInv, Mutex!TypeOK, Mutex!TestOld
<1>2. \A u \in Threads : Mutex!Owns(u)' <=> Mutex!Owns(u)
  BY DEF MutexInv, Mutex!TypeOK, Mutex!TestOld, Mutex!Owns
<1>3. QED
  BY <1>1, <1>2 DEF MutexInv, OneOwner, Marked, Mutex!TestOld

(* unlock() leaves the mutex without an owner. *)
LEMMA UnlockStep ==
  ASSUME MutexInv, NEW t \in Threads, Mutex!unlock(t)
  PROVE  MutexInv'
<1>1. Mutex!TypeOK'
  BY DEF MutexInv, Mutex!TypeOK, Mutex!unlock
<1>2. \A u \in Threads \ {t} : Mutex!Owns(u)' <=> Mutex!Owns(u)
  BY DEF MutexInv, Mutex!TypeOK, Mutex!unlock, Mutex!Owns
<1>3. Mutex!Owns(t) /\ ~Mutex!Owns(t)' /\ mLock' = 0
  BY DEF MutexInv, Mutex!TypeOK, Mutex!unlock, Mutex!Owns
<1>4. \A u \in Threads : ~Mutex!Owns(u)'
  BY <1>2, <1>3 DEF MutexInv, OneOwner
<1>5. QED
  BY <1>1, <1>3, <1>4 DEF MutexInv, OneOwner, Marked

(* MutexInv holds in every state of every behaviour. *)
LEMMA MutexAlways == Mutex!Spec => []MutexInv
<1>1. MutexInv /\ UNCHANGED mutexVars => MutexInv'
  BY DEF MutexInv, Mutex!TypeOK, OneOwner, Marked, Mutex!Owns, mutexVars
<1>2. MutexInv /\ [Mutex!Next]_mutexVars => MutexInv'
  BY <1>1, EnterStep, ExchangeStep, TestOldStep, UnlockStep DEF Mutex!Next
<1>3. QED
  BY MutexInit, <1>2, PTL DEF Mutex!Spec, Mutex!vars, mutexVars

(* fast_mutex (fast_mutex.h: lock(), try_lock(), unlock()): at most one       *)
(* thread is between lock() and unlock(), and the lock word is never left at  *)
(* 1 by a thread that does not own it, for any set of threads.                *)
THEOREM Exclusion == Mutex!Spec => []MutualExclusion
<1>1. MutexInv => MutualExclusion
  BY DEF MutexInv, OneOwner, Marked, MutualExclusion, Mutex!MutualExclusion, Mutex!Owns
<1>2. QED
  BY MutexAlways, <1>1, PTL

-----------------------------------------------------------------------------
(* socketpair().  The sockets that are open after each of its system calls.   *)
PairInv ==
    \/ step \in {"idle", "failed"} /\ open = {}
    \/ step \in {"socket", "listen"} /\ open = {"tcp"}
    \/ step = "connect" /\ open = {"tcp", "tcp1"}
    \/ step = "accept" /\ open = {"tcp", "tcp1", "tcp2"}
    \/ step = "returned" /\ open = {"tcp1", "tcp2"}

(* Each system call opens its socket, or everything is closed.                *)
LEMMA PairStep == PairInv /\ [Pair!Next]_pairVars => PairInv'
<1> SUFFICES ASSUME PairInv, [Pair!Next]_pairVars PROVE PairInv'
  OBVIOUS
<1>1. CASE Pair!CreateListener
  BY <1>1 DEF PairInv, Pair!CreateListener, Pair!Clean
<1>2. CASE Pair!Listen
  BY <1>2 DEF PairInv, Pair!Listen, Pair!Clean
<1>3. CASE Pair!ConnectPair
  BY <1>3 DEF PairInv, Pair!ConnectPair, Pair!Clean
<1>4. CASE Pair!AcceptPair
  BY <1>4 DEF PairInv, Pair!AcceptPair, Pair!Clean
<1>5. CASE Pair!ReturnPair
  BY <1>5 DEF PairInv, Pair!ReturnPair, Pair!Clean
<1>6. CASE Pair!Stranger
  BY <1>6 DEF PairInv, Pair!Stranger
<1>7. CASE Pair!CallAgain
  BY <1>7 DEF PairInv, Pair!CallAgain
<1>8. CASE UNCHANGED pairVars
  BY <1>8 DEF PairInv, pairVars
<1> QED
  BY <1>1, <1>2, <1>3, <1>4, <1>5, <1>6, <1>7, <1>8 DEF Pair!Next

(* socketpair() (sockettool.cpp): whichever of its calls fails, no socket     *)
(* stays open; when none does, exactly the two of the pair are.               *)
THEOREM NoSocketLeaks == Pair!Spec => []PairClean
<1>1. Pair!Init => PairInv
  BY DEF Pair!Init, PairInv
<1>2. PairInv => PairClean
  BY DEF PairInv, PairClean, Pair!PairClean
<1> QED
  BY <1>1, <1>2, PairStep, PTL DEF Pair!Spec, Pair!vars, pairVars

-----------------------------------------------------------------------------
(* ThreadPool.  A task is <<producer, number of its run() call>>.             *)
Task == Producers \X Nat

PoolType ==
    /\ queue \in Seq(Task) /\ executed \in Seq(Task)
    /\ calls \in [Producers -> Nat]
    /\ producer \in [Producers -> {"idle", "entering", "waiting"}]

(* Of two tasks of a thread in s the first is the older one.                  *)
ByAge(s) ==
    \A i, j \in 1..Len(s) : i < j /\ s[i][1] = s[j][1] => s[i][2] < s[j][2]

(* A task in s has begun; where its thread is inside run(), it is not the one *)
(* that this call will queue.                                                 *)
Begun(s) ==
    \A i \in 1..Len(s) :
      /\ s[i][2] <= calls[s[i][1]]
      /\ producer[s[i][1]] # "idle" => s[i][2] < calls[s[i][1]]

(* What was taken is older than what is queued.                               *)
TakenFirst ==
    \A i \in 1..Len(executed), j \in 1..Len(queue) :
      executed[i][1] = queue[j][1] => executed[i][2] < queue[j][2]

PoolInv ==
    /\ PoolType
    /\ ByAge(executed) /\ ByAge(queue) /\ TakenFirst
    /\ Begun(executed) /\ Begun(queue)

(* A notified thread is still inside its call.                                *)
LEMMA NotifiedProducer ==
  ASSUME PoolType, NEW g \in Pool!Notify(producer, "entering")
  PROVE  /\ g \in [Producers -> {"idle", "entering", "waiting"}]
         /\ \A p \in Producers : g[p] # "idle" <=> producer[p] # "idle"
  BY DEF PoolType, Pool!Notify

(* An element more at the end of a sequence, and one less at its beginning.   *)
LEMMA TaskQueue ==
  ASSUME NEW s \in Seq(Task), NEW t \in Task
  PROVE  /\ Append(s, t) \in Seq(Task) /\ Len(Append(s, t)) = Len(s) + 1
         /\ \A i \in 1..Len(s) : Append(s, t)[i] = s[i]
         /\ Append(s, t)[Len(s) + 1] = t
         /\ s # <<>> => /\ Head(s) \in Task /\ Head(s) = s[1]
                        /\ Tail(s) \in Seq(Task) /\ Len(Tail(s)) = Len(s) - 1
                        /\ Len(s) > 0
                        /\ \A i \in 1..Len(Tail(s)) : Tail(s)[i] = s[i + 1]
  OBVIOUS

(* Nobody has called run().                                                   *)
LEMMA PoolInit == Pool!Init => PoolInv
  BY DEF Pool!Init, PoolInv, PoolType, ByAge, TakenFirst, Begun, Task

(* run() begins: the task it will queue has the next number.                  *)
LEMMA BeginRunStep ==
  ASSUME PoolInv, NEW p \in Producers, Pool!BeginRun(p)
  PROVE  PoolInv'
<1>1. PoolType'
  BY DEF PoolInv, PoolType, Pool!BeginRun
<1>2. ASSUME NEW s \in Seq(Task), Begun(s)
      PROVE  \A i \in 1..Len(s) :
               /\ s[i][2] <= calls'[s[i][1]]
               /\ producer'[s[i][1]] # "idle" => s[i][2] < calls'[s[i][1]]
  <2> TAKE i \in 1..Len(s)
  <2>1. s[i] \in Task
    OBVIOUS
  <2>2. s[i][1] \in Producers /\ s[i][2] \in Nat
    BY <2>1 DEF Task
  <2>3. s[i][2] <= calls[s[i][1]] /\ (producer[s[i][1]] # "idle" => s[i][2] < calls[s[i][1]])
    BY <1>2 DEF Begun
  <2>4. calls[s[i][1]] \in Nat
    BY <2>2 DEF PoolInv, PoolType
  <2> QED
    BY <2>2, <2>3, <2>4 DEF PoolInv, PoolType, Pool!BeginRun
<1>3. Begun(executed)' /\ Begun(queue)'
  BY <1>2 DEF PoolInv, PoolType, Begun, Pool!BeginRun
<1> QED
  BY <1>1, <1>3 DEF PoolInv, ByAge, TakenFirst, Pool!BeginRun

(* run() queues its task behind the older ones, or waits for room.            *)
LEMMA RunStep ==
  ASSUME PoolInv, NEW p \in Producers, Pool!Run(p)
  PROVE  PoolInv'
<1> DEFINE t == <<p, calls[p]>>
<1>1. t \in Task /\ producer[p] = "entering" /\ calls[p] \in Nat
  BY DEF PoolInv, PoolType, Task, Pool!Run
<1>2. CASE Pool!isFull
  <2>1. /\ producer' = [producer EXCEPT ![p] = "waiting"]
        /\ UNCHANGED <<queue, calls, executed>>
    BY <1>2 DEF Pool!Run
  <2>2. PoolType' /\ \A q \in Producers : producer'[q] # "idle" <=> producer[q] # "idle"
    BY <1>1, <2>1 DEF PoolInv, PoolType
  <2>3. /\ \A i \in 1..Len(executed) : executed[i][1] \in Producers
        /\ \A i \in 1..Len(queue) : queue[i][1] \in Producers
    BY DEF PoolInv, PoolType, Task
  <2>4. Begun(executed)' /\ Begun(queue)'
    BY <2>1, <2>2, <2>3 DEF PoolInv, Begun
  <2> QED
    BY <2>1, <2>2, <2>4 DEF PoolInv, ByAge, TakenFirst
<1>3. CASE ~Pool!isFull
  <2>1. /\ queue' = Append(queue, t) /\ producer' = [producer EXCEPT ![p] = "idle"]
        /\ UNCHANGED <<calls, executed>>
    BY <1>3 DEF Pool!Run
  <2>2. queue \in Seq(Task) /\ executed \in Seq(Task)
    BY DEF PoolInv, PoolType
  <2>3. /\ Len(queue') = Len(queue) + 1 /\ queue' \in Seq(Task) /\ Len(queue) \in Nat
        /\ \A i \in 1..Len(queue) : queue'[i] = queue[i]
        /\ queue'[Len(queue) + 1] = t
    BY <1>1, <2>1, <2>2, TaskQueue
  <2>4. PoolType'
    BY <2>1, <2>3 DEF PoolInv, PoolType
  <2>5. \A i \in 1..Len(queue) : queue[i][1] = p => queue[i][2] < calls[p]
    BY <1>1 DEF PoolInv, Begun
  <2>6. \A i \in 1..Len(executed) : executed[i][1] = p => executed[i][2] < calls[p]
    BY <1>1 DEF PoolInv, Begun
  <2>7. ByAge(queue)'
    BY <2>3, <2>5 DEF PoolInv, ByAge
  <2>8. TakenFirst'
    BY <2>1, <2>3, <2>6 DEF PoolInv, TakenFirst
  <2>9. \A i \in 1..Len(executed) : executed[i][1] \in Producers
    BY <2>2 DEF Task
  <2>10. Begun(executed)'
    BY <2>1, <2>9 DEF PoolInv, PoolType, Begun
  <2>11. \A i \in 1..Len(queue) : queue[i][1] \in Producers
    BY <2>2 DEF Task
  <2>12. Begun(queue)'
    BY <1>1, <2>1, <2>3, <2>11 DEF PoolInv, PoolType, Begun
  <2> QED
    BY <2>1, <2>4, <2>7, <2>8, <2>10, <2>12 DEF PoolInv, ByAge
<1> QED
  BY <1>2, <1>3

(* take(): the oldest task of the queue is the youngest that was taken.       *)
LEMMA TakeStep ==
  ASSUME PoolInv, NEW w \in Workers, Pool!Take(w)
  PROVE  PoolInv'
<1>1. CASE queue = <<>>
  BY <1>1 DEF PoolInv, PoolType, Begun, ByAge, TakenFirst, Pool!Take
<1>2. CASE queue # <<>>
  <2>1. /\ queue' = Tail(queue) /\ executed' = Append(executed, Head(queue))
        /\ producer' \in Pool!Notify(producer, "entering") /\ UNCHANGED calls
    BY <1>2 DEF Pool!Take
  <2>2. queue \in Seq(Task) /\ executed \in Seq(Task) /\ PoolType
    BY DEF PoolInv, PoolType
  <2>3. /\ Head(queue) \in Task /\ Head(queue) = queue[1] /\ Len(queue) > 0 /\ Len(queue) \in Nat
        /\ queue' \in Seq(Task) /\ Len(queue') = Len(queue) - 1
        /\ \A i \in 1..Len(queue') : queue'[i] = queue[i + 1]
    BY <1>2, <2>1, <2>2, TaskQueue
  <2>4. /\ executed' \in Seq(Task) /\ Len(executed') = Len(executed) + 1 /\ Len(executed) \in Nat
        /\ \A i \in 1..Len(executed) : executed'[i] = executed[i]
        /\ executed'[Len(executed) + 1] = queue[1]
    BY <2>1, <2>2, <2>3, TaskQueue
  <2>5. /\ producer' \in [Producers -> {"idle", "entering", "waiting"}]
        /\ \A p \in Producers : producer'[p] # "idle" <=> producer[p] # "idle"
    BY <2>1, <2>2, NotifiedProducer
  <2>6. PoolType'
    BY <2>1, <2>3, <2>4, <2>5 DEF PoolInv, PoolType
  <2> ByAge(queue) /\ ByAge(executed) /\ TakenFirst /\ Begun(queue) /\ Begun(executed)
    BY DEF PoolInv
  <2>0. \A i \in 1..Len(queue') : i + 1 \in 1..Len(queue) /\ 1 < i + 1
    BY <2>3
  <2>7. ByAge(queue)'
    <3> SUFFICES ASSUME NEW i \in 1..Len(queue'), NEW j \in 1..Len(queue'),
                        i < j, queue'[i][1] = queue'[j][1]
                 PROVE  queue'[i][2] < queue'[j][2]
      BY DEF ByAge
    <3>1. i + 1 < j + 1 /\ queue'[i] = queue[i + 1] /\ queue'[j] = queue[j + 1]
      BY <2>3
    <3> QED
      BY <2>0, <3>1 DEF ByAge
  <2>8. ByAge(executed)'
    <3> SUFFICES ASSUME NEW i \in 1..Len(executed'), NEW j \in 1..Len(executed'),
                        i < j, executed'[i][1] = executed'[j][1]
                 PROVE  executed'[i][2] < executed'[j][2]
      BY DEF ByAge
    <3>1. i \in 1..Len(executed) /\ executed'[i] = executed[i] /\ 1 \in 1..Len(queue)
      BY <2>3, <2>4
    <3>2. CASE j = Len(executed) + 1
      BY <2>4, <3>1, <3>2 DEF TakenFirst
    <3>3. CASE j # Len(executed) + 1
      <4>1. j \in 1..Len(executed) /\ executed'[j] = executed[j]
        BY <2>4, <3>3
      <4> QED
        BY <3>1, <4>1 DEF ByAge
    <3> QED
      BY <3>2, <3>3
  <2>9. TakenFirst'
    <3> SUFFICES ASSUME NEW i \in 1..Len(executed'), NEW j \in 1..Len(queue'),
                        executed'[i][1] = queue'[j][1]
                 PROVE  executed'[i][2] < queue'[j][2]
      BY DEF TakenFirst
    <3>1. queue'[j] = queue[j + 1] /\ j + 1 \in 1..Len(queue) /\ 1 < j + 1 /\ 1 \in 1..Len(queue)
      BY <2>0, <2>3
    <3>2. CASE i = Len(executed) + 1
      BY <2>4, <3>1, <3>2 DEF ByAge
    <3>3. CASE i # Len(executed) + 1
      BY <2>4, <3>1, <3>3 DEF TakenFirst
    <3> QED
      BY <3>2, <3>3
  <2>10. /\ \A i \in 1..Len(executed) : executed[i][1] \in Producers
         /\ \A i \in 1..Len(queue) : queue[i][1] \in Producers
    BY <2>2 DEF Task
  <2>11. Begun(executed)'
    <3> SUFFICES ASSUME NEW i \in 1..Len(executed')
                 PROVE  /\ executed'[i][2] <= calls'[executed'[i][1]]
                        /\ producer'[executed'[i][1]] # "idle" =>
                             executed'[i][2] < calls'[executed'[i][1]]
      BY DEF Begun
    <3>1. CASE i = Len(executed) + 1
      <4>1. executed'[i] = queue[1] /\ 1 \in 1..Len(queue) /\ calls' = calls
        BY <2>1, <2>3, <2>4, <3>1
      <4> QED
        BY <2>5, <2>10, <4>1 DEF Begun
    <3>2. CASE i # Len(executed) + 1
      <4>1. executed'[i] = executed[i] /\ i \in 1..Len(executed) /\ calls' = calls
        BY <2>1, <2>4, <3>2
      <4> QED
        BY <2>5, <2>10, <4>1 DEF Begun
    <3> QED
      BY <3>1, <3>2
  <2>12. Begun(queue)'
    <3> SUFFICES ASSUME NEW i \in 1..Len(queue')
                 PROVE  /\ queue'[i][2] <= calls'[queue'[i][1]]
                        /\ producer'[queue'[i][1]] # "idle" => queue'[i][2] < calls'[queue'[i][1]]
      BY DEF Begun
    <3>1. queue'[i] = queue[i + 1] /\ i + 1 \in 1..Len(queue) /\ calls' = calls
      BY <2>0, <2>1, <2>3
    <3>2. queue[i + 1][1] \in Producers
      BY <2>10, <3>1
    <3> QED
      BY <2>5, <3>1, <3>2 DEF Begun
  <2> QED
    BY <2>6, <2>7, <2>8, <2>9, <2>11, <2>12 DEF PoolInv
<1> QED
  BY <1>1, <1>2

(* Nothing else touches a task.                                               *)
LEMMA PoolStep == PoolInv /\ [Pool!Next]_poolVars => PoolInv'
<1> SUFFICES ASSUME PoolInv, [Pool!Next]_poolVars PROVE PoolInv'
  OBVIOUS
<1> USE DEF PoolInv, PoolType, Begun, ByAge, TakenFirst
<1>1. ASSUME NEW w \in Workers, Pool!TestRunning(w) PROVE PoolInv'
  BY <1>1 DEF Pool!TestRunning
<1>2. ASSUME NEW w \in Workers, Pool!TaskDone(w) PROVE PoolInv'
  BY <1>2 DEF Pool!TaskDone
<1>3. CASE Pool!Spurious
  <2>1. CASE UNCHANGED producer
    BY <1>3, <2>1 DEF Pool!Spurious
  <2>2. CASE \E p \in Producers : /\ producer[p] = "waiting"
                                  /\ producer' = [producer EXCEPT ![p] = "entering"]
    BY <1>3, <2>2 DEF Pool!Spurious, Task
  <2> QED
    BY <1>3, <2>1, <2>2 DEF Pool!Spurious
<1>4. CASE Pool!Stop
  BY <1>4 DEF Pool!Stop
<1>5. CASE Pool!Join
  BY <1>5 DEF Pool!Join
<1>6. CASE UNCHANGED poolVars
  BY <1>6 DEF poolVars
<1> HIDE DEF PoolInv, PoolType, Begun, ByAge, TakenFirst
<1> QED
  <2>1. ASSUME NEW p \in Producers, Pool!BeginRun(p) PROVE PoolInv'
    BY ONLY PoolInv, <2>1, BeginRunStep
  <2>2. ASSUME NEW p \in Producers, Pool!Run(p) PROVE PoolInv'
    BY ONLY PoolInv, <2>2, RunStep
  <2>3. ASSUME NEW w \in Workers, Pool!Take(w) PROVE PoolInv'
    BY ONLY PoolInv, <2>3, TakeStep
  <2> QED
    BY <1>1, <1>2, <1>3, <1>4, <1>5, <1>6, <2>1, <2>2, <2>3 DEF Pool!Next, Pool!WorkerStep

(* ThreadPool (ThreadPool.cpp: run(), take()): the tasks of a thread are      *)
(* taken once and in the order of its run() calls, for any number of threads, *)
(* workers and places in the queue.                                           *)
THEOREM TasksInOrder == Pool!Spec => []TakenInOrder
<1>1. PoolInv => TakenInOrder
  <2>1. ASSUME PoolType PROVE DOMAIN executed = 1..Len(executed)
    BY <2>1 DEF PoolType
  <2> QED
    BY <2>1 DEF PoolInv, ByAge, TakenInOrder, Pool!TakenInOrder
<1> QED
  BY <1>1, PoolInit, PoolStep, PTL DEF Pool!Spec, Pool!vars, poolVars

(* What NobodyStuck rests on: it is inductive as it stands.                   *)
StuckInv ==
    /\ NobodyStuck /\ queue \in Seq(Task)
    /\ worker \in [Workers -> {"testing", "taking", "waiting", "working", "returned"}]
    /\ producer \in [Producers -> {"idle", "entering", "waiting"}]
    /\ calls \in [Producers -> Nat]

(* notify() leaves a thread awake, unless there is none at all.               *)
LEMMA NotifyWakes ==
  ASSUME NEW T, NEW f, DOMAIN f = T, NEW back, back # "waiting", NEW g \in Pool!Notify(f, back)
  PROVE  /\ DOMAIN g = T /\ \A t \in T : g[t] = f[t] \/ g[t] = back
         /\ (\E t \in T : f[t] = "waiting") => \E t \in T : g[t] = back
  BY DEF Pool!Notify

(* run() waits behind a full queue, or leaves a task and wakes a pool thread. *)
LEMMA RunAwake ==
  ASSUME StuckInv, NEW p \in Producers, Pool!Run(p)
  PROVE  StuckInv'
<1> USE BasePartsAssumption
<1>1. running' = running /\ calls' = calls
  BY DEF Pool!Run
<1>2. CASE Pool!isFull
  <2>1. UNCHANGED <<queue, worker>> /\ producer' = [producer EXCEPT ![p] = "waiting"]
    BY <1>2 DEF Pool!Run
  <2>2. queue # <<>>
    BY <1>2 DEF Pool!isFull
  <2> QED
    BY <1>1, <2>1, <2>2 DEF StuckInv, NobodyStuck, Pool!NobodyStuck
<1>3. CASE ~Pool!isFull
  <2>1. /\ queue' = Append(queue, <<p, calls[p]>>) /\ worker' \in Pool!Notify(worker, "taking")
        /\ producer' = [producer EXCEPT ![p] = "idle"]
    BY <1>3 DEF Pool!Run
  <2>2. queue' \in Seq(Task) /\ queue' # <<>>
    BY <2>1 DEF StuckInv, Task
  <2>3. DOMAIN worker = Workers
    BY DEF StuckInv
  <2>4. /\ DOMAIN worker' = Workers /\ \A w \in Workers : worker'[w] = worker[w] \/ worker'[w] = "taking"
        /\ (\E w \in Workers : worker[w] = "waiting") => \E w \in Workers : worker'[w] = "taking"
    BY <2>1, <2>3, NotifyWakes
  <2>5. worker' \in [Workers -> {"testing", "taking", "waiting", "working", "returned"}]
    BY <2>1, <2>4 DEF StuckInv, Pool!Notify
  <2>6. \E w \in Workers : worker'[w] # "waiting"
    BY <2>4
  <2> QED
    BY <1>1, <2>1, <2>2, <2>4, <2>5, <2>6 DEF StuckInv, NobodyStuck, Pool!NobodyStuck
<1> QED
  BY <1>2, <1>3

(* take() waits at an empty queue only, and wakes a thread that waits for     *)
(* room.                                                                      *)
LEMMA TakeAwake ==
  ASSUME StuckInv, NEW w \in Workers, Pool!Take(w)
  PROVE  StuckInv'
<1>1. CASE queue = <<>>
  BY <1>1 DEF StuckInv, NobodyStuck, Pool!NobodyStuck, Pool!Take
<1>2. CASE queue # <<>>
  <2>1. /\ queue' = Tail(queue) /\ worker' = [worker EXCEPT ![w] = "working"]
        /\ producer' \in Pool!Notify(producer, "entering") /\ UNCHANGED <<running, calls>>
    BY <1>2 DEF Pool!Take
  <2>2. DOMAIN producer = Producers /\ queue' \in Seq(Task) /\ worker'[w] = "working"
    BY <1>2, <2>1 DEF StuckInv
  <2>3. /\ DOMAIN producer' = Producers
        /\ \A p \in Producers : producer'[p] = producer[p] \/ producer'[p] = "entering"
        /\ (\E p \in Producers : producer[p] = "waiting") => \E p \in Producers : producer'[p] = "entering"
    BY <2>1, <2>2, NotifyWakes
  <2>4. producer' \in [Producers -> {"idle", "entering", "waiting"}]
    BY <2>1, <2>3 DEF StuckInv, Pool!Notify
  <2>5. worker' \in [Workers -> {"testing", "taking", "waiting", "working", "returned"}]
    BY <2>1 DEF StuckInv
  <2>6. NobodyStuck'
    BY <2>1, <2>2, <2>3 DEF StuckInv, NobodyStuck, Pool!NobodyStuck
  <2> QED
    BY <2>1, <2>2, <2>4, <2>5, <2>6 DEF StuckInv
<1> QED
  BY <1>1, <1>2

(* ThreadPool (ThreadPool.cpp: run(), take(), stop()): with one mutex and two *)
(* condition variables no wakeup is missed, so that the threads never all     *)
(* wait for one another, for any number of them and any bound of the queue.   *)
THEOREM PoolNotStuck == Pool!Spec => []NobodyStuck
<1>1. Pool!Init => StuckInv
  BY DEF Pool!Init, StuckInv, NobodyStuck, Pool!NobodyStuck
<1>2. ASSUME StuckInv, [Pool!Next]_poolVars PROVE StuckInv'
  <2> USE <1>2
  <2>1. ASSUME NEW p \in Producers, Pool!BeginRun(p) PROVE StuckInv'
    BY <2>1 DEF StuckInv, NobodyStuck, Pool!NobodyStuck, Pool!BeginRun
  <2>2. ASSUME NEW w \in Workers, Pool!TestRunning(w) PROVE StuckInv'
    BY <2>2 DEF StuckInv, NobodyStuck, Pool!NobodyStuck, Pool!TestRunning
  <2>3. ASSUME NEW w \in Workers, Pool!TaskDone(w) PROVE StuckInv'
    BY <2>3 DEF StuckInv, NobodyStuck, Pool!NobodyStuck, Pool!TaskDone
  <2>4. CASE Pool!Spurious
    <3>1. ASSUME NEW w \in Workers, worker' = [worker EXCEPT ![w] = "taking"], UNCHANGED producer
          PROVE  StuckInv'
      BY <2>4, <3>1 DEF StuckInv, NobodyStuck, Pool!NobodyStuck, Pool!Spurious
    <3>2. ASSUME NEW p \in Producers, producer' = [producer EXCEPT ![p] = "entering"], UNCHANGED worker
          PROVE  StuckInv'
      BY <2>4, <3>2 DEF StuckInv, NobodyStuck, Pool!NobodyStuck, Pool!Spurious
    <3> QED
      BY <2>4, <3>1, <3>2 DEF Pool!Spurious
  <2>5. CASE Pool!Stop
    BY <2>5, BasePartsAssumption DEF StuckInv, NobodyStuck, Pool!NobodyStuck, Pool!Stop, Pool!NotifyAll
  <2>6. CASE Pool!Join
    BY <2>6 DEF StuckInv, NobodyStuck, Pool!NobodyStuck, Pool!Join
  <2>7. CASE UNCHANGED poolVars
    BY <2>7 DEF StuckInv, NobodyStuck, Pool!NobodyStuck, poolVars
  <2> QED
    BY <2>1, <2>2, <2>3, <2>4, <2>5, <2>6, <2>7, RunAwake, TakeAwake DEF Pool!Next, Pool!WorkerStep
<1>3. StuckInv => NobodyStuck
  BY DEF StuckInv
<1> QED
  BY <1>1, <1>2, <1>3, PTL DEF Pool!Spec, Pool!vars, poolVars

-----------------------------------------------------------------------------
(* yqueue.  Chunks are numbered in the order in which they were linked, and   *)
(* ch[i] is the address of chunk i: lo is the reader's, hi the writer's.      *)
(* Chunk i holds the items from Start(i) + 1 on.                              *)
Start(i) == i * N

QueueType ==
    /\ heap \subseteq Chunk
    /\ values \in [Chunk -> [0..N - 1 -> Nat]]
    /\ prev \in [Chunk -> Chunk \cup {Null}] /\ nxt \in [Chunk -> Chunk \cup {Null}]
    /\ spare \in Chunk \cup {Null} /\ wreg \in Chunk \cup {Null} /\ rreg \in Chunk \cup {Null}
    /\ beginPos \in Nat /\ endPos \in Nat
    /\ pushed \in Nat /\ published \in Nat /\ popped \in Nat

(* Where both sides are.  During a push that needs a chunk, the item pushed   *)
(* is not published, so that the reader stays out of the next chunk.          *)
Positions ==
    /\ \/ wpc = "idle" /\ wreg = Null /\ endPos < N
       \/ wpc = "xchg" /\ wreg = Null /\ endPos = N /\ published < pushed
       \/ wpc = "link" /\ endPos = N /\ published < pushed
    /\ \/ rpc = "idle" /\ rreg = Null /\ beginPos < N
       \/ rpc = "advance" /\ rreg = Null /\ beginPos = N
       \/ rpc = "xchg" /\ beginPos < N
    /\ popped <= published /\ published <= pushed

(* The chunks from begin_chunk to end_chunk are linked in both directions,    *)
(* each once;                                                                 *)
Between(ch, lo, hi) ==
    /\ lo <= hi /\ beginChunk = ch[lo] /\ endChunk = ch[hi]
    /\ \A i, j \in lo..hi : ch[i] = ch[j] => i = j
    /\ \A i \in lo..hi : i < hi => nxt[ch[i]] = ch[i + 1] /\ prev[ch[i + 1]] = ch[i]

(* what is allocated is one of them, spare, or in the hand of one side, and   *)
(* only one of these;                                                         *)
Owned(ch, lo, hi) ==
    /\ \A i \in lo..hi : ch[i] # spare /\ ch[i] # wreg /\ ch[i] # rreg
    /\ spare # Null => spare # wreg /\ spare # rreg
    /\ wreg # Null => wreg # rreg
    /\ \A c \in Chunk :
         c \in heap <=> c = spare \/ c = wreg \/ c = rreg \/ \E i \in lo..hi : c = ch[i]

(* the positions say how many items were popped and pushed, and the items     *)
(* between are in their places.                                               *)
Stored(ch, lo, hi) ==
    /\ popped = Start(lo) + beginPos /\ pushed = Start(hi) + endPos
    /\ \A i \in lo..hi, j \in 0..N - 1 :
         Start(i) + j < pushed => values[ch[i]][j] = Start(i) + j + 1

InUse ==
    /\ Positions
    /\ \E ch \in [Nat -> Chunk], lo, hi \in Nat :
         Between(ch, lo, hi) /\ Owned(ch, lo, hi) /\ Stored(ch, lo, hi)

(* The destructor has freed the chunks before begin_chunk.                    *)
Freeing ==
    /\ wpc = "freeing" /\ rpc = "freeing" /\ wreg = Null /\ rreg = Null
    /\ \E ch \in [Nat -> Chunk], lo, hi \in Nat : Between(ch, lo, hi) /\ Owned(ch, lo, hi)

Freed ==
    \/ wpc = "freed" /\ rpc = "freeing" /\ heap = {spare} \ {Null}
    \/ wpc = "destroyed" /\ rpc = "freeing" /\ heap = {}

QueueInv == QueueType /\ ~queueFault /\ (InUse \/ Freeing \/ Freed)

(* Chunks follow one another without a gap.                                   *)
LEMMA StartAt ==
  /\ Start(0) = 0
  /\ \A i \in Nat : Start(i) \in Nat /\ Start(i + 1) = Start(i) + N
  /\ \A i, j \in Nat : i < j => Start(i) + N <= Start(j)
<1> USE BasePartsAssumption
<1>1. Start(0) = 0 /\ \A i \in Nat : Start(i) \in Nat /\ Start(i + 1) = Start(i) + N
  BY DEF Start
<1>2. ASSUME NEW i \in Nat, NEW j \in Nat, i < j
      PROVE  Start(i) + N <= Start(j)
  <2>1. PICK d \in Nat : j = i + 1 + d
    <3>1. j - i - 1 \in Nat /\ j = i + 1 + (j - i - 1)
      BY <1>2
    <3> QED
      BY <3>1
  <2>2. d * N \in Nat
    OBVIOUS
  <2>3. Start(j) = Start(i) + N + d * N
    BY <2>1 DEF Start
  <2>4. Start(i) \in Nat
    BY DEF Start
  <2> QED
    BY <2>2, <2>3, <2>4
<1> QED
  BY <1>1, <1>2

(* A new queue is one empty chunk.                                            *)
LEMMA QueueInit == Queue!Init => QueueInv
<1> SUFFICES ASSUME Queue!Init PROVE QueueInv
  OBVIOUS
<1> USE BasePartsAssumption
<1>1. Queue!First \in Chunk
  BY DEF Queue!First
<1>2. QueueType /\ Positions
  BY <1>1 DEF Queue!Init, QueueType, Positions
<1> DEFINE ch == [i \in Nat |-> Queue!First]
<1>3. ch \in [Nat -> Chunk] /\ ch[0] = Queue!First
  BY <1>1
<1>4. Between(ch, 0, 0)
  BY <1>3 DEF Queue!Init, Between
<1>5. Owned(ch, 0, 0)
  BY <1>1, <1>3 DEF Queue!Init, Owned
<1>6. Stored(ch, 0, 0)
  <2>1. \A i \in 0..0, j \in 0..N - 1 : ~(Start(i) + j < 0)
    BY StartAt
  <2> QED
    BY <2>1, StartAt DEF Queue!Init, Stored
<1> QED
  BY <1>2, <1>3, <1>4, <1>5, <1>6 DEF QueueInv, InUse, Queue!Init

(* Both sides are at work only while the queue is in use.                     *)
LEMMA AtWork ==
  ASSUME QueueInv, wpc \in {"idle", "xchg", "link"}
                   \/ rpc \in {"idle", "advance", "xchg"}
  PROVE  InUse
  BY DEF QueueInv, Freeing, Freed

(* push() writes into the end chunk, behind the items that are there.         *)
LEMMA PushStep == ASSUME QueueInv, Queue!Push PROVE QueueInv'
<1> USE BasePartsAssumption
<1>1. InUse /\ wpc = "idle" /\ QueueType /\ ~queueFault
  BY AtWork DEF Queue!Push, QueueInv
<1>2. PICK ch \in [Nat -> Chunk], lo \in Nat, hi \in Nat :
         Between(ch, lo, hi) /\ Owned(ch, lo, hi) /\ Stored(ch, lo, hi)
  BY <1>1 DEF InUse
<1>3. endPos \in 0..N - 1 /\ endChunk = ch[hi] /\ lo <= hi /\ hi \in lo..hi
  BY <1>1, <1>2 DEF InUse, Positions, QueueType, Between
<1>4. values' = [values EXCEPT ![endChunk][endPos] = pushed + 1]
  BY DEF Queue!Push, Queue!readerVars
<1>5. QueueType'
  <2>1. endChunk \in Chunk
    BY <1>3
  <2>2. pushed + 1 \in Nat /\ endPos + 1 \in Nat
    BY <1>1 DEF QueueType
  <2>3. values[endChunk] \in [0..N - 1 -> Nat]
    BY <1>1, <2>1 DEF QueueType
  <2>4. [values[endChunk] EXCEPT ![endPos] = pushed + 1] \in [0..N - 1 -> Nat]
    BY <1>3, <2>2, <2>3
  <2>5. values' = [values EXCEPT ![endChunk] = [values[endChunk] EXCEPT ![endPos] = pushed + 1]]
    BY <1>1, <1>4, <2>1 DEF QueueType
  <2>6. values' \in [Chunk -> [0..N - 1 -> Nat]]
    BY <1>1, <2>1, <2>4, <2>5 DEF QueueType
  <2>7. /\ UNCHANGED <<heap, prev, nxt, spare, wreg, rreg, beginPos, published, popped>>
        /\ endPos' = endPos + 1 /\ pushed' = pushed + 1
    BY DEF Queue!Push, Queue!readerVars
  <2> QED
    BY <1>1, <2>2, <2>6, <2>7 DEF QueueType
<1>6. ~queueFault'
  BY <1>1, <1>2, <1>3 DEF Queue!Push, Queue!Dead, Owned
<1>7. Positions'
  BY <1>1, <1>3 DEF Positions, InUse, QueueType, Queue!Push, Queue!readerVars
<1>8. Between(ch, lo, hi)' /\ Owned(ch, lo, hi)'
  BY <1>2 DEF Between, Owned, Queue!Push, Queue!readerVars
<1>9. Stored(ch, lo, hi)'
  <2>1. popped' = Start(lo) + beginPos' /\ pushed' = Start(hi) + endPos' /\ pushed' = pushed + 1
    <3>1. Start(lo) \in Nat /\ Start(hi) \in Nat
      BY StartAt
    <3>2. popped = Start(lo) + beginPos /\ pushed = Start(hi) + endPos
      BY <1>2 DEF Stored
    <3> QED
      BY <1>1, <3>1, <3>2 DEF QueueType, Queue!Push, Queue!readerVars
  <2>2. ASSUME NEW i \in lo..hi, NEW j \in 0..N - 1, Start(i) + j < pushed'
        PROVE  values'[ch[i]][j] = Start(i) + j + 1
    <3>0. pushed = Start(hi) + endPos
      BY <1>2 DEF Stored
    <3> i \in Nat
      OBVIOUS
    <3>1. Start(i) \in Nat /\ Start(hi) \in Nat /\ pushed = Start(hi) + endPos
      BY <3>0, StartAt
    <3>2. CASE i = hi /\ j = endPos
      BY <1>1, <1>3, <1>4, <3>1, <3>2 DEF QueueType
    <3>3. CASE i = hi /\ j # endPos
      <4>1. Start(i) + j < pushed
        BY <1>3, <2>1, <2>2, <3>1, <3>3
      <4>2. values'[ch[i]][j] = values[ch[i]][j]
        BY <1>1, <1>3, <1>4, <3>1, <3>3 DEF QueueType
      <4> QED
        BY <1>2, <4>1, <4>2 DEF Stored
    <3>4. CASE i # hi
      <4>1. ch[i] # ch[hi] /\ i < hi
        BY <1>2, <1>3, <3>4 DEF Between
      <4>2. Start(i) + j < pushed
        BY <1>3, <3>1, <4>1, StartAt
      <4>3. values'[ch[i]] = values[ch[i]]
        BY <1>1, <1>3, <1>4, <3>1, <4>1 DEF QueueType
      <4> QED
        BY <1>2, <4>2, <4>3 DEF Stored
    <3> QED
      BY <3>2, <3>3, <3>4
  <2> QED
    BY <2>1, <2>2 DEF Stored
<1> QED
  BY <1>5, <1>6, <1>7, <1>8, <1>9 DEF QueueInv, InUse

(* The writer takes the spare chunk, if there is one, into its hand.          *)
LEMMA PushXchgStep == ASSUME QueueInv, Queue!PushXchg PROVE QueueInv'
<1>1. InUse /\ wpc = "xchg" /\ QueueType /\ ~queueFault
  BY AtWork DEF Queue!PushXchg, QueueInv
<1>2. PICK ch \in [Nat -> Chunk], lo \in Nat, hi \in Nat :
         Between(ch, lo, hi) /\ Owned(ch, lo, hi) /\ Stored(ch, lo, hi)
  BY <1>1 DEF InUse
<1>3. QueueType' /\ ~queueFault' /\ Positions' /\ wreg = Null
  BY <1>1 DEF QueueType, InUse, Positions, Queue!PushXchg, Queue!readerVars
<1>4. Between(ch, lo, hi)' /\ Stored(ch, lo, hi)'
  BY <1>2 DEF Between, Stored, Queue!PushXchg, Queue!readerVars
<1>5. Owned(ch, lo, hi)'
  <2>1. wreg' = spare /\ spare' = Null /\ rreg' = rreg /\ heap' = heap
    BY DEF Queue!PushXchg, Queue!readerVars
  <2>2. \A i \in lo..hi : ch[i] \in Chunk /\ ch[i] # Null
    BY BasePartsAssumption
  <2> QED
    BY <1>2, <1>3, <2>1, <2>2, BasePartsAssumption DEF Owned
<1> QED
  BY <1>3, <1>4, <1>5 DEF QueueInv, InUse

(* The chunk in the hand, or a new one, becomes the end.                      *)
LEMMA PushLinkStep == ASSUME QueueInv, Queue!PushLink PROVE QueueInv'
<1> USE BasePartsAssumption
<1>1. InUse /\ wpc = "link" /\ QueueType /\ ~queueFault
  BY AtWork DEF Queue!PushLink, QueueInv
<1>2. PICK ch \in [Nat -> Chunk], lo \in Nat, hi \in Nat :
         Between(ch, lo, hi) /\ Owned(ch, lo, hi) /\ Stored(ch, lo, hi)
  BY <1>1 DEF InUse
<1>3. PICK c \in IF wreg = Null THEN Queue!Malloc ELSE {wreg} :
        /\ heap' = heap \cup {c}
        /\ queueFault' = (queueFault \/ Queue!Dead(endChunk) \/ (wreg # Null /\ Queue!Dead(c)))
        /\ nxt' = [nxt EXCEPT ![endChunk] = c]
        /\ prev' = [prev EXCEPT ![c] = endChunk]
        /\ endChunk' = c
  BY DEF Queue!PushLink
<1>4. /\ wpc' = "idle" /\ endPos' = 0 /\ wreg' = Null
      /\ UNCHANGED <<values, spare, pushed, published, beginChunk, beginPos, rpc, rreg, popped>>
  BY DEF Queue!PushLink, Queue!readerVars
<1>5. endPos = N /\ published < pushed /\ endChunk = ch[hi] /\ lo <= hi /\ hi \in lo..hi
      /\ hi + 1 \in Nat /\ ch[hi] \in Chunk
  BY <1>1, <1>2 DEF InUse, Positions, Between
<1>6. c \in Chunk /\ c # spare /\ c # rreg /\ \A i \in lo..hi : ch[i] # c
  <2>1. CASE wreg = Null
    <3>1. c \in Chunk /\ c \notin heap
      BY <1>3, <2>1 DEF Queue!Malloc
    <3> QED
      BY <1>2, <3>1 DEF Owned
  <2>2. CASE wreg # Null
    <3>1. c = wreg /\ c \in Chunk
      BY <1>1, <1>3, <2>2 DEF QueueType
    <3> QED
      BY <1>2, <2>2, <3>1 DEF Owned
  <2> QED
    BY <2>1, <2>2
<1>7. wreg # Null => c = wreg /\ c \in heap
  BY <1>1, <1>2, <1>3 DEF Owned, QueueType
<1>8. ~queueFault'
  BY <1>1, <1>2, <1>3, <1>5, <1>7 DEF Owned, Queue!Dead
<1>9. QueueType'
  BY <1>1, <1>3, <1>4, <1>5, <1>6 DEF QueueType
<1>10. Positions'
  BY <1>1, <1>4 DEF InUse, Positions, QueueType
<1> DEFINE dh == [ch EXCEPT ![hi + 1] = c]
<1>11. /\ dh \in [Nat -> Chunk] /\ dh[hi + 1] = c
       /\ \A i \in lo..hi : dh[i] = ch[i]
       /\ \A i \in lo..hi + 1 : i = hi + 1 \/ i \in lo..hi
       /\ hi + 1 \in lo..hi + 1
  BY <1>5, <1>6
<1> HIDE DEF dh
<1>12. Between(dh, lo, hi + 1)'
  <2>1. lo <= hi + 1 /\ beginChunk' = dh[lo] /\ endChunk' = dh[hi + 1]
    BY <1>2, <1>3, <1>4, <1>5, <1>11 DEF Between
  <2>2. \A i, j \in lo..hi + 1 : dh[i] = dh[j] => i = j
    BY <1>2, <1>6, <1>11 DEF Between
  <2>3. ASSUME NEW i \in lo..hi + 1, i < hi + 1
        PROVE  nxt'[dh[i]] = dh[i + 1] /\ prev'[dh[i + 1]] = dh[i]
    <3>1. CASE i = hi
      BY <1>1, <1>3, <1>5, <1>6, <1>11, <3>1 DEF QueueType
    <3>2. CASE i # hi
      <4>1. i \in lo..hi /\ i + 1 \in lo..hi /\ i < hi
        BY <2>3, <3>2
      <4>2. dh[i] = ch[i] /\ dh[i + 1] = ch[i + 1] /\ ch[i] # ch[hi] /\ ch[i + 1] # c
        BY <1>2, <1>5, <1>6, <1>11, <3>2, <4>1 DEF Between
      <4>3. ch[i] \in Chunk /\ ch[i + 1] \in Chunk
        BY <4>1
      <4>4. nxt'[ch[i]] = nxt[ch[i]] /\ prev'[ch[i + 1]] = prev[ch[i + 1]]
        BY <1>1, <1>3, <1>5, <4>2, <4>3 DEF QueueType
      <4> QED
        BY <1>2, <4>1, <4>2, <4>4 DEF Between
    <3> QED
      BY <3>1, <3>2
  <2> QED
    BY <2>1, <2>2, <2>3 DEF Between
<1>13. Owned(dh, lo, hi + 1)'
  <2>1. \A i \in lo..hi + 1 : dh[i] # spare' /\ dh[i] # wreg' /\ dh[i] # rreg'
    BY <1>2, <1>4, <1>6, <1>11 DEF Owned
  <2>2. ASSUME NEW d \in Chunk
        PROVE  d \in heap' <=> \/ d = spare' \/ d = wreg' \/ d = rreg'
                               \/ \E i \in lo..hi + 1 : d = dh[i]
    <3>1. (\E i \in lo..hi + 1 : d = dh[i]) <=> d = c \/ \E i \in lo..hi : d = ch[i]
      <4>1. \A i \in lo..hi : i \in lo..hi + 1
        BY <1>5
      <4> QED
        BY <1>11, <4>1
    <3>2. d \in heap <=> d = spare \/ d = wreg \/ d = rreg \/ \E i \in lo..hi : d = ch[i]
      BY <1>2 DEF Owned
    <3>3. d \in heap' <=> d \in heap \/ d = c
      BY <1>3
    <3>4. d = wreg => d = c
      BY <1>7
    <3> QED
      BY <1>4, <3>1, <3>2, <3>3, <3>4
  <2> QED
    BY <1>2, <1>4, <2>1, <2>2 DEF Owned
<1>14. Stored(dh, lo, hi + 1)'
  <2>1. popped' = Start(lo) + beginPos' /\ pushed' = Start(hi + 1) + endPos'
    BY <1>2, <1>4, <1>5, StartAt DEF Stored
  <2>2. ASSUME NEW i \in lo..hi + 1, NEW j \in 0..N - 1, Start(i) + j < pushed'
        PROVE  values'[dh[i]][j] = Start(i) + j + 1
    <3>1. i # hi + 1
      BY <1>4, <1>5, <2>1, <2>2, StartAt
    <3> QED
      BY <1>2, <1>4, <1>11, <2>2, <3>1 DEF Stored
  <2> QED
    BY <2>1, <2>2 DEF Stored
<1> QED
  BY <1>5, <1>8, <1>9, <1>10, <1>11, <1>12, <1>13, <1>14 DEF QueueInv, InUse

(* unpush() of an unpublished item: the reader is behind it, so that an end    *)
(* chunk that is given back is not the reader's, nor the one before it.        *)
LEMMA UnpushStep == ASSUME QueueInv, Queue!Unpush PROVE QueueInv'
<1> USE BasePartsAssumption
<1>1. InUse /\ wpc = "idle" /\ pushed > published /\ QueueType /\ ~queueFault
  BY AtWork DEF Queue!Unpush, QueueInv
<1>2. PICK ch \in [Nat -> Chunk], lo \in Nat, hi \in Nat :
         Between(ch, lo, hi) /\ Owned(ch, lo, hi) /\ Stored(ch, lo, hi)
  BY <1>1 DEF InUse
<1>3. /\ pushed' = pushed - 1
      /\ UNCHANGED <<values, prev, spare, wpc, wreg, published, beginChunk, beginPos, rpc, rreg, popped>>
  BY DEF Queue!Unpush, Queue!readerVars
<1>4. /\ endPos < N /\ wreg = Null /\ popped <= published
      /\ endPos \in Nat /\ pushed \in Nat /\ published \in Nat /\ popped \in Nat /\ beginPos \in Nat
  BY <1>1 DEF InUse, Positions, QueueType
<1>5. endChunk = ch[hi] /\ lo <= hi /\ hi \in lo..hi
  BY <1>2 DEF Between
<1>6. popped = Start(lo) + beginPos /\ pushed = Start(hi) + endPos
  BY <1>2 DEF Stored
<1>7. Start(lo) \in Nat /\ Start(hi) \in Nat
  BY StartAt
<1>8. CASE endPos # 0
  <2>1. endPos' = endPos - 1 /\ UNCHANGED <<endChunk, heap, nxt, queueFault>>
    BY <1>8 DEF Queue!Unpush
  <2>2. endPos' \in Nat /\ pushed' \in Nat /\ endPos' < N
    BY <1>1, <1>3, <1>4, <1>8, <2>1
  <2>3. QueueType' /\ ~queueFault'
    BY <1>1, <1>3, <2>1, <2>2 DEF QueueType
  <2>4. Positions'
    BY <1>1, <1>3, <1>4, <2>2 DEF InUse, Positions
  <2>5. Between(ch, lo, hi)' /\ Owned(ch, lo, hi)'
    BY <1>2, <1>3, <2>1 DEF Between, Owned
  <2>6. Stored(ch, lo, hi)'
    <3>1. popped' = Start(lo) + beginPos' /\ pushed' = Start(hi) + endPos'
      BY <1>3, <1>4, <1>6, <1>7, <2>1
    <3>2. ASSUME NEW i \in lo..hi, NEW j \in 0..N - 1, Start(i) + j < pushed'
          PROVE  values'[ch[i]][j] = Start(i) + j + 1
      <4> i \in Nat
        OBVIOUS
      <4>1. Start(i) \in Nat
        BY StartAt
      <4>2. Start(i) + j < pushed
        BY <1>3, <1>4, <3>2, <4>1
      <4> QED
        BY <1>2, <1>3, <4>2 DEF Stored
    <3> QED
      BY <3>1, <3>2 DEF Stored
  <2> QED
    BY <2>3, <2>4, <2>5, <2>6 DEF QueueInv, InUse
<1>9. CASE endPos = 0
  <2> DEFINE p == prev[endChunk]
  <2>1. /\ endPos' = N - 1 /\ endChunk' = p
        /\ queueFault' = (queueFault \/ Queue!Dead(endChunk) \/ p = Null \/ Queue!Dead(p)
                                     \/ nxt[p] # endChunk)
        /\ heap' = heap \ {endChunk}
        /\ nxt' = [nxt EXCEPT ![p] = Null]
    BY <1>9 DEF Queue!Unpush
  <2>2. lo < hi
    <3>1. lo # hi
      BY <1>1, <1>4, <1>6, <1>7, <1>9
    <3> QED
      BY <1>5, <3>1
  <2>3. PICK k \in Nat : hi = k + 1 /\ lo <= k
    <3>1. hi - 1 \in Nat /\ hi = (hi - 1) + 1 /\ lo <= hi - 1
      BY <2>2
    <3> QED
      BY <3>1
  <2>4. k \in lo..hi /\ k < hi /\ k # hi /\ \A i \in lo..k : i \in lo..hi /\ i # hi
    BY <2>3
  <2>5. p = ch[k] /\ nxt[p] = ch[hi] /\ p \in Chunk /\ ch[hi] \in Chunk /\ p # ch[hi]
    BY <1>2, <1>5, <2>3, <2>4 DEF Between
  <2>6. p \in heap /\ endChunk \in heap
    BY <1>2, <1>5, <2>4, <2>5 DEF Owned
  <2>7. ~queueFault'
    BY <1>1, <1>5, <2>1, <2>5, <2>6 DEF Queue!Dead
  <2>8. nxt' \in [Chunk -> Chunk \cup {Null}]
    BY <1>1, <2>1, <2>5 DEF QueueType
  <2>9. endPos' \in Nat /\ endPos' < N /\ pushed' \in Nat
    BY <1>1, <1>3, <1>4, <2>1
  <2>10. QueueType'
    BY <1>1, <1>3, <2>1, <2>8, <2>9 DEF QueueType
  <2>11. Positions'
    BY <1>1, <1>3, <1>4, <2>9 DEF InUse, Positions
  <2>12. Between(ch, lo, k)'
    <3>1. beginChunk' = ch[lo] /\ endChunk' = ch[k]
      BY <1>2, <1>3, <2>1, <2>5 DEF Between
    <3>2. \A i, j \in lo..k : ch[i] = ch[j] => i = j
      BY <1>2, <2>4 DEF Between
    <3>3. ASSUME NEW i \in lo..k, i < k
          PROVE  nxt'[ch[i]] = ch[i + 1] /\ prev'[ch[i + 1]] = ch[i]
      <4>1. i \in lo..hi /\ i < hi /\ ch[i] \in Chunk /\ i # k
        BY <2>4, <3>3
      <4>2. ch[i] # p
        BY <1>2, <2>4, <2>5, <4>1 DEF Between
      <4>3. nxt'[ch[i]] = nxt[ch[i]]
        BY <1>1, <2>1, <2>5, <4>1, <4>2 DEF QueueType
      <4> QED
        BY <1>2, <1>3, <4>1, <4>3 DEF Between
    <3> QED
      BY <2>3, <3>1, <3>2, <3>3 DEF Between
  <2>13. Owned(ch, lo, k)'
    <3>1. ASSUME NEW d \in Chunk
          PROVE  d \in heap' <=> \/ d = spare' \/ d = wreg' \/ d = rreg'
                                 \/ \E i \in lo..k : d = ch[i]
      <4>1. d \in heap <=> d = spare \/ d = wreg \/ d = rreg \/ \E i \in lo..hi : d = ch[i]
        BY <1>2 DEF Owned
      <4>2. ch[hi] # spare /\ ch[hi] # wreg /\ ch[hi] # rreg
        BY <1>2, <1>5 DEF Owned
      <4>3. (\E i \in lo..k : d = ch[i]) <=> (\E i \in lo..hi : d = ch[i]) /\ d # ch[hi]
        <5>1. \A i \in lo..hi : i = hi \/ i \in lo..k
          BY <2>3
        <5>2. \A i \in lo..k : ch[i] # ch[hi]
          BY <1>2, <1>5, <2>4 DEF Between
        <5> QED
          BY <2>4, <5>1, <5>2
      <4> QED
        BY <1>3, <1>5, <2>1, <4>1, <4>2, <4>3
    <3> QED
      BY <1>2, <1>3, <2>4, <3>1 DEF Owned
  <2>14. Stored(ch, lo, k)'
    <3>1. Start(k) \in Nat /\ Start(hi) = Start(k) + N
      BY <2>3, StartAt
    <3>2. popped' = Start(lo) + beginPos' /\ pushed' = Start(k) + endPos'
      BY <1>3, <1>4, <1>6, <1>7, <1>9, <2>1, <3>1
    <3>3. ASSUME NEW i \in lo..k, NEW j \in 0..N - 1, Start(i) + j < pushed'
          PROVE  values'[ch[i]][j] = Start(i) + j + 1
      <4> i \in Nat
        OBVIOUS
      <4>1. Start(i) \in Nat
        BY StartAt
      <4>2. Start(i) + j < pushed
        BY <1>3, <1>4, <3>3, <4>1
      <4> QED
        BY <1>2, <1>3, <2>4, <4>2 DEF Stored
    <3> QED
      BY <3>2, <3>3 DEF Stored
  <2> QED
    BY <2>7, <2>10, <2>11, <2>12, <2>13, <2>14 DEF QueueInv, InUse
<1> QED
  BY <1>8, <1>9

(* Publishing moves no item.                                                  *)
LEMMA PublishStep == ASSUME QueueInv, Queue!Publish PROVE QueueInv'
<1>1. InUse /\ wpc = "idle" /\ QueueType /\ ~queueFault
  BY AtWork DEF Queue!Publish, QueueInv
<1>2. PICK ch \in [Nat -> Chunk], lo \in Nat, hi \in Nat :
         Between(ch, lo, hi) /\ Owned(ch, lo, hi) /\ Stored(ch, lo, hi)
  BY <1>1 DEF InUse
<1>3. /\ published' = pushed
      /\ UNCHANGED <<heap, values, prev, nxt, spare, endChunk, endPos, wpc, wreg, pushed,
                     beginChunk, beginPos, rpc, rreg, popped, queueFault>>
  BY DEF Queue!Publish, Queue!readerVars
<1>4. QueueType' /\ Positions'
  BY <1>1, <1>3 DEF QueueType, InUse, Positions
<1>5. Between(ch, lo, hi)' /\ Owned(ch, lo, hi)' /\ Stored(ch, lo, hi)'
  BY <1>2, <1>3 DEF Between, Owned, Stored
<1> QED
  BY <1>1, <1>3, <1>4, <1>5 DEF QueueInv, InUse

(* front() and pop() find the next item at the beginning.                     *)
LEMMA PopStep == ASSUME QueueInv, Queue!Pop PROVE QueueInv'
<1> USE BasePartsAssumption
<1>1. InUse /\ rpc = "idle" /\ popped < published /\ QueueType /\ ~queueFault
  BY AtWork DEF Queue!Pop, QueueInv
<1>2. PICK ch \in [Nat -> Chunk], lo \in Nat, hi \in Nat :
         Between(ch, lo, hi) /\ Owned(ch, lo, hi) /\ Stored(ch, lo, hi)
  BY <1>1 DEF InUse
<1>3. /\ popped' = popped + 1 /\ beginPos' = beginPos + 1
      /\ rpc' = IF beginPos + 1 = N THEN "advance" ELSE "idle"
      /\ queueFault' = (queueFault \/ Queue!Dead(beginChunk)
                                   \/ values[beginChunk][beginPos] # popped + 1)
      /\ UNCHANGED <<heap, values, prev, nxt, spare, beginChunk, rreg,
                     endChunk, endPos, wpc, wreg, pushed, published>>
  BY DEF Queue!Pop, Queue!writerVars
<1>4. beginPos < N /\ rreg = Null /\ published <= pushed /\ beginPos \in 0..N - 1
      /\ popped \in Nat /\ pushed \in Nat /\ published \in Nat
  BY <1>1 DEF InUse, Positions, QueueType
<1>5. popped = Start(lo) + beginPos /\ pushed = Start(hi) + endPos
  BY <1>2 DEF Stored
<1>6. Start(lo) \in Nat
  BY StartAt
<1>7. lo \in lo..hi /\ beginChunk = ch[lo]
  BY <1>2 DEF Between
<1>8. Start(lo) + beginPos < pushed
  BY <1>1, <1>4, <1>5, <1>6
<1>9. values[beginChunk][beginPos] = popped + 1
  BY <1>2, <1>4, <1>5, <1>7, <1>8 DEF Stored
<1>10. beginChunk \in heap
  BY <1>2, <1>7 DEF Owned
<1>11. ~queueFault'
  BY <1>1, <1>3, <1>9, <1>10 DEF Queue!Dead
<1>12. popped' \in Nat /\ beginPos' \in Nat /\ popped' <= published /\ beginPos' <= N
  BY <1>1, <1>3, <1>4
<1>13. QueueType'
  BY <1>1, <1>3, <1>12 DEF QueueType
<1>14. Positions'
  BY <1>1, <1>3, <1>4, <1>12 DEF InUse, Positions
<1>15. Between(ch, lo, hi)' /\ Owned(ch, lo, hi)'
  BY <1>2, <1>3 DEF Between, Owned
<1>16. popped' = Start(lo) + beginPos'
  BY <1>3, <1>4, <1>5, <1>6
<1>17. Stored(ch, lo, hi)'
  BY <1>2, <1>3, <1>16 DEF Stored
<1> QED
  BY <1>11, <1>13, <1>14, <1>15, <1>17 DEF QueueInv, InUse

(* The reader leaves a chunk whose items were all popped: as the writer has    *)
(* published the last of them, there is a next one.                           *)
LEMMA PopAdvanceStep == ASSUME QueueInv, Queue!PopAdvance PROVE QueueInv'
<1> USE BasePartsAssumption
<1>1. InUse /\ rpc = "advance" /\ QueueType /\ ~queueFault
  BY AtWork DEF Queue!PopAdvance, QueueInv
<1>2. PICK ch \in [Nat -> Chunk], lo \in Nat, hi \in Nat :
         Between(ch, lo, hi) /\ Owned(ch, lo, hi) /\ Stored(ch, lo, hi)
  BY <1>1 DEF InUse
<1> DEFINE n == nxt[beginChunk]
<1>3. /\ rpc' = "xchg" /\ beginPos' = 0 /\ rreg' = beginChunk /\ beginChunk' = n
      /\ queueFault' = (queueFault \/ n = Null \/ Queue!Dead(n))
      /\ prev' = [prev EXCEPT ![n] = Null]
      /\ UNCHANGED <<heap, values, nxt, spare, popped, endChunk, endPos, wpc, wreg, pushed, published>>
  BY DEF Queue!PopAdvance, Queue!writerVars
<1>4. /\ beginPos = N /\ rreg = Null /\ popped <= published
      /\ popped \in Nat /\ pushed \in Nat /\ published \in Nat /\ endPos \in Nat
  BY <1>1 DEF InUse, Positions, QueueType
<1>5. popped = Start(lo) + N /\ pushed = Start(hi) + endPos
  BY <1>2, <1>4 DEF Stored
<1>6. Start(lo) \in Nat /\ Start(lo + 1) = Start(lo) + N
  BY StartAt
<1>7. lo <= hi /\ lo \in lo..hi /\ hi \in lo..hi /\ beginChunk = ch[lo] /\ endChunk = ch[hi]
  BY <1>2 DEF Between
<1>8. lo < hi
  <2>1. published <= pushed /\ (endPos < N \/ (published < pushed /\ endPos = N))
    BY <1>1 DEF InUse, Positions
  <2>2. lo # hi
    BY <1>4, <1>5, <1>6, <2>1
  <2> QED
    BY <1>7, <2>2
<1>9. lo + 1 \in lo..hi /\ lo + 1 \in Nat /\ \A i \in lo + 1..hi : i \in lo..hi /\ i # lo
  BY <1>8
<1>10. n = ch[lo + 1] /\ n \in Chunk /\ ch[lo] \in Chunk
  BY <1>2, <1>7, <1>8, <1>9 DEF Between
<1>11. n \in heap
  BY <1>2, <1>9, <1>10 DEF Owned
<1>12. ~queueFault'
  BY <1>1, <1>3, <1>10, <1>11 DEF Queue!Dead
<1>13. prev' \in [Chunk -> Chunk \cup {Null}]
  BY <1>1, <1>3, <1>10 DEF QueueType
<1>14. QueueType'
  BY <1>1, <1>3, <1>7, <1>10, <1>13 DEF QueueType
<1>15. Positions'
  BY <1>1, <1>3, <1>4 DEF InUse, Positions
<1>16. Between(ch, lo + 1, hi)'
  <2>1. ASSUME NEW i \in lo + 1..hi, i < hi
        PROVE  nxt'[ch[i]] = ch[i + 1] /\ prev'[ch[i + 1]] = ch[i]
    <3>1. i \in lo..hi /\ i + 1 \in lo..hi /\ i + 1 # lo + 1 /\ ch[i + 1] \in Chunk
      BY <1>9, <2>1
    <3>2. ch[i + 1] # n
      BY <1>2, <1>9, <1>10, <3>1 DEF Between
    <3>3. prev'[ch[i + 1]] = prev[ch[i + 1]]
      BY <1>1, <1>3, <1>10, <3>1, <3>2 DEF QueueType
    <3> QED
      BY <1>2, <1>3, <2>1, <3>1, <3>3 DEF Between
  <2>2. \A i, j \in lo + 1..hi : ch[i] = ch[j] => i = j
    BY <1>2, <1>9 DEF Between
  <2> QED
    BY <1>3, <1>7, <1>8, <1>10, <2>1, <2>2 DEF Between
<1>17. Owned(ch, lo + 1, hi)'
  <2>1. \A i \in lo + 1..hi : ch[i] # ch[lo]
    BY <1>2, <1>7, <1>9 DEF Between
  <2>2. ch[lo] # spare /\ ch[lo] # wreg /\ ch[lo] # Null
    BY <1>2, <1>7, <1>10 DEF Owned
  <2>3. ASSUME NEW d \in Chunk
        PROVE  d \in heap' <=> \/ d = spare' \/ d = wreg' \/ d = rreg'
                               \/ \E i \in lo + 1..hi : d = ch[i]
    <3>1. d \in heap <=> d = spare \/ d = wreg \/ d = rreg \/ \E i \in lo..hi : d = ch[i]
      BY <1>2 DEF Owned
    <3>2. (\E i \in lo..hi : d = ch[i]) <=> d = ch[lo] \/ \E i \in lo + 1..hi : d = ch[i]
      <4>1. \A i \in lo..hi : i = lo \/ i \in lo + 1..hi
        OBVIOUS
      <4> QED
        BY <1>7, <1>9, <4>1
    <3> QED
      BY <1>3, <1>4, <1>7, <3>1, <3>2
  <2> QED
    BY <1>2, <1>3, <1>7, <1>9, <2>1, <2>2, <2>3 DEF Owned
<1>18. Stored(ch, lo + 1, hi)'
  <2>1. popped' = Start(lo + 1) + beginPos' /\ pushed' = Start(hi) + endPos'
    BY <1>3, <1>4, <1>5, <1>6
  <2> QED
    BY <1>2, <1>3, <1>9, <2>1 DEF Stored
<1> QED
  BY <1>9, <1>12, <1>14, <1>15, <1>16, <1>17, <1>18 DEF QueueInv, InUse

(* The chunk left behind becomes the spare one, and the old one is freed.     *)
LEMMA PopXchgStep == ASSUME QueueInv, Queue!PopXchg PROVE QueueInv'
<1> USE BasePartsAssumption
<1>1. InUse /\ rpc = "xchg" /\ QueueType /\ ~queueFault
  BY AtWork DEF Queue!PopXchg, QueueInv
<1>2. PICK ch \in [Nat -> Chunk], lo \in Nat, hi \in Nat :
         Between(ch, lo, hi) /\ Owned(ch, lo, hi) /\ Stored(ch, lo, hi)
  BY <1>1 DEF InUse
<1>3. /\ rpc' = "idle" /\ spare' = rreg /\ rreg' = Null /\ heap' = heap \ {spare}
      /\ queueFault' = (queueFault \/ (spare # Null /\ Queue!Dead(spare)))
      /\ UNCHANGED <<values, prev, nxt, beginChunk, beginPos, popped, endChunk, endPos, wpc,
                     wreg, pushed, published>>
  BY DEF Queue!PopXchg, Queue!writerVars
<1>4. spare # Null => spare \in heap
  BY <1>1, <1>2 DEF Owned, QueueType
<1>5. ~queueFault'
  BY <1>1, <1>3, <1>4 DEF Queue!Dead
<1>6. QueueType'
  BY <1>1, <1>3 DEF QueueType
<1>7. Positions'
  BY <1>1, <1>3 DEF InUse, Positions
<1>8. Between(ch, lo, hi)' /\ Stored(ch, lo, hi)'
  BY <1>2, <1>3 DEF Between, Stored
<1>9. Owned(ch, lo, hi)'
  <2>1. \A i \in lo..hi : ch[i] # Null
    OBVIOUS
  <2>2. ASSUME NEW d \in Chunk
        PROVE  d \in heap' <=> d = spare' \/ d = wreg' \/ d = rreg' \/ \E i \in lo..hi : d = ch[i]
    <3>1. d \in heap <=> d = spare \/ d = wreg \/ d = rreg \/ \E i \in lo..hi : d = ch[i]
      BY <1>2 DEF Owned
    <3>2. d = spare => d # wreg /\ d # rreg /\ \A i \in lo..hi : d # ch[i]
      BY <1>2 DEF Owned
    <3> QED
      BY <1>3, <3>1, <3>2
  <2> QED
    BY <1>2, <1>3, <2>1, <2>2 DEF Owned
<1> QED
  BY <1>5, <1>6, <1>7, <1>8, <1>9 DEF QueueInv, InUse

(* The destructor begins when neither side holds a chunk.                     *)
LEMMA DestroyStep == ASSUME QueueInv, Queue!Destroy PROVE QueueInv'
<1>1. InUse /\ wpc = "idle" /\ rpc = "idle" /\ QueueType /\ ~queueFault
  BY AtWork DEF Queue!Destroy, QueueInv
<1>2. /\ wpc' = "freeing" /\ rpc' = "freeing"
      /\ UNCHANGED <<heap, values, prev, nxt, beginChunk, beginPos, endChunk, endPos, spare,
                     wreg, rreg, pushed, published, popped, queueFault>>
  BY DEF Queue!Destroy
<1>3. wreg = Null /\ rreg = Null
  BY <1>1 DEF InUse, Positions
<1>4. QueueType'
  BY <1>1, <1>2 DEF QueueType
<1>5. Freeing'
  BY <1>1, <1>2, <1>3 DEF InUse, Freeing, Between, Owned
<1> QED
  BY <1>1, <1>2, <1>4, <1>5 DEF QueueInv

(* It frees the first chunk that is left.                                     *)
LEMMA FreeChunkStep == ASSUME QueueInv, Queue!FreeChunk PROVE QueueInv'
<1> USE BasePartsAssumption
<1>1. Freeing /\ QueueType /\ ~queueFault
  BY DEF QueueInv, InUse, Positions, Freed, Queue!FreeChunk
<1>2. PICK ch \in [Nat -> Chunk], lo \in Nat, hi \in Nat :
         Between(ch, lo, hi) /\ Owned(ch, lo, hi)
  BY <1>1 DEF Freeing
<1>3. /\ queueFault' = (queueFault \/ Queue!Dead(beginChunk))
      /\ heap' = heap \ {beginChunk}
      /\ UNCHANGED <<values, prev, nxt, beginPos, endChunk, endPos, spare, wreg, rpc, rreg,
                     pushed, published, popped>>
  BY DEF Queue!FreeChunk
<1>4. /\ lo <= hi /\ lo \in lo..hi /\ hi \in lo..hi /\ beginChunk = ch[lo] /\ endChunk = ch[hi]
      /\ wreg = Null /\ rreg = Null /\ rpc = "freeing"
  BY <1>1, <1>2 DEF Between, Freeing
<1>5. ~queueFault' /\ QueueType'
  BY <1>1, <1>2, <1>3, <1>4 DEF Owned, QueueType, Queue!Dead
<1>6. CASE beginChunk = endChunk
  <2>1. lo = hi
    BY <1>2, <1>4, <1>6 DEF Between
  <2>2. \A d \in Chunk : d \in heap <=> d = spare \/ d = ch[lo]
    BY <1>2, <1>4, <2>1 DEF Owned
  <2>3. heap' = {spare} \ {Null}
    <3>1. heap' \subseteq Chunk /\ spare \in Chunk \cup {Null} /\ ch[lo] # spare
      BY <1>2, <1>4, <1>5, <1>3 DEF Owned, QueueType
    <3>2. \A d \in Chunk : d \in heap' <=> d = spare
      BY <1>3, <1>4, <2>2, <3>1
    <3> QED
      BY <3>1, <3>2
  <2>4. wpc' = "freed"
    BY <1>6 DEF Queue!FreeChunk
  <2> QED
    BY <1>3, <1>4, <1>5, <2>3, <2>4 DEF QueueInv, Freed
<1>7. CASE beginChunk # endChunk
  <2>1. wpc' = "freeing" /\ beginChunk' = nxt[beginChunk]
    BY <1>1, <1>7 DEF Freeing, Queue!FreeChunk
  <2>2. lo < hi
    BY <1>4, <1>7
  <2>3. lo + 1 \in lo..hi /\ lo + 1 \in Nat /\ \A i \in lo + 1..hi : i \in lo..hi /\ i # lo
    BY <2>2
  <2>4. beginChunk' = ch[lo + 1]
    BY <1>2, <1>4, <2>1, <2>2 DEF Between
  <2>5. \A i \in lo + 1..hi : ch[i] # ch[lo]
    BY <1>2, <1>4, <2>3 DEF Between
  <2>6. Between(ch, lo + 1, hi)'
    BY <1>2, <1>3, <2>2, <2>3, <2>4 DEF Between
  <2>7. Owned(ch, lo + 1, hi)'
    <3>1. ASSUME NEW d \in Chunk
          PROVE  d \in heap' <=> \/ d = spare' \/ d = wreg' \/ d = rreg'
                                 \/ \E i \in lo + 1..hi : d = ch[i]
      <4>1. d \in heap <=> d = spare \/ d = wreg \/ d = rreg \/ \E i \in lo..hi : d = ch[i]
        BY <1>2 DEF Owned
      <4>2. (\E i \in lo..hi : d = ch[i]) <=> d = ch[lo] \/ \E i \in lo + 1..hi : d = ch[i]
        <5>1. \A i \in lo..hi : i = lo \/ i \in lo + 1..hi
          OBVIOUS
        <5> QED
          BY <1>4, <2>3, <5>1
      <4>3. ch[lo] # spare /\ ch[lo] # wreg /\ ch[lo] # rreg
        BY <1>2, <1>4 DEF Owned
      <4> QED
        BY <1>3, <1>4, <2>5, <4>1, <4>2, <4>3
    <3> QED
      BY <1>2, <1>3, <2>3, <3>1 DEF Owned
  <2>8. Freeing'
    BY <1>3, <1>4, <2>1, <2>3, <2>6, <2>7 DEF Freeing
  <2> QED
    BY <1>5, <2>8 DEF QueueInv
<1> QED
  BY <1>6, <1>7

(* The spare chunk is the last one.                                           *)
LEMMA FreeSpareStep == ASSUME QueueInv, Queue!FreeSpare PROVE QueueInv'
<1>1. wpc = "freed" /\ rpc = "freeing" /\ heap = {spare} \ {Null} /\ QueueType /\ ~queueFault
  BY DEF QueueInv, InUse, Positions, Freeing, Freed, Queue!FreeSpare
<1>2. /\ wpc' = "destroyed" /\ heap' = heap \ {spare} /\ spare' = Null
      /\ queueFault' = (queueFault \/ (spare # Null /\ Queue!Dead(spare)))
      /\ UNCHANGED <<values, prev, nxt, beginPos, rpc, rreg, popped, endPos, wreg, pushed, published>>
  BY DEF Queue!FreeSpare, Queue!readerVars
<1>3. heap' = {} /\ ~queueFault'
  BY <1>1, <1>2 DEF Queue!Dead
<1>4. QueueType'
  BY <1>1, <1>2, <1>3 DEF QueueType
<1> QED
  BY <1>1, <1>2, <1>3, <1>4 DEF QueueInv, Freed

(* QueueInv says nothing of the back position.                                *)
LEMMA QueueStutter == ASSUME QueueInv, UNCHANGED queueVars PROVE QueueInv'
<1>1. UNCHANGED <<heap, values, prev, nxt, beginChunk, beginPos, endChunk, endPos, spare, wpc,
                  wreg, rpc, rreg, pushed, published, popped, queueFault>>
  BY DEF queueVars
<1>2. QueueType' = QueueType /\ queueFault' = queueFault
  BY <1>1 DEF QueueType
<1>3. Positions' <=> Positions
  BY <1>1 DEF Positions
<1>4. Freed' <=> Freed
  BY <1>1 DEF Freed
<1>5. \A ch, lo, hi : /\ Between(ch, lo, hi) => Between(ch, lo, hi)'
                      /\ Owned(ch, lo, hi) => Owned(ch, lo, hi)'
                      /\ Stored(ch, lo, hi) => Stored(ch, lo, hi)'
  BY <1>1 DEF Between, Owned, Stored
<1>6. InUse => InUse'
  BY <1>3, <1>5 DEF InUse
<1>7. Freeing => Freeing'
  BY <1>1, <1>5 DEF Freeing
<1> QED
  BY <1>2, <1>4, <1>6, <1>7 DEF QueueInv

(* yqueue (yqueue.hpp: push(), unpush(), pop(), the destructor): the reader    *)
(* gets every item once and in order, no chunk is touched after it was freed   *)
(* or freed twice, and none is left when the destructor is done, for every     *)
(* granularity, whatever address malloc() returns.                             *)
THEOREM QueueCorrect == Queue!Spec => []QueueSafe
<1>1. QueueInv /\ [Queue!Next]_queueVars => QueueInv'
  BY PushStep, PushXchgStep, PushLinkStep, UnpushStep, PublishStep, PopStep, PopAdvanceStep,
     PopXchgStep, DestroyStep, FreeChunkStep, FreeSpareStep, QueueStutter DEF Queue!Next
<1>2. QueueInv => QueueSafe
  BY DEF QueueInv, InUse, Positions, Freeing, Freed, QueueSafe, Queue!QueueSafe, Queue!NoChunkLeaks
<1> QED
  BY <1>1, <1>2, QueueInit, PTL DEF Queue!Spec, Queue!vars, queueVars

-----------------------------------------------------------------------------
(* AsyncLogging.  Records pass through four stages: the files, the buffers    *)
(* that are being written, the full ones, and the current one.                *)
Recs == Seq(Nat)
LogFiles == [files : Seq([second : Nat, content : Recs]), lastRoll : Nat,
             lastFlush : Nat, period : Int, count : Int, written : Int, flushed : BOOLEAN]

(* A log file that was opened: the last name holds the second of the last     *)
(* roll, and the names increase.                                              *)
Rolled(lf) ==
    /\ lf \in LogFiles /\ lf.files # <<>>
    /\ lf.lastRoll = lf.files[Len(lf.files)].second
    /\ \A i \in 2..Len(lf.files) : lf.files[i - 1].second < lf.files[i].second

Contents(lf) == [i \in DOMAIN lf.files |-> lf.files[i].content]

(* The records of R come before those of S; notes (0) do not count.           *)
Below(R, S) == \A a \in R, b \in S : a # 0 /\ b # 0 => a < b

(* A record of a sequence of buffers has a place there.                       *)
LEMMA InRecords ==
  ASSUME NEW s, NEW r
  PROVE  r \in Log!RecordsOf(s) <=> \E i \in DOMAIN s : \E j \in DOMAIN s[i] : r = s[i][j]
  BY DEF Log!RecordsOf, Log!ToSet

(* Two sequences of buffers, one after the other.                             *)
LEMMA Joined ==
  ASSUME NEW s \in Seq(Recs), NEW t \in Seq(Recs)
  PROVE  /\ Log!RecordsOf(s \o t) = Log!RecordsOf(s) \cup Log!RecordsOf(t)
         /\ Log!Ordered(s \o t) <=> /\ Log!Ordered(s) /\ Log!Ordered(t)
                                    /\ Below(Log!RecordsOf(s), Log!RecordsOf(t))
<1> DEFINE u == s \o t
<1>1. /\ u \in Seq(Recs) /\ Len(u) = Len(s) + Len(t) /\ Len(s) \in Nat /\ Len(t) \in Nat
      /\ DOMAIN u = 1..Len(u) /\ DOMAIN s = 1..Len(s) /\ DOMAIN t = 1..Len(t)
  BY DEF Recs
<1>2. \A i \in DOMAIN s : i \in DOMAIN u /\ u[i] = s[i]
  BY DEF Recs
<1>3. \A i \in DOMAIN t : i + Len(s) \in DOMAIN u /\ u[i + Len(s)] = t[i]
  BY DEF Recs
<1>4. \A i \in DOMAIN u : i \in DOMAIN s \/ (i - Len(s) \in DOMAIN t /\ u[i] = t[i - Len(s)])
  <2> SUFFICES ASSUME NEW i \in DOMAIN u, i \notin DOMAIN s
               PROVE  i - Len(s) \in DOMAIN t /\ u[i] = t[i - Len(s)]
    OBVIOUS
  <2>1. i - Len(s) \in DOMAIN t /\ (i - Len(s)) + Len(s) = i
    BY <1>1
  <2> QED
    BY <1>3, <2>1
<1> HIDE DEF u
<1>5. ASSUME NEW r PROVE r \in Log!RecordsOf(u) <=> r \in Log!RecordsOf(s) \/ r \in Log!RecordsOf(t)
  <2>1. r \in Log!RecordsOf(u) => r \in Log!RecordsOf(s) \/ r \in Log!RecordsOf(t)
    BY <1>2, <1>4, InRecords
  <2>2. r \in Log!RecordsOf(s) \/ r \in Log!RecordsOf(t) => r \in Log!RecordsOf(u)
    BY <1>2, <1>3, InRecords
  <2> QED
    BY <2>1, <2>2
<1>6. ASSUME Log!Ordered(u) PROVE Log!Ordered(s)
  BY <1>2, <1>6 DEF Log!Ordered
<1>7. ASSUME Log!Ordered(u) PROVE Log!Ordered(t)
  <2> SUFFICES ASSUME NEW i \in DOMAIN t, NEW m \in DOMAIN t,
                      NEW j \in DOMAIN t[i], NEW n \in DOMAIN t[m],
                      i < m \/ (i = m /\ j < n), t[i][j] # 0, t[m][n] # 0
               PROVE  t[i][j] < t[m][n]
    BY DEF Log!Ordered
  <2>1. i + Len(s) < m + Len(s) \/ (i + Len(s) = m + Len(s) /\ j < n)
    BY <1>1
  <2> QED
    BY <1>3, <1>7, <2>1 DEF Log!Ordered
<1>8. ASSUME Log!Ordered(u) PROVE Below(Log!RecordsOf(s), Log!RecordsOf(t))
  <2> SUFFICES ASSUME NEW a \in Log!RecordsOf(s), NEW b \in Log!RecordsOf(t), a # 0, b # 0
               PROVE  a < b
    BY DEF Below
  <2>1. PICK i \in DOMAIN s : \E j \in DOMAIN s[i] : a = s[i][j]
    BY InRecords
  <2>2. PICK m \in DOMAIN t : \E n \in DOMAIN t[m] : b = t[m][n]
    BY InRecords
  <2>3. i < m + Len(s)
    BY <1>1
  <2> QED
    BY <1>2, <1>3, <1>8, <2>1, <2>2, <2>3 DEF Log!Ordered
<1>9. ASSUME Log!Ordered(s), Log!Ordered(t), Below(Log!RecordsOf(s), Log!RecordsOf(t))
      PROVE  Log!Ordered(u)
  <2> SUFFICES ASSUME NEW i \in DOMAIN u, NEW m \in DOMAIN u,
                      NEW j \in DOMAIN u[i], NEW n \in DOMAIN u[m],
                      i < m \/ (i = m /\ j < n), u[i][j] # 0, u[m][n] # 0
               PROVE  u[i][j] < u[m][n]
    BY DEF Log!Ordered
  <2>1. CASE i \in DOMAIN s /\ m \in DOMAIN s
    BY <1>2, <1>9, <2>1 DEF Log!Ordered
  <2>2. CASE i \in DOMAIN s /\ m \notin DOMAIN s
    <3>1. u[i][j] \in Log!RecordsOf(s) /\ u[m][n] \in Log!RecordsOf(t)
      BY <1>2, <1>4, <2>2, InRecords
    <3> QED
      BY <1>9, <3>1 DEF Below
  <2>3. CASE i \notin DOMAIN s
    <3>1. m \notin DOMAIN s
      BY <1>1, <2>3
    <3>2. i - Len(s) < m - Len(s) \/ (i - Len(s) = m - Len(s) /\ j < n)
      BY <1>1
    <3> QED
      BY <1>4, <1>9, <2>3, <3>1, <3>2 DEF Log!Ordered
  <2> QED
    BY <2>1, <2>2, <2>3
<1>10. Log!RecordsOf(u) = Log!RecordsOf(s) \cup Log!RecordsOf(t)
  BY <1>5
<1> QED
  BY <1>6, <1>7, <1>8, <1>9, <1>10 DEF u

(* One buffer, and none.                                                      *)
LEMMA Single ==
  ASSUME NEW c \in Recs
  PROVE  /\ Log!RecordsOf(<<c>>) = Log!ToSet(c) /\ Log!RecordsOf(<<>>) = {}
         /\ Log!Ordered(<<>>)
         /\ Log!Ordered(<<c>>) <=> \A j, n \in DOMAIN c : j < n /\ c[j] # 0 /\ c[n] # 0 => c[j] < c[n]
<1>1. DOMAIN <<c>> = {1} /\ <<c>>[1] = c
  OBVIOUS
<1>2. \A r : r \in Log!RecordsOf(<<c>>) <=> r \in Log!ToSet(c)
  BY <1>1 DEF Log!RecordsOf
<1>3. Log!RecordsOf(<<>>) = {} /\ Log!Ordered(<<>>)
  BY DEF Log!RecordsOf, Log!Ordered
<1>4. Log!Ordered(<<c>>) <=> \A j, n \in DOMAIN c : j < n /\ c[j] # 0 /\ c[n] # 0 => c[j] < c[n]
  BY <1>1 DEF Log!Ordered
<1> QED
  BY <1>2, <1>3, <1>4

(* A buffer behind others.                                                    *)
LEMMA Behind ==
  ASSUME NEW s \in Seq(Recs), NEW c \in Recs
  PROVE  Append(s, c) \in Seq(Recs) /\ Append(s, c) = s \o <<c>> /\ <<c>> \in Seq(Recs)
  BY DEF Recs

(* The contents are a sequence of sequences of records.                       *)
LEMMA ContentsType ==
  ASSUME NEW lf, Rolled(lf)
  PROVE  Contents(lf) \in Seq(Recs) /\ Len(Contents(lf)) = Len(lf.files)
<1>1. lf.files \in Seq([second : Nat, content : Recs])
  BY DEF Rolled, LogFiles
<1>2. DOMAIN lf.files = 1..Len(lf.files) /\ Len(lf.files) \in Nat
  BY <1>1
<1>3. ASSUME NEW i \in 1..Len(lf.files) PROVE lf.files[i].content \in Recs
  <2> DEFINE E == [second : Nat, content : Recs]
  <2>1. lf.files \in Seq(E)
    BY <1>1
  <2>2. lf.files[i] \in E
    <3> HIDE DEF E
    <3> QED
      BY <2>1
  <2> QED
    BY <2>2
<1> DEFINE n == Len(lf.files)
<1>4. Contents(lf) = [i \in 1..n |-> lf.files[i].content]
  BY <1>2 DEF Contents
<1>5. Contents(lf) \in [1..n -> Recs] /\ n \in Nat
  BY <1>2, <1>3, <1>4
<1> HIDE DEF n, Recs
<1>6. Contents(lf) \in Seq(Recs)
  BY <1>5
<1>7. DOMAIN Contents(lf) = 1..n
  BY <1>5
<1>8. Len(Contents(lf)) = n
  BY <1>5, <1>6, <1>7
<1> QED
  BY <1>6, <1>8 DEF n

(* rollFile() opens an empty file, in a later second, or none.                *)
LEMMA RollKeeps ==
  ASSUME NEW lf, Rolled(lf), NEW t \in Nat
  PROVE  LET lg == Log!L!RollFile(lf, t) IN
         /\ Rolled(lg)
         /\ Contents(lg) = Contents(lf) \/ Contents(lg) = Append(Contents(lf), <<>>)
<1> DEFINE lg == Log!L!RollFile(lf, t)
           e == [second |-> t, content |-> <<>>]
<1>1. CASE ~(t > lf.lastRoll)
  BY <1>1 DEF Log!L!RollFile
<1>2. CASE t > lf.lastRoll
  <2> USE BasePartsAssumption
  <2>0. lf \in LogFiles /\ lf.files \in Seq([second : Nat, content : Recs]) /\ Len(lf.files) \in Nat \ {0}
    BY DEF Rolled, LogFiles
  <2>1. e \in [second : Nat, content : Recs] /\ Log!L!PeriodOf(t) \in Int
    BY DEF Recs, Log!L!PeriodOf
  <2>2. lg = [lf EXCEPT !.lastRoll = t, !.lastFlush = t, !.period = Log!L!PeriodOf(t),
                        !.written = 0, !.flushed = TRUE, !.files = Append(lf.files, e)]
    BY <1>2, <2>0 DEF Log!L!RollFile, LogFiles
  <2>3. Append(lf.files, e) \in Seq([second : Nat, content : Recs])
    BY <2>0, <2>1
  <2>4. lg \in LogFiles /\ lg.files = Append(lf.files, e) /\ lg.lastRoll = t
    <3> DEFINE fs == Append(lf.files, e)
               p == Log!L!PeriodOf(t)
               F == Seq([second : Nat, content : Recs])
    <3>1. fs \in F /\ p \in Int
      BY <2>1, <2>3
    <3>2. lg = [lf EXCEPT !.lastRoll = t, !.lastFlush = t, !.period = p,
                          !.written = 0, !.flushed = TRUE, !.files = fs]
      BY <2>2
    <3>3. lf \in [files : F, lastRoll : Nat, lastFlush : Nat, period : Int, count : Int,
                  written : Int, flushed : BOOLEAN]
      BY <2>0 DEF LogFiles
    <3> HIDE DEF fs, p, F, lg
    <3>4. lg \in [files : F, lastRoll : Nat, lastFlush : Nat, period : Int, count : Int,
                  written : Int, flushed : BOOLEAN]
      <4>1. lg = [files |-> fs, lastRoll |-> t, lastFlush |-> t, period |-> p,
                  count |-> lf.count, written |-> 0, flushed |-> TRUE]
        BY <3>2, <3>3
      <4> QED
        BY <3>1, <3>3, <4>1
    <3>5. lg.files = fs /\ lg.lastRoll = t
      BY <3>2, <3>3
    <3> QED
      BY <3>4, <3>5 DEF LogFiles, F, fs
  <2> HIDE DEF lg
  <2>5. /\ Len(lg.files) = Len(lf.files) + 1 /\ lg.files[Len(lf.files) + 1] = e
        /\ \A i \in 1..Len(lf.files) : lg.files[i] = lf.files[i]
    BY <2>0, <2>1, <2>4
  <2>6. Rolled(lg)
    <3>1. ASSUME NEW i \in 2..Len(lg.files) PROVE lg.files[i - 1].second < lg.files[i].second
      <4>1. CASE i = Len(lf.files) + 1
        <5>1. i - 1 = Len(lf.files) /\ i - 1 \in 1..Len(lf.files)
          BY <2>0, <4>1
        <5>2. lg.files[i - 1] = lf.files[Len(lf.files)] /\ lg.files[i] = e
          BY <2>5, <4>1, <5>1
        <5> QED
          BY <1>2, <5>2 DEF Rolled
      <4>2. CASE i # Len(lf.files) + 1
        <5>1. i \in 2..Len(lf.files) /\ i \in 1..Len(lf.files) /\ i - 1 \in 1..Len(lf.files)
          BY <2>0, <2>5, <4>2
        <5> QED
          BY <2>5, <5>1 DEF Rolled
      <4> QED
        BY <4>1, <4>2
    <3> QED
      BY <2>0, <2>4, <2>5, <3>1 DEF Rolled
  <2>7. Contents(lg) = Append(Contents(lf), <<>>)
    <3>1. Contents(lf) \in Seq(Recs) /\ Len(Contents(lf)) = Len(lf.files)
      BY ContentsType
    <3>2. /\ Append(Contents(lf), <<>>) \in Seq(Recs)
          /\ Len(Append(Contents(lf), <<>>)) = Len(lf.files) + 1
          /\ Append(Contents(lf), <<>>)[Len(lf.files) + 1] = <<>>
          /\ \A i \in 1..Len(lf.files) : Append(Contents(lf), <<>>)[i] = Contents(lf)[i]
      BY <2>0, <3>1 DEF Recs
    <3>3. Contents(lg) \in Seq(Recs) /\ Len(Contents(lg)) = Len(lf.files) + 1
      BY <2>5, <2>6, ContentsType
    <3>4. \A i \in 1..Len(lf.files) + 1 : Contents(lg)[i] = Append(Contents(lf), <<>>)[i]
      BY <2>0, <2>4, <2>5, <3>2 DEF Contents
    <3> QED
      BY <3>2, <3>3, <3>4
  <2> QED
    BY <2>6, <2>7 DEF lg
<1> QED
  BY <1>1, <1>2

(* Fields other than files and lastRoll do not matter.                        *)
LEMMA SameFiles ==
  ASSUME NEW lf, NEW lg \in LogFiles, Rolled(lf), lg.files = lf.files, lg.lastRoll = lf.lastRoll
  PROVE  Rolled(lg) /\ Contents(lg) = Contents(lf)
  BY DEF Rolled, Contents

(* AppendFile::append(): the records come behind those of the last file.      *)
LEMMA FileAppendAt ==
  ASSUME NEW lf, Rolled(lf), NEW recs \in Recs
  PROVE  LET lg == Log!L!FileAppend(lf, recs)
             n == Len(lf.files) IN
         /\ Rolled(lg) /\ n \in Nat \ {0} /\ lg.count = lf.count
         /\ Contents(lg) = [Contents(lf) EXCEPT ![n] = Contents(lf)[n] \o recs]
<1> DEFINE lg == Log!L!FileAppend(lf, recs)
           n == Len(lf.files)
           E == [second : Nat, content : Recs]
           e == [lf.files[n] EXCEPT !.content = lf.files[n].content \o recs]
           fs == [lf.files EXCEPT ![n] = e]
<1>1. lf \in LogFiles /\ lf.files \in Seq(E) /\ n \in Nat \ {0} /\ n \in 1..n /\ DOMAIN lf.files = 1..n
  BY DEF Rolled, LogFiles
<1>2. lf.files[n] \in E
  <2> HIDE DEF E
  <2> QED
    BY <1>1
<1>3. lf.files[n].content \o recs \in Recs
  BY <1>2 DEF Recs
<1>4. e \in E /\ e.second = lf.files[n].second /\ e.content = lf.files[n].content \o recs
  BY <1>2, <1>3
<1>5. /\ fs \in Seq(E) /\ Len(fs) = n /\ fs[n] = e /\ DOMAIN fs = 1..n
      /\ \A i \in 1..n : i # n => fs[i] = lf.files[i]
  <2> HIDE DEF e, E
  <2> QED
    BY <1>1, <1>4
<1>6. lg = [lf EXCEPT !.files = fs, !.written = lf.written + Len(recs), !.flushed = FALSE]
  BY <1>1, <1>2 DEF Log!L!FileAppend, LogFiles
<1>7. lg \in LogFiles /\ lg.files = fs /\ lg.lastRoll = lf.lastRoll /\ lg.count = lf.count
  <2> DEFINE F == Seq(E)
             w == lf.written + Len(recs)
  <2>1. fs \in F /\ w \in Int
    BY <1>1, <1>5 DEF LogFiles, Recs
  <2>2. lf \in [files : F, lastRoll : Nat, lastFlush : Nat, period : Int, count : Int,
                written : Int, flushed : BOOLEAN]
    BY <1>1 DEF LogFiles
  <2>3. lg = [lf EXCEPT !.files = fs, !.written = w, !.flushed = FALSE]
    BY <1>6
  <2> HIDE DEF F, w, fs, lg
  <2>4. lg = [files |-> fs, lastRoll |-> lf.lastRoll, lastFlush |-> lf.lastFlush, period |-> lf.period,
              count |-> lf.count, written |-> w, flushed |-> FALSE]
    BY <2>2, <2>3
  <2>5. lg \in [files : F, lastRoll : Nat, lastFlush : Nat, period : Int, count : Int,
                written : Int, flushed : BOOLEAN]
    BY <2>1, <2>2, <2>4
  <2> QED
    BY <2>4, <2>5 DEF LogFiles, F
<1> HIDE DEF lg
<1>8. \A i \in 1..n : lg.files[i].second = lf.files[i].second
  <2> HIDE DEF fs, e
  <2> SUFFICES ASSUME NEW i \in 1..n PROVE fs[i].second = lf.files[i].second
    BY <1>7
  <2>1. CASE i = n
    BY <1>4, <1>5, <2>1
  <2>2. CASE i # n
    BY <1>5, <2>2
  <2> QED
    BY <2>1, <2>2
<1> HIDE DEF fs, e
<1>9. Rolled(lg)
  <2>1. Len(lg.files) = n /\ lg.files # <<>>
    BY <1>1, <1>5, <1>7
  <2>2. \A i \in 2..n : i \in 1..n /\ i - 1 \in 1..n
    BY <1>1
  <2> QED
    BY <1>1, <1>7, <1>8, <2>1, <2>2 DEF Rolled
<1>10. Contents(lg) = [Contents(lf) EXCEPT ![n] = Contents(lf)[n] \o recs]
  <2>1. DOMAIN Contents(lf) = 1..n /\ DOMAIN Contents(lg) = 1..n
    BY <1>1, <1>5, <1>7 DEF Contents
  <2>2. \A i \in 1..n : Contents(lf)[i] = lf.files[i].content
    BY <1>1 DEF Contents
  <2>3. \A i \in 1..n : Contents(lg)[i] = IF i = n THEN Contents(lf)[n] \o recs ELSE Contents(lf)[i]
    BY <1>1, <1>4, <1>5, <1>7, <2>2 DEF Contents
  <2>4. Contents(lg) = [i \in 1..n |-> Contents(lg)[i]]
    BY <2>1 DEF Contents
  <2> QED
    BY <2>1, <2>3, <2>4
<1> QED
  BY <1>1, <1>7, <1>9, <1>10 DEF lg

(* Records behind those of the last buffer of a sequence.                     *)
LEMMA Extended ==
  ASSUME NEW s \in Seq(Recs), NEW n, n = Len(s), n # 0, NEW recs \in Recs
  PROVE  LET u == [s EXCEPT ![n] = s[n] \o recs] IN
         /\ u \in Seq(Recs)
         /\ Log!RecordsOf(u) = Log!RecordsOf(s) \cup Log!ToSet(recs)
         /\ /\ Log!Ordered(s) /\ Log!Ordered(<<recs>>)
            /\ Below(Log!RecordsOf(s), Log!ToSet(recs))
            => Log!Ordered(u)
<1> DEFINE x == s[n]
           y == x \o recs
           u == [s EXCEPT ![n] = y]
<1>1. n \in Nat \ {0} /\ DOMAIN s = 1..n /\ n \in 1..n
  OBVIOUS
<1>2. x \in Recs
  BY <1>1
<1> HIDE DEF x
<1>3. /\ y \in Recs /\ Len(x) \in Nat /\ Len(recs) \in Nat
      /\ DOMAIN x = 1..Len(x) /\ DOMAIN recs = 1..Len(recs) /\ DOMAIN y = 1..Len(x) + Len(recs)
      /\ \A j \in DOMAIN x : j \in DOMAIN y /\ y[j] = x[j]
      /\ \A j \in DOMAIN recs : j + Len(x) \in DOMAIN y /\ y[j + Len(x)] = recs[j]
  <2>1. x \in Seq(Nat) /\ recs \in Seq(Nat)
    BY <1>2 DEF Recs
  <2>2. /\ Len(x) \in Nat /\ Len(recs) \in Nat
        /\ DOMAIN x = 1..Len(x) /\ DOMAIN recs = 1..Len(recs)
    BY <2>1
  <2>3. y \in Seq(Nat) /\ Len(y) = Len(x) + Len(recs)
    BY <2>1
  <2>4. DOMAIN y = 1..Len(x) + Len(recs)
    BY <2>3
  <2>5. ASSUME NEW j \in DOMAIN x PROVE j \in DOMAIN y /\ y[j] = x[j]
    BY <2>1, <2>2, <2>4
  <2>6. ASSUME NEW j \in DOMAIN recs PROVE j + Len(x) \in DOMAIN y /\ y[j + Len(x)] = recs[j]
    BY <2>1, <2>2, <2>4
  <2> QED
    BY <2>2, <2>3, <2>4, <2>5, <2>6 DEF Recs
<1>4. \A j \in DOMAIN y : j \in DOMAIN x \/ (j - Len(x) \in DOMAIN recs /\ y[j] = recs[j - Len(x)])
  <2> SUFFICES ASSUME NEW j \in DOMAIN y, j \notin DOMAIN x
               PROVE  j - Len(x) \in DOMAIN recs /\ y[j] = recs[j - Len(x)]
    OBVIOUS
  <2> HIDE DEF y
  <2>1. j - Len(x) \in DOMAIN recs /\ (j - Len(x)) + Len(x) = j
    BY <1>3
  <2> QED
    BY <1>3, <2>1
<1> HIDE DEF y
<1>5. u \in Seq(Recs) /\ DOMAIN u = 1..n /\ u[n] = y /\ \A i \in 1..n : i # n => u[i] = s[i]
  BY <1>1, <1>3
<1> HIDE DEF u
<1>6. s[n] = x
  BY DEF x
<1>7. \A r : r \in Log!ToSet(recs) <=> \E j \in DOMAIN recs : r = recs[j]
  BY DEF Log!ToSet
<1>8. ASSUME NEW r PROVE r \in Log!RecordsOf(u) <=> r \in Log!RecordsOf(s) \/ r \in Log!ToSet(recs)
  <2>1. ASSUME r \in Log!RecordsOf(u) PROVE r \in Log!RecordsOf(s) \/ r \in Log!ToSet(recs)
    <3>1. PICK i \in DOMAIN u : \E j \in DOMAIN u[i] : r = u[i][j]
      BY <2>1, InRecords
    <3>2. CASE i # n
      BY <1>1, <1>5, <3>1, <3>2, InRecords
    <3>3. CASE i = n
      <4>1. PICK j \in DOMAIN y : r = y[j]
        BY <1>5, <3>1, <3>3
      <4>2. CASE j \in DOMAIN x
        BY <1>1, <1>3, <1>6, <4>1, <4>2, InRecords
      <4>3. CASE j \notin DOMAIN x
        BY <1>4, <1>7, <4>1, <4>3
      <4> QED
        BY <4>2, <4>3
    <3> QED
      BY <3>2, <3>3
  <2>2. ASSUME r \in Log!RecordsOf(s) PROVE r \in Log!RecordsOf(u)
    <3>1. PICK i \in DOMAIN s : \E j \in DOMAIN s[i] : r = s[i][j]
      BY <2>2, InRecords
    <3>2. CASE i # n
      BY <1>1, <1>5, <3>1, <3>2, InRecords
    <3>3. CASE i = n
      BY <1>1, <1>3, <1>5, <1>6, <3>1, <3>3, InRecords
    <3> QED
      BY <3>2, <3>3
  <2>3. ASSUME r \in Log!ToSet(recs) PROVE r \in Log!RecordsOf(u)
    BY <1>1, <1>3, <1>5, <1>7, <2>3, InRecords
  <2> QED
    BY <2>1, <2>2, <2>3
<1>9. ASSUME Log!Ordered(s), Log!Ordered(<<recs>>), Below(Log!RecordsOf(s), Log!ToSet(recs))
      PROVE  Log!Ordered(u)
  <2> SUFFICES ASSUME NEW i \in DOMAIN u, NEW m \in DOMAIN u,
                      NEW j \in DOMAIN u[i], NEW k \in DOMAIN u[m],
                      i < m \/ (i = m /\ j < k), u[i][j] # 0, u[m][k] # 0
               PROVE  u[i][j] < u[m][k]
    BY DEF Log!Ordered
  <2>1. i <= m /\ i \in 1..n /\ m \in 1..n
    BY <1>1, <1>5
  <2>2. CASE m # n
    <3>1. i # n /\ u[i] = s[i] /\ u[m] = s[m]
      BY <1>1, <1>5, <2>1, <2>2
    <3> QED
      BY <1>1, <1>9, <2>1, <3>1 DEF Log!Ordered
  <2>3. CASE m = n /\ k \in DOMAIN x
    <3>1. u[m][k] = s[m][k] /\ k \in DOMAIN s[m]
      BY <1>3, <1>5, <1>6, <2>3
    <3>2. u[i][j] = s[i][j] /\ j \in DOMAIN s[i]
      <4>1. CASE i # n
        BY <1>5, <2>1, <4>1
      <4>2. CASE i = n
        <5>1. j \in DOMAIN y /\ k \in DOMAIN x /\ j < k
          BY <1>5, <2>3, <4>2
        <5>2. j \in DOMAIN x
          BY <1>3, <5>1
        <5> QED
          BY <1>3, <1>5, <1>6, <4>2, <5>2
      <4> QED
        BY <4>1, <4>2
    <3> QED
      BY <1>1, <1>9, <2>1, <3>1, <3>2 DEF Log!Ordered
  <2>4. CASE m = n /\ k \notin DOMAIN x
    <3>1. k - Len(x) \in DOMAIN recs /\ u[m][k] = recs[k - Len(x)] /\ u[m][k] \in Log!ToSet(recs) /\ k \in DOMAIN y
      BY <1>4, <1>5, <1>7, <2>4
    <3>2. CASE i # n
      <4>1. u[i][j] \in Log!RecordsOf(s)
        BY <1>1, <1>5, <2>1, <3>2, InRecords
      <4> QED
        BY <1>9, <3>1, <4>1 DEF Below
    <3>3. CASE i = n /\ j \in DOMAIN x
      <4>1. u[i][j] \in Log!RecordsOf(s)
        BY <1>1, <1>3, <1>5, <1>6, <3>3, InRecords
      <4> QED
        BY <1>9, <3>1, <4>1 DEF Below
    <3>4. CASE i = n /\ j \notin DOMAIN x
      <4>1. j \in DOMAIN y /\ j < k
        BY <1>5, <2>4, <3>4
      <4>2. j - Len(x) \in DOMAIN recs /\ u[i][j] = recs[j - Len(x)]
        BY <1>4, <1>5, <3>4, <4>1
      <4>3. j - Len(x) < k - Len(x)
        BY <1>3, <3>1, <4>1
      <4>4. \A a, b \in DOMAIN recs : a < b /\ recs[a] # 0 /\ recs[b] # 0 => recs[a] < recs[b]
        BY <1>9, Single
      <4> QED
        BY <3>1, <4>2, <4>3, <4>4
    <3> QED
      BY <3>2, <3>3, <3>4
  <2> QED
    BY <2>2, <2>3, <2>4
<1>10. Log!RecordsOf(u) = Log!RecordsOf(s) \cup Log!ToSet(recs)
  BY <1>8
<1> QED
  BY <1>5, <1>9, <1>10 DEF u, y, x

(* A file that is opened holds nothing.                                       *)
LEMMA OneMore ==
  ASSUME NEW s \in Seq(Recs)
  PROVE  /\ Log!RecordsOf(Append(s, <<>>)) = Log!RecordsOf(s)
         /\ Log!Ordered(s) => Log!Ordered(Append(s, <<>>))
<1>1. <<>> \in Recs
  BY DEF Recs
<1>2. Log!ToSet(<<>>) = {}
  BY DEF Log!ToSet
<1>3. Append(s, <<>>) = s \o <<<<>>>> /\ <<<<>>>> \in Seq(Recs)
  BY <1>1, Behind
<1>4. Log!RecordsOf(<<<<>>>>) = {} /\ Log!Ordered(<<<<>>>>)
  BY <1>1, <1>2, Single
<1> DEFINE e == <<<<>>>>
<1>5. e \in Seq(Recs) /\ Log!RecordsOf(e) = {} /\ Log!Ordered(e) /\ Append(s, <<>>) = s \o e
  BY <1>3, <1>4
<1> HIDE DEF e
<1>6. Below(Log!RecordsOf(s), Log!RecordsOf(e))
  BY <1>5 DEF Below
<1>7. /\ Log!RecordsOf(s \o e) = Log!RecordsOf(s) \cup Log!RecordsOf(e)
      /\ Log!Ordered(s) => Log!Ordered(s \o e)
  BY <1>5, <1>6, Joined
<1> QED
  BY <1>5, <1>7

(* LogFile::append_unlocked(): the records come behind all that were logged,  *)
(* whether the file is rolled or not.                                         *)
LEMMA Logged ==
  ASSUME NEW lf, Rolled(lf), NEW recs \in Recs, NEW t \in Nat
  PROVE  LET lg == Log!L!AppendTo(lf, recs, t) IN
         /\ Rolled(lg)
         /\ Log!RecordsOf(Contents(lg)) = Log!RecordsOf(Contents(lf)) \cup Log!ToSet(recs)
         /\ /\ Log!Ordered(Contents(lf)) /\ Log!Ordered(<<recs>>)
            /\ Below(Log!RecordsOf(Contents(lf)), Log!ToSet(recs))
            => Log!Ordered(Contents(lg))
<1> USE BasePartsAssumption
<1> DEFINE a == Log!L!FileAppend(lf, recs)
           c == IF a.count + 1 >= CheckEveryN THEN 0 ELSE a.count + 1
           b == [a EXCEPT !.count = c]
           f == [b EXCEPT !.lastFlush = t]
           lg == Log!L!AppendTo(lf, recs, t)
           Good(x) == /\ Rolled(x)
                      /\ Log!RecordsOf(Contents(x)) = Log!RecordsOf(Contents(lf)) \cup Log!ToSet(recs)
                      /\ /\ Log!Ordered(Contents(lf)) /\ Log!Ordered(<<recs>>)
                         /\ Below(Log!RecordsOf(Contents(lf)), Log!ToSet(recs))
                         => Log!Ordered(Contents(x))
<1>1. Good(a)
  <2>1. Contents(lf) \in Seq(Recs) /\ Len(Contents(lf)) = Len(lf.files)
    BY ContentsType
  <2>2. /\ Rolled(a) /\ Len(lf.files) \in Nat \ {0}
        /\ Contents(a) = [Contents(lf) EXCEPT ![Len(lf.files)] = Contents(lf)[Len(lf.files)] \o recs]
    BY FileAppendAt
  <2> DEFINE w == Contents(lf)
             n == Len(lf.files)
             u == [w EXCEPT ![n] = w[n] \o recs]
  <2>3. w \in Seq(Recs) /\ n = Len(w) /\ n # 0 /\ Contents(a) = u
    BY <2>1, <2>2
  <2> HIDE DEF a, w, n
  <2>4. /\ Log!RecordsOf(u) = Log!RecordsOf(w) \cup Log!ToSet(recs)
        /\ /\ Log!Ordered(w) /\ Log!Ordered(<<recs>>)
           /\ Below(Log!RecordsOf(w), Log!ToSet(recs))
           => Log!Ordered(u)
    BY <2>3, Extended
  <2> QED
    BY <2>2, <2>3, <2>4 DEF w
<1>2. ASSUME NEW x, Good(x) PROVE Good(Log!L!RollFile(x, t))
  <2>1. Contents(x) \in Seq(Recs)
    BY <1>2, ContentsType
  <2>2. /\ Rolled(Log!L!RollFile(x, t))
        /\ \/ Contents(Log!L!RollFile(x, t)) = Contents(x)
           \/ Contents(Log!L!RollFile(x, t)) = Append(Contents(x), <<>>)
    BY <1>2, RollKeeps
  <2> QED
    BY <1>2, <2>1, <2>2, OneMore
<1>3. ASSUME NEW x, NEW y \in LogFiles, Good(x), y.files = x.files, y.lastRoll = x.lastRoll
      PROVE  Good(y)
  BY <1>3, SameFiles
<1>4. a \in LogFiles /\ c \in Int
  BY <1>1 DEF Rolled, LogFiles
<1>5. lg = IF a.written > RollSize THEN Log!L!RollFile(a, t)
           ELSE IF b.count # 0 THEN b
           ELSE IF Log!L!PeriodOf(t) # b.period THEN Log!L!RollFile(b, t)
           ELSE IF t - b.lastFlush > FlushInterval THEN Log!L!Flush(f)
           ELSE b
  BY <1>4 DEF Log!L!AppendTo, LogFiles
<1> HIDE DEF a, c, lg, Good
<1>6. b \in LogFiles /\ b.files = a.files /\ b.lastRoll = a.lastRoll
  BY <1>4 DEF LogFiles
<1> HIDE DEF b
<1>7. f \in LogFiles /\ f.files = b.files /\ f.lastRoll = b.lastRoll
  BY <1>6 DEF LogFiles
<1> HIDE DEF f
<1>8. /\ Log!L!Flush(f) \in LogFiles /\ Log!L!Flush(f).files = f.files
      /\ Log!L!Flush(f).lastRoll = f.lastRoll
  BY <1>7 DEF LogFiles, Log!L!Flush
<1>9. Good(b)
  BY <1>1, <1>3, <1>6
<1>10. Good(Log!L!Flush(f))
  BY <1>3, <1>7, <1>8, <1>9
<1>11. Good(lg)
  BY <1>1, <1>2, <1>5, <1>9, <1>10
<1> QED
  BY <1>11 DEF Good, lg

(* The records of the four stages.                                            *)
InFiles   == Log!RecordsOf(Contents(files))
InToWrite == Log!RecordsOf(toWrite)
InBuffers == Log!RecordsOf(buffers)
InCurrent == Log!ToSet(currentBuffer)

LogType ==
    /\ Rolled(files) /\ now \in Nat /\ appended \in Nat
    /\ currentBuffer \in Recs /\ buffers \in Seq(Recs) /\ toWrite \in Seq(Recs)
    /\ nextBuffer \in BOOLEAN /\ newBuffer1 \in BOOLEAN /\ newBuffer2 \in BOOLEAN

(* Every stage is in order, and comes before the stages behind it.            *)
StagesOrdered ==
    /\ Log!Ordered(Contents(files)) /\ Log!Ordered(toWrite)
    /\ Log!Ordered(buffers) /\ Log!Ordered(<<currentBuffer>>)
    /\ Below(InFiles, InToWrite) /\ Below(InFiles, InBuffers) /\ Below(InFiles, InCurrent)
    /\ Below(InToWrite, InBuffers) /\ Below(InToWrite, InCurrent)
    /\ Below(InBuffers, InCurrent)

(* What was appended is in one of them or was dropped; notes are only in the  *)
(* files.                                                                     *)
Kept ==
    /\ 0 \notin InToWrite /\ 0 \notin InBuffers /\ 0 \notin InCurrent
    /\ dropped \subseteq 1..appended
    /\ (InFiles \cup InToWrite \cup InBuffers \cup InCurrent) \ {0} = (1..appended) \ dropped

(* The logging thread has written enough buffers to fill up the spare ones:   *)
(* it took currentBuffer, and nextBuffer was used only if a buffer was full.  *)
Spares ==
    /\ ~logFault
    /\ caller = "idle" => writer = "none"
    /\ nextBuffer \/ buffers # <<>>
    /\ \/ /\ writer \notin {"dropping", "writing"}
          /\ toWrite = <<>> /\ newBuffer1 /\ newBuffer2
       \/ /\ writer \in {"dropping", "writing"}
          /\ toWrite # <<>> /\ (newBuffer1 \/ newBuffer2 \/ Len(toWrite) >= 2)

LogInv == LogType /\ StagesOrdered /\ Kept /\ Spares

(* The new log.                                                               *)
LEMMA LogInit == Log!Init => LogInv
<1> SUFFICES ASSUME Log!Init PROVE LogInv
  OBVIOUS
<1> USE BasePartsAssumption
<1> DEFINE e == [second |-> 1, content |-> <<>>]
<1>1. files = [files |-> <<e>>, lastRoll |-> 1, lastFlush |-> 1, period |-> Log!L!PeriodOf(1),
               count |-> 0, written |-> 0, flushed |-> TRUE]
  <2> DEFINE p == Log!L!PeriodOf(1)
             z == [files |-> <<>>, lastRoll |-> 0, lastFlush |-> 0, period |-> 0,
                   count |-> 0, written |-> 0, flushed |-> TRUE]
  <2>1. files = Log!L!RollFile(z, 1)
    BY DEF Log!Init, Log!L!Fresh
  <2>2. z.lastRoll = 0 /\ z.files = <<>>
    OBVIOUS
  <2>3. files = [z EXCEPT !.lastRoll = 1, !.lastFlush = 1, !.period = p, !.written = 0,
                          !.flushed = TRUE, !.files = Append(z.files, e)]
    BY <2>1, <2>2 DEF Log!L!RollFile
  <2>4. Append(z.files, e) = <<e>>
    BY <2>2
  <2> HIDE DEF p, e
  <2> QED
    BY <2>3, <2>4 DEF p
<1>2. Log!L!PeriodOf(1) \in Int /\ e \in [second : Nat, content : Recs] /\ <<>> \in Recs
  BY DEF Log!L!PeriodOf, Recs
<1>3. Rolled(files)
  <2>1. files \in LogFiles
    BY <1>1, <1>2 DEF LogFiles
  <2> QED
    BY <1>1, <2>1 DEF Rolled
<1>4. Contents(files) = <<<<>>>>
  <2>1. files.files = <<e>> /\ DOMAIN files.files = 1..1 /\ files.files[1].content = <<>>
    BY <1>1
  <2>2. Contents(files) = [i \in 1..1 |-> files.files[i].content]
    BY <2>1 DEF Contents
  <2>3. Contents(files) = [i \in 1..1 |-> <<>>]
    BY <2>1, <2>2
  <2> QED
    BY <2>3
<1>5. Log!ToSet(<<>>) = {}
  BY DEF Log!ToSet
<1>6. /\ Log!RecordsOf(<<<<>>>>) = {} /\ Log!RecordsOf(<<>>) = {}
      /\ Log!Ordered(<<<<>>>>) /\ Log!Ordered(<<>>)
  BY <1>2, <1>5, Single
<1>7. /\ currentBuffer = <<>> /\ buffers = <<>> /\ toWrite = <<>> /\ now = 1 /\ appended = 0
      /\ dropped = {} /\ nextBuffer = TRUE /\ newBuffer1 = TRUE /\ newBuffer2 = TRUE
      /\ writer = "none" /\ caller = "idle" /\ logFault = FALSE
  BY DEF Log!Init
<1>8. InFiles = {} /\ InToWrite = {} /\ InBuffers = {} /\ InCurrent = {}
  BY <1>4, <1>5, <1>6, <1>7 DEF InFiles, InToWrite, InBuffers, InCurrent
<1>9. LogType
  BY <1>2, <1>3, <1>7 DEF LogType
<1>10. StagesOrdered
  BY <1>4, <1>6, <1>7, <1>8 DEF StagesOrdered, Below
<1>11. Kept
  BY <1>7, <1>8 DEF Kept
<1>12. Spares
  BY <1>7 DEF Spares
<1> QED
  BY <1>9, <1>10, <1>11, <1>12 DEF LogInv

(* Steps that move no record: the logging thread goes from one place to       *)
(* another outside writing, flushes, or the clock ticks.                      *)
LEMMA LogQuiet ==
  ASSUME LogInv, UNCHANGED <<currentBuffer, buffers, toWrite, nextBuffer, newBuffer1, newBuffer2,
                             appended, dropped, logFault>>,
         files' \in LogFiles, files'.files = files.files, files'.lastRoll = files.lastRoll,
         now' \in Nat,
         writer' = writer \/ (/\ writer \notin {"dropping", "writing"}
                              /\ writer' \notin {"dropping", "writing"}),
         caller' = "idle" => writer' = "none"
  PROVE  LogInv'
<1>1. Rolled(files)' /\ Contents(files)' = Contents(files)
  BY SameFiles DEF LogInv, LogType
<1>2. InFiles' = InFiles /\ InToWrite' = InToWrite /\ InBuffers' = InBuffers /\ InCurrent' = InCurrent
  BY <1>1 DEF InFiles, InToWrite, InBuffers, InCurrent
<1>3. LogType'
  BY <1>1 DEF LogInv, LogType
<1>4. StagesOrdered'
  BY <1>1, <1>2 DEF LogInv, StagesOrdered
<1>5. Kept'
  BY <1>2 DEF LogInv, Kept
<1>6. Spares'
  BY DEF LogInv, Spares
<1> QED
  BY <1>3, <1>4, <1>5, <1>6 DEF LogInv

(* append(): the record is the newest.                                        *)
LEMMA AppendRecordStep == ASSUME LogInv, Log!AppendRecord PROVE LogInv'
<1> DEFINE a == appended + 1
<1>1. /\ appended' = a /\ caller' # "idle"
      /\ UNCHANGED <<toWrite, newBuffer1, newBuffer2, files, dropped, logFault, now>>
  BY DEF Log!AppendRecord, Log!backVars
<1>2. LogType /\ StagesOrdered /\ Kept /\ Spares
  BY DEF LogInv
<1>3. a \in Nat /\ a # 0
  BY <1>2 DEF LogType
<1>4. /\ InFiles' = InFiles /\ InToWrite' = InToWrite /\ Contents(files)' = Contents(files)
  BY <1>1 DEF InFiles, InToWrite, Contents
<1>5. \A r \in InFiles \cup InToWrite \cup InBuffers \cup InCurrent : r # 0 => r \in Nat /\ r < a
  BY <1>2 DEF Kept, LogType
<1>6. \A R : Below(R, InCurrent) /\ (\A r \in R : r # 0 => r \in Nat /\ r < a) => Below(R, InCurrent \cup {a})
  BY DEF Below
<1>7. CASE Len(currentBuffer) < BufferSize
  <2>1. currentBuffer' = Append(currentBuffer, a) /\ UNCHANGED <<buffers, nextBuffer, writer>>
    BY <1>1, <1>7 DEF Log!AppendRecord
  <2>2. currentBuffer \in Seq(Nat)
    BY <1>2 DEF LogType, Recs
  <2> DEFINE n == Len(currentBuffer)
  <2>3. /\ currentBuffer' \in Seq(Nat) /\ n \in Nat
        /\ DOMAIN currentBuffer = 1..n /\ DOMAIN currentBuffer' = 1..n + 1
        /\ currentBuffer'[n + 1] = a
        /\ \A j \in 1..n : currentBuffer'[j] = currentBuffer[j]
    BY <1>3, <2>1, <2>2
  <2> HIDE DEF n
  <2>4. \A j \in 1..n + 1 : j \in 1..n \/ j = n + 1
    BY <2>3
  <2>5. \A j \in 1..n : j \in 1..n + 1
    BY <2>3
  <2>6. n + 1 \in 1..n + 1
    BY <2>3
  <2>7. InCurrent' = InCurrent \cup {a}
    <3>1. \A r : r \in InCurrent <=> \E j \in 1..n : r = currentBuffer[j]
      BY <2>3 DEF InCurrent, Log!ToSet
    <3>2. \A r : r \in InCurrent' <=> \E j \in 1..n + 1 : r = currentBuffer'[j]
      BY <2>3 DEF InCurrent, Log!ToSet
    <3>3. \A r : r \in InCurrent' <=> r \in InCurrent \/ r = a
      BY <2>3, <2>4, <2>5, <2>6, <3>1, <3>2
    <3> QED
      BY <3>3
  <2>8. Log!Ordered(<<currentBuffer'>>)
    <3>1. currentBuffer \in Recs /\ currentBuffer' \in Recs
      BY <2>2, <2>3 DEF Recs
    <3>2. \A j, k \in 1..n : j < k /\ currentBuffer[j] # 0 /\ currentBuffer[k] # 0
                               => currentBuffer[j] < currentBuffer[k]
      BY <1>2, <2>3, <3>1, Single DEF StagesOrdered
    <3>3. \A j \in 1..n : currentBuffer[j] \in InCurrent
      BY <2>3 DEF InCurrent, Log!ToSet
    <3>4. ASSUME NEW j \in 1..n + 1, NEW k \in 1..n + 1,
                 j < k, currentBuffer'[j] # 0, currentBuffer'[k] # 0
          PROVE  currentBuffer'[j] < currentBuffer'[k]
      <4>1. j \in 1..n
        BY <2>3, <3>4
      <4>2. CASE k = n + 1
        BY <1>5, <2>3, <3>3, <3>4, <4>1, <4>2
      <4>3. CASE k # n + 1
        <5>1. k \in 1..n
          BY <2>4, <4>3
        <5> QED
          BY <2>3, <3>2, <3>4, <4>1, <5>1
      <4> QED
        BY <4>2, <4>3
    <3> QED
      BY <2>3, <3>1, <3>4, Single
  <2>9. InBuffers' = InBuffers
    BY <2>1 DEF InBuffers
  <2>10. LogType'
    BY <1>1, <1>2, <1>3, <2>1, <2>3 DEF LogType, Recs
  <2>11. StagesOrdered'
    <3>1. Below(InFiles, InCurrent) /\ Below(InToWrite, InCurrent) /\ Below(InBuffers, InCurrent)
      BY <1>2 DEF StagesOrdered
    <3>2. Below(InFiles, InCurrent \cup {a}) /\ Below(InToWrite, InCurrent \cup {a})
          /\ Below(InBuffers, InCurrent \cup {a})
      BY <1>5, <1>6, <3>1
    <3> QED
      BY <1>1, <1>2, <1>4, <2>1, <2>7, <2>8, <2>9, <3>2 DEF StagesOrdered
  <2>12. Kept'
    BY <1>1, <1>2, <1>3, <1>4, <2>7, <2>9 DEF Kept, LogType
  <2>13. Spares'
    BY <1>1, <1>2, <2>1 DEF Spares
  <2> QED
    BY <2>10, <2>11, <2>12, <2>13 DEF LogInv
<1>8. CASE ~(Len(currentBuffer) < BufferSize)
  <2>1. /\ buffers' = Append(buffers, currentBuffer) /\ nextBuffer' = FALSE
        /\ currentBuffer' = <<a>>
        /\ writer' = IF writer = "waiting" THEN "swapping" ELSE writer
    BY <1>1, <1>8 DEF Log!AppendRecord
  <2>2. currentBuffer \in Recs /\ buffers \in Seq(Recs)
    BY <1>2 DEF LogType
  <2>3. /\ buffers' \in Seq(Recs) /\ buffers' = buffers \o <<currentBuffer>>
        /\ <<currentBuffer>> \in Seq(Recs) /\ buffers' # <<>>
    BY <2>1, <2>2, Behind
  <2>4. Log!RecordsOf(<<currentBuffer>>) = InCurrent
    BY <2>2, Single DEF InCurrent
  <2>5. InBuffers' = InBuffers \cup InCurrent /\ Log!Ordered(buffers')
    BY <1>2, <2>2, <2>3, <2>4, Joined DEF InBuffers, StagesOrdered
  <2>6. currentBuffer' \in Recs /\ DOMAIN currentBuffer' = {1} /\ currentBuffer'[1] = a
    BY <1>3, <2>1 DEF Recs
  <2>7. InCurrent' = {a}
    BY <2>6 DEF InCurrent, Log!ToSet
  <2>8. Log!Ordered(<<currentBuffer'>>)
    BY <2>6, Single
  <2>9. LogType'
    BY <1>1, <1>2, <1>3, <2>1, <2>3, <2>6 DEF LogType
  <2>10. StagesOrdered'
    <3>1. \A R : (\A r \in R : r # 0 => r \in Nat /\ r < a) => Below(R, {a})
      BY DEF Below
    <3>2. Below(InFiles, {a}) /\ Below(InToWrite, {a}) /\ Below(InBuffers \cup InCurrent, {a})
      BY <1>5, <3>1
    <3>3. Below(InFiles, InBuffers \cup InCurrent) /\ Below(InToWrite, InBuffers \cup InCurrent)
      BY <1>2 DEF StagesOrdered, Below
    <3> QED
      BY <1>1, <1>2, <1>4, <2>5, <2>7, <2>8, <3>2, <3>3 DEF StagesOrdered
  <2>11. Kept'
    BY <1>1, <1>2, <1>3, <1>4, <2>5, <2>7 DEF Kept, LogType
  <2>12. Spares'
    BY <1>1, <1>2, <2>1, <2>3 DEF Spares
  <2> QED
    BY <2>9, <2>10, <2>11, <2>12 DEF LogInv
<1> QED
  BY <1>7, <1>8

(* The swap takes the full buffers and the current one.                       *)
LEMMA SwapBuffersStep == ASSUME LogInv, Log!SwapBuffers PROVE LogInv'
<1>1. LogType /\ StagesOrdered /\ Kept /\ Spares
  BY DEF LogInv
<1>2. /\ writer = "swapping" /\ writer' = "dropping"
      /\ toWrite' = Append(buffers, currentBuffer)
      /\ buffers' = <<>> /\ currentBuffer' = <<>> /\ newBuffer1' = FALSE
      /\ newBuffer2' = (newBuffer2 /\ nextBuffer) /\ nextBuffer' = TRUE
      /\ UNCHANGED <<caller, files, dropped, logFault, now, appended>>
  BY DEF Log!SwapBuffers
<1>3. currentBuffer \in Recs /\ buffers \in Seq(Recs) /\ <<>> \in Recs /\ <<>> \in Seq(Recs)
  BY <1>1 DEF LogType, Recs
<1>4. /\ toWrite' \in Seq(Recs) /\ toWrite' = buffers \o <<currentBuffer>>
      /\ <<currentBuffer>> \in Seq(Recs) /\ toWrite' # <<>>
  BY <1>2, <1>3, Behind
<1>5. InToWrite = {}
  BY <1>1, <1>2, <1>3, Single DEF Spares, InToWrite
<1>6. Log!RecordsOf(<<currentBuffer>>) = InCurrent
  BY <1>3, Single DEF InCurrent
<1>7. InToWrite' = InBuffers \cup InCurrent /\ Log!Ordered(toWrite')
  BY <1>1, <1>3, <1>4, <1>6, Joined DEF InToWrite, InBuffers, StagesOrdered
<1>8. InBuffers' = {} /\ InCurrent' = {}
  <2>1. Log!ToSet(<<>>) = {} /\ Log!RecordsOf(<<>>) = {}
    BY DEF Log!ToSet, Log!RecordsOf
  <2> QED
    BY <1>2, <2>1 DEF InBuffers, InCurrent
<1>9. Log!Ordered(<<>>) /\ Log!Ordered(<<<<>>>>)
  BY <1>3, Single
<1>10. InFiles' = InFiles /\ Contents(files)' = Contents(files)
  BY <1>2 DEF InFiles, Contents
<1>11. LogType'
  BY <1>1, <1>2, <1>3, <1>4 DEF LogType
<1>12. StagesOrdered'
  <2>1. Below(InFiles, InBuffers \cup InCurrent) /\ \A R : Below(R, {})
    BY <1>1 DEF StagesOrdered, Below
  <2> QED
    BY <1>1, <1>2, <1>7, <1>8, <1>9, <1>10, <2>1 DEF StagesOrdered
<1>13. Kept'
  BY <1>1, <1>2, <1>5, <1>7, <1>8, <1>10 DEF Kept
<1>14. Spares'
  <2>1. buffers # <<>> => Len(toWrite') >= 2
    BY <1>2, <1>3
  <2> QED
    BY <1>1, <1>2, <1>4, <2>1 DEF Spares
<1> QED
  BY <1>11, <1>12, <1>13, <1>14 DEF LogInv

(* Dropping keeps the two oldest buffers, and leaves a note.                  *)
LEMMA DropStep == ASSUME LogInv, Log!Drop PROVE LogInv'
<1> USE BasePartsAssumption
<1>1. LogType /\ StagesOrdered /\ Kept /\ Spares
  BY DEF LogInv
<1>2. /\ writer = "dropping" /\ writer' = "writing"
      /\ logFault' = (logFault \/ toWrite = <<>>)
      /\ UNCHANGED <<caller, currentBuffer, buffers, nextBuffer, newBuffer1, newBuffer2, now, appended>>
  BY DEF Log!Drop, Log!frontVars
<1>3. ~logFault' /\ toWrite # <<>>
  BY <1>1, <1>2 DEF Spares
<1>4. InBuffers' = InBuffers /\ InCurrent' = InCurrent
  BY <1>2 DEF InBuffers, InCurrent
<1>5. CASE ~(Len(toWrite) > DropAbove)
  <2>1. UNCHANGED <<files, toWrite, dropped>>
    BY <1>5 DEF Log!Drop
  <2>2. InFiles' = InFiles /\ Contents(files)' = Contents(files) /\ InToWrite' = InToWrite
    BY <2>1 DEF InFiles, Contents, InToWrite
  <2>3. LogType'
    BY <1>1, <1>2, <2>1 DEF LogType
  <2>4. StagesOrdered'
    BY <1>1, <1>2, <1>4, <2>1, <2>2 DEF StagesOrdered
  <2>5. Kept'
    BY <1>1, <1>2, <1>4, <2>1, <2>2 DEF Kept
  <2>6. Spares'
    BY <1>1, <1>2, <1>3, <2>1 DEF Spares
  <2> QED
    BY <2>3, <2>4, <2>5, <2>6 DEF LogInv
<1>6. CASE Len(toWrite) > DropAbove
  <2> DEFINE s == SubSeq(toWrite, 1, 2)
             d == SubSeq(toWrite, 3, Len(toWrite))
             D == Log!RecordsOf(d)
  <2>1. files' = Log!L!AppendTo(files, <<0>>, now) /\ toWrite' = s /\ dropped' = dropped \cup D
    BY <1>6 DEF Log!Drop
  <2>2. toWrite \in Seq(Recs) /\ Len(toWrite) \in Nat /\ Len(toWrite) > 2
    BY <1>1, <1>6 DEF LogType
  <2>3. s \in Seq(Recs) /\ d \in Seq(Recs) /\ Len(s) = 2
    BY <2>2
  <2>4. toWrite = s \o d
    BY <2>2
  <2> HIDE DEF s, d
  <2>5. InToWrite = Log!RecordsOf(s) \cup D
    BY <2>3, <2>4, Joined DEF InToWrite
  <2>6. Log!Ordered(s) /\ Below(Log!RecordsOf(s), D)
    BY <1>1, <2>3, <2>4, Joined DEF StagesOrdered
  <2> HIDE DEF D
  <2>7. InToWrite' = Log!RecordsOf(s)
    BY <2>1 DEF InToWrite
  <2>8. <<0>> \in Recs /\ Log!ToSet(<<0>>) = {0} /\ Log!Ordered(<<<<0>>>>)
    <3>1. <<0>> \in Recs /\ DOMAIN <<0>> = {1} /\ <<0>>[1] = 0
      BY DEF Recs
    <3> QED
      BY <3>1, Single DEF Log!ToSet
  <2>9. Below(Log!RecordsOf(Contents(files)), Log!ToSet(<<0>>))
    BY <2>8 DEF Below
  <2>10. Rolled(files') /\ Log!RecordsOf(Contents(files')) = InFiles \cup {0} /\ Log!Ordered(Contents(files'))
    BY <1>1, <2>1, <2>8, <2>9, Logged DEF LogType, StagesOrdered, InFiles
  <2>11. InFiles' = InFiles \cup {0}
    BY <2>10 DEF InFiles, Contents
  <2>12. LogType'
    BY <1>1, <1>2, <2>1, <2>3, <2>10 DEF LogType, Rolled
  <2>13. StagesOrdered'
    <3>1. /\ Below(InFiles \cup {0}, Log!RecordsOf(s)) /\ Below(InFiles \cup {0}, InBuffers)
          /\ Below(InFiles \cup {0}, InCurrent)
          /\ Below(Log!RecordsOf(s), InBuffers) /\ Below(Log!RecordsOf(s), InCurrent)
      BY <1>1, <2>5 DEF StagesOrdered, Below
    <3>2. Contents(files)' = Contents(files')
      BY DEF Contents
    <3> QED
      BY <1>1, <1>2, <1>4, <2>1, <2>6, <2>7, <2>10, <2>11, <3>1, <3>2 DEF StagesOrdered
  <2>14. Kept'
    <3>1. \A r \in D : r \in InToWrite /\ r # 0 /\ r \in 1..appended
      BY <1>1, <2>5 DEF Kept
    <3>2. \A r \in D : r \notin Log!RecordsOf(s) /\ r \notin InFiles /\ r \notin InBuffers /\ r \notin InCurrent
      <4> SUFFICES ASSUME NEW r \in D
                   PROVE  r \notin Log!RecordsOf(s) /\ r \notin InFiles /\ r \notin InBuffers /\ r \notin InCurrent
        OBVIOUS
      <4>1. ~(r < r) /\ r # 0 /\ r \in InToWrite
        BY <3>1
      <4> QED
        BY <1>1, <2>6, <4>1 DEF StagesOrdered, Below
    <3>3. dropped' \subseteq 1..appended'
      BY <1>1, <1>2, <2>1, <3>1 DEF Kept
    <3>4. \A r : r \in (InFiles' \cup InToWrite' \cup InBuffers' \cup InCurrent') \ {0}
                 <=> r \in (1..appended') \ dropped'
      <4>1. \A r : r \in (InFiles \cup InToWrite \cup InBuffers \cup InCurrent) \ {0}
                 <=> r \in (1..appended) \ dropped
        BY <1>1 DEF Kept
      <4> QED
        BY <1>2, <1>4, <2>1, <2>5, <2>7, <2>11, <3>1, <3>2, <4>1
    <3> QED
      BY <1>1, <1>4, <2>5, <2>7, <3>3, <3>4 DEF Kept
  <2>15. Spares'
    <3>1. Len(toWrite') = 2
      BY <2>1, <2>3
    <3>2. toWrite' # <<>>
      <4>1. Len(<<>>) = 0
        OBVIOUS
      <4> QED
        BY <3>1, <4>1
    <3> QED
      BY <1>1, <1>2, <1>3, <3>1, <3>2 DEF Spares
  <2> QED
    BY <2>12, <2>13, <2>14, <2>15 DEF LogInv
<1> QED
  BY <1>5, <1>6

(* A set of natural numbers has a least one.                                  *)
LEMMA LeastNatural ==
  ASSUME NEW S \in SUBSET Nat, S # {} PROVE \E m \in S : \A k \in S : m <= k
<1>1. PICK m \in S : \A k \in S : <<k, m>> \notin OpToRel(<, Nat)
  BY NatLessThanWellFounded, WFMin
<1>2. ASSUME NEW k \in S PROVE m <= k
  <2>1. ~(k < m)
    BY <1>1 DEF OpToRel
  <2> QED
    BY <2>1
<1> QED
  BY <1>2

(* Writing the first buffer that is not written yet: what is left is newer.   *)
LEMMA WriteBufferStep == ASSUME LogInv, Log!WriteBuffer PROVE LogInv'
<1>1. LogType /\ StagesOrdered /\ Kept /\ Spares
  BY DEF LogInv
<1>2. /\ writer = "writing" /\ \E i \in DOMAIN toWrite : toWrite[i] # <<>>
      /\ UNCHANGED <<currentBuffer, buffers, nextBuffer, newBuffer1, newBuffer2, dropped,
                     logFault, writer, caller, now, appended>>
  BY DEF Log!WriteBuffer, Log!frontVars
<1> DEFINE First(j) == toWrite[j] # <<>> /\ \A m \in 1..j - 1 : toWrite[m] = <<>>
           i == CHOOSE j \in DOMAIN toWrite : First(j)
           c == toWrite[i]
<1>3. files' = Log!L!AppendTo(files, c, now) /\ toWrite' = [toWrite EXCEPT ![i] = <<>>]
  BY DEF Log!WriteBuffer
<1>4. toWrite \in Seq(Recs) /\ Len(toWrite) \in Nat /\ DOMAIN toWrite = 1..Len(toWrite) /\ <<>> \in Recs
  BY <1>1 DEF LogType, Recs
<1>5. \E j \in DOMAIN toWrite : First(j)
  <2> DEFINE F == {j \in DOMAIN toWrite : toWrite[j] # <<>>}
  <2>1. F \in SUBSET Nat /\ F # {}
    BY <1>2, <1>4
  <2>2. PICK j \in F : \A k \in F : j <= k
    BY <2>1, LeastNatural
  <2>3. ASSUME NEW m \in 1..j - 1 PROVE toWrite[m] = <<>>
    <3>1. m \in DOMAIN toWrite /\ ~(j <= m)
      BY <1>4
    <3> QED
      BY <2>2, <3>1
  <2> QED
    BY <2>2, <2>3
<1>6. i \in DOMAIN toWrite /\ First(i)
  <2> HIDE DEF First
  <2> QED
    BY <1>5
<1> HIDE DEF i
<1>7. /\ i \in 1..Len(toWrite) /\ toWrite[i] = c
      /\ \A m \in DOMAIN toWrite : m < i => toWrite[m] = <<>>
  <2>1. i \in 1..Len(toWrite)
    BY <1>4, <1>6
  <2>2. ASSUME NEW m \in DOMAIN toWrite, m < i PROVE toWrite[m] = <<>>
    <3>1. m \in 1..i - 1
      BY <1>4, <2>1, <2>2
    <3> QED
      BY <1>6, <3>1
  <2> QED
    BY <2>1, <2>2
<1>8. c \in Recs
  BY <1>4, <1>7
<1> HIDE DEF c, First
<1>9. /\ toWrite' \in Seq(Recs) /\ Len(toWrite') = Len(toWrite) /\ DOMAIN toWrite' = DOMAIN toWrite
      /\ toWrite'[i] = <<>> /\ \A m \in DOMAIN toWrite : m # i => toWrite'[m] = toWrite[m]
  BY <1>3, <1>4, <1>6
<1>10. \A m \in DOMAIN toWrite' : \A n \in DOMAIN toWrite'[m] :
         /\ m \in DOMAIN toWrite /\ m # i /\ n \in DOMAIN toWrite[m]
         /\ toWrite'[m] = toWrite[m] /\ i < m
  <2> SUFFICES ASSUME NEW m \in DOMAIN toWrite', NEW n \in DOMAIN toWrite'[m]
               PROVE  /\ m \in DOMAIN toWrite /\ m # i /\ n \in DOMAIN toWrite[m]
                      /\ toWrite'[m] = toWrite[m] /\ i < m
    OBVIOUS
  <2>1. DOMAIN <<>> = {}
    OBVIOUS
  <2>2. m \in DOMAIN toWrite /\ m # i /\ toWrite'[m] = toWrite[m]
    BY <1>9, <2>1
  <2>3. ~(m < i)
    BY <1>7, <2>1, <2>2
  <2> QED
    BY <1>4, <1>7, <2>2, <2>3
<1> DEFINE C == Log!ToSet(c)
<1>11. \A r : r \in C <=> \E j \in DOMAIN c : r = c[j]
  BY DEF Log!ToSet
<1>12. ASSUME NEW r PROVE r \in InToWrite <=> r \in InToWrite' \/ r \in C
  <2>1. r \in InToWrite <=> \E m \in DOMAIN toWrite : \E n \in DOMAIN toWrite[m] : r = toWrite[m][n]
    BY InRecords DEF InToWrite
  <2>2. r \in InToWrite' <=> \E m \in DOMAIN toWrite' : \E n \in DOMAIN toWrite'[m] : r = toWrite'[m][n]
    BY InRecords DEF InToWrite
  <2>3. r \in InToWrite' => r \in InToWrite
    BY <1>10, <2>1, <2>2
  <2>4. r \in C => r \in InToWrite
    BY <1>6, <1>7, <1>11, <2>1
  <2>5. r \in InToWrite => r \in InToWrite' \/ r \in C
    BY <1>7, <1>9, <1>11, <2>1, <2>2
  <2> QED
    BY <2>3, <2>4, <2>5
<1>13. Log!Ordered(toWrite')
  BY <1>1, <1>10 DEF StagesOrdered, Log!Ordered
<1>14. Log!Ordered(<<c>>)
  <2>1. \A j, k \in DOMAIN c : j < k /\ c[j] # 0 /\ c[k] # 0 => c[j] < c[k]
    BY <1>1, <1>6, <1>7 DEF StagesOrdered, Log!Ordered
  <2> QED
    BY <1>8, <2>1, Single
<1>15. Below(C, InToWrite')
  <2> SUFFICES ASSUME NEW a \in C, NEW b \in InToWrite', a # 0, b # 0 PROVE a < b
    BY DEF Below
  <2>1. PICK j \in DOMAIN c : a = c[j]
    BY <1>11
  <2>2. PICK m \in DOMAIN toWrite' : \E n \in DOMAIN toWrite'[m] : b = toWrite'[m][n]
    BY InRecords DEF InToWrite
  <2> QED
    BY <1>1, <1>6, <1>7, <1>10, <2>1, <2>2 DEF StagesOrdered, Log!Ordered
<1>16. Below(InFiles, C) /\ Below(InFiles, InToWrite') /\ Below(InToWrite', InBuffers)
       /\ Below(InToWrite', InCurrent) /\ Below(C, InBuffers) /\ Below(C, InCurrent)
  BY <1>1, <1>12 DEF StagesOrdered, Below
<1>17. Rolled(files') /\ Log!RecordsOf(Contents(files')) = InFiles \cup C /\ Log!Ordered(Contents(files'))
  BY <1>1, <1>3, <1>8, <1>14, <1>16, Logged DEF LogType, StagesOrdered, InFiles
<1> HIDE DEF C
<1>18. InFiles' = InFiles \cup C /\ InBuffers' = InBuffers /\ InCurrent' = InCurrent
       /\ Contents(files)' = Contents(files')
  BY <1>2, <1>17 DEF InFiles, InBuffers, InCurrent, Contents
<1>19. LogType'
  BY <1>1, <1>2, <1>9, <1>17 DEF LogType, Rolled
<1>20. StagesOrdered'
  <2>1. /\ Below(InFiles \cup C, InToWrite') /\ Below(InFiles \cup C, InBuffers)
        /\ Below(InFiles \cup C, InCurrent)
    BY <1>1, <1>15, <1>16 DEF StagesOrdered, Below
  <2> QED
    BY <1>1, <1>2, <1>13, <1>16, <1>17, <1>18, <2>1 DEF StagesOrdered
<1>21. Kept'
  BY <1>1, <1>2, <1>12, <1>18 DEF Kept
<1>22. Spares'
  <2>1. toWrite' # <<>>
    BY <1>4, <1>7, <1>9
  <2> QED
    BY <1>1, <1>2, <1>9, <2>1 DEF Spares
<1> QED
  BY <1>19, <1>20, <1>21, <1>22 DEF LogInv

(* All that was swapped out is in the files.                                  *)
LEMMA RecycleStep == ASSUME LogInv, Log!Recycle PROVE LogInv'
<1>1. LogType /\ StagesOrdered /\ Kept /\ Spares
  BY DEF LogInv
<1> DEFINE need == (IF newBuffer1 THEN 0 ELSE 1) + (IF newBuffer2 THEN 0 ELSE 1)
<1>2. /\ writer = "writing" /\ \A i \in DOMAIN toWrite : toWrite[i] = <<>>
      /\ logFault' = (logFault \/ Len(toWrite) < need)
      /\ newBuffer1' = TRUE /\ newBuffer2' = TRUE /\ toWrite' = <<>>
      /\ files' = Log!L!Flush(files) /\ writer' = "testing"
      /\ UNCHANGED <<caller, currentBuffer, buffers, nextBuffer, dropped, now, appended>>
  BY DEF Log!Recycle, Log!frontVars
<1>3. Len(toWrite) \in Nat /\ Len(toWrite) >= 1
  BY <1>1, <1>2 DEF LogType, Spares
<1>4. ~logFault'
  <2>1. need <= Len(toWrite) /\ need \in Nat
    BY <1>1, <1>2, <1>3 DEF Spares
  <2> HIDE DEF need
  <2>2. ~(Len(toWrite) < need)
    BY <1>3, <2>1
  <2> QED
    BY <1>1, <1>2, <2>2 DEF Spares
<1>5. Rolled(files') /\ Contents(files') = Contents(files)
  <2>1. files \in LogFiles /\ Rolled(files)
    BY <1>1 DEF LogType, Rolled
  <2>2. files' \in LogFiles /\ files'.files = files.files /\ files'.lastRoll = files.lastRoll
    BY <1>2, <2>1 DEF LogFiles, Log!L!Flush
  <2> QED
    BY <2>1, <2>2, SameFiles
<1>6. InToWrite = {}
  <2>1. DOMAIN <<>> = {}
    OBVIOUS
  <2>2. \A r : r \notin InToWrite
    BY <1>2, <2>1, InRecords DEF InToWrite
  <2> QED
    BY <2>2
<1>7. InToWrite' = {} /\ Log!Ordered(toWrite')
  BY <1>2 DEF InToWrite, Log!RecordsOf, Log!Ordered
<1>8. InFiles' = InFiles /\ InBuffers' = InBuffers /\ InCurrent' = InCurrent
      /\ Contents(files)' = Contents(files)
  BY <1>2, <1>5 DEF InFiles, InBuffers, InCurrent, Contents
<1>9. LogType'
  BY <1>1, <1>2, <1>5 DEF LogType, Rolled
<1>10. StagesOrdered'
  BY <1>1, <1>2, <1>6, <1>7, <1>8 DEF StagesOrdered, Below
<1>11. Kept'
  BY <1>1, <1>2, <1>6, <1>7, <1>8 DEF Kept
<1>12. Spares'
  BY <1>1, <1>2, <1>4 DEF Spares
<1> QED
  BY <1>9, <1>10, <1>11, <1>12 DEF LogInv

(* Every other step is quiet.                                                 *)
LEMMA QuietSteps ==
  ASSUME LogInv,
         \/ Log!Start \/ Log!Started \/ Log!Stop \/ Log!NotifyStop \/ Log!Join \/ Log!CountDown
         \/ Log!TestRunning \/ Log!Lock \/ Log!WaitTimeout \/ Log!Tick \/ UNCHANGED logVars
  PROVE  LogInv'
<1>1. Rolled(files) /\ files \in LogFiles /\ now \in Nat
  BY DEF LogInv, LogType, Rolled
<1>2. UNCHANGED <<currentBuffer, buffers, toWrite, nextBuffer, newBuffer1, newBuffer2,
                  appended, dropped, logFault>>
  BY DEF Log!Start, Log!Started, Log!Stop, Log!NotifyStop, Log!Join, Log!CountDown, Log!TestRunning,
         Log!Lock, Log!WaitTimeout, Log!Tick, logVars, Log!frontVars, Log!backVars
<1>3. files' = files \/ files' = Log!L!Flush(files)
  BY DEF Log!Start, Log!Started, Log!Stop, Log!NotifyStop, Log!Join, Log!CountDown, Log!TestRunning,
         Log!Lock, Log!WaitTimeout, Log!Tick, logVars, Log!frontVars, Log!backVars
<1>4. files' \in LogFiles /\ files'.files = files.files /\ files'.lastRoll = files.lastRoll
  BY <1>1, <1>3 DEF LogFiles, Log!L!Flush
<1>5. now' \in Nat
  BY <1>1 DEF Log!Start, Log!Started, Log!Stop, Log!NotifyStop, Log!Join, Log!CountDown,
         Log!TestRunning, Log!Lock, Log!WaitTimeout, Log!Tick, logVars
<1>6. writer' = writer \/ (/\ writer \notin {"dropping", "writing"}
                           /\ writer' \notin {"dropping", "writing"})
  <2>1. CASE Log!Start
    BY <2>1 DEF LogInv, Spares, Log!Start
  <2> QED
    BY <2>1 DEF Log!Started, Log!Stop, Log!NotifyStop, Log!Join, Log!CountDown,
         Log!TestRunning, Log!Lock, Log!WaitTimeout, Log!Tick, logVars
<1>7. caller' = "idle" => writer' = "none"
  BY DEF LogInv, Spares, Log!Start, Log!Started, Log!Stop, Log!NotifyStop, Log!Join, Log!CountDown,
         Log!TestRunning, Log!Lock, Log!WaitTimeout, Log!Tick, logVars
<1> QED
  BY <1>2, <1>4, <1>5, <1>6, <1>7, LogQuiet

(* The stages make up the line of records of LogExact.                        *)
LEMMA LogLine == LogInv => LogExact
<1> SUFFICES ASSUME LogInv PROVE LogExact
  OBVIOUS
<1> DEFINE w == Contents(files)
           c == <<currentBuffer>>
           x == w \o toWrite
           y == x \o buffers
           line == y \o c
<1>1. /\ LogType /\ StagesOrdered /\ Kept /\ ~logFault
      /\ currentBuffer \in Recs /\ buffers \in Seq(Recs) /\ toWrite \in Seq(Recs)
  BY DEF LogInv, LogType, Spares
<1>2. w \in Seq(Recs)
  BY <1>1, ContentsType DEF LogType
<1>3. c \in Seq(Recs) /\ Log!RecordsOf(c) = InCurrent
  BY <1>1, Behind, Single DEF InCurrent
<1>4. /\ Log!RecordsOf(w) = InFiles /\ Log!RecordsOf(toWrite) = InToWrite
      /\ Log!RecordsOf(buffers) = InBuffers
      /\ Log!Ordered(w) /\ Log!Ordered(toWrite) /\ Log!Ordered(buffers) /\ Log!Ordered(c)
  BY <1>1 DEF InFiles, InToWrite, InBuffers, StagesOrdered
<1> HIDE DEF w, c
<1>5. x \in Seq(Recs) /\ Log!RecordsOf(x) = InFiles \cup InToWrite /\ Log!Ordered(x)
  BY <1>1, <1>2, <1>4, Joined DEF StagesOrdered
<1> HIDE DEF x
<1>6. y \in Seq(Recs) /\ Log!RecordsOf(y) = InFiles \cup InToWrite \cup InBuffers /\ Log!Ordered(y)
  <2>1. Below(InFiles \cup InToWrite, InBuffers)
    BY <1>1 DEF StagesOrdered, Below
  <2>2. QED
    <3>1. /\ x \in Seq(Recs) /\ buffers \in Seq(Recs)
          /\ Log!Ordered(x) /\ Log!Ordered(buffers)
          /\ Below(Log!RecordsOf(x), Log!RecordsOf(buffers))
      BY <1>1, <1>4, <1>5, <2>1
    <3>2. y \in Seq(Recs) /\ Log!RecordsOf(y) = Log!RecordsOf(x) \cup Log!RecordsOf(buffers)
          /\ Log!Ordered(y)
      BY <3>1, Joined
    <3> QED
      BY <1>4, <1>5, <3>2
<1> HIDE DEF y
<1>7. /\ Log!RecordsOf(line) = InFiles \cup InToWrite \cup InBuffers \cup InCurrent
      /\ Log!Ordered(line)
  <2>1. Below(InFiles \cup InToWrite \cup InBuffers, InCurrent)
    BY <1>1 DEF StagesOrdered, Below
  <2>2. QED
    <3>1. Log!RecordsOf(line) = Log!RecordsOf(y) \cup Log!RecordsOf(c)
      BY <1>3, <1>6, Joined
    <3>2. Below(Log!RecordsOf(y), Log!RecordsOf(c))
      BY <1>3, <1>6, <2>1
    <3>3. Log!Ordered(line)
      BY <1>3, <1>4, <1>6, <3>2, Joined
    <3> QED
      BY <1>3, <1>6, <3>1, <3>3
<1>8. Log!RecordsOf(line) \ {0} = (1..appended) \ dropped
  BY <1>1, <1>7 DEF Kept
<1>9. \A i \in 2..Len(files.files) : files.files[i - 1].second < files.files[i].second
  BY <1>1 DEF LogType, Rolled
<1>10. Log!Written = w
  BY DEF Log!Written, Contents, w
<1>11. line = Log!Written \o toWrite \o buffers \o <<currentBuffer>>
  BY <1>10 DEF x, y, c
<1> HIDE DEF line
<1> QED
  BY <1>1, <1>7, <1>8, <1>9, <1>11 DEF LogExact, Log!LogExact

(* AsyncLogging and LogFile (AsyncLogging.cpp: append(), threadFunc();        *)
(* LogFile.cpp: append_unlocked(), rollFile()): whatever the order of the     *)
(* appends, the swaps and the writes, and wherever the log is rolled, the     *)
(* files and the buffers hold each record once and in order, except dropped   *)
(* buffers, the asserts on the spare buffers hold, and no file is opened      *)
(* twice, for every size of the buffers and of the files.                     *)
THEOREM LogComplete == Log!Spec => []LogExact
<1>1. LogInv /\ [Log!Next]_logVars => LogInv'
  BY AppendRecordStep, SwapBuffersStep, DropStep, WriteBufferStep, RecycleStep, QuietSteps
     DEF Log!Next, Log!WriterStep
<1> QED
  BY <1>1, LogInit, LogLine, PTL DEF Log!Spec, Log!vars, logVars

-----------------------------------------------------------------------------
(* endiantool.  Integer i of xs is in the bytes of b behind at[i - 1], its    *)
(* most significant byte first.                                               *)
PlacedAt(at, xs, b, i) ==
    /\ at[i] = at[i - 1] + Len(xs[i])
    /\ \A j \in 1..Len(xs[i]) : b[at[i - 1] + j] = xs[i][Len(xs[i]) - j + 1]

Placed(at, xs, b) ==
    /\ at[0] = 0 /\ at[Len(xs)] = Len(b)
    /\ \A i, j \in 0..Len(xs) : i <= j => at[i] <= at[j]
    /\ \A i \in 1..Len(xs) : PlacedAt(at, xs, b, i)

Short == {x \in Seq(Bytes) : Len(x) # 8}

OrderInv ==
    /\ wire \in Seq(Bytes) /\ ints \in Seq(Short)
    /\ result[1] = result[2]
    /\ \E at \in [Nat -> Int] : Placed(at, ints, wire)

(* The bytes in the opposite order.                                           *)
LEMMA Swapped ==
  ASSUME NEW x \in Seq(Bytes)
  PROVE  /\ Order!Reverse(x) \in Seq(Bytes) /\ Len(Order!Reverse(x)) = Len(x)
         /\ \A j \in 1..Len(x) : Order!Reverse(x)[j] = x[Len(x) - j + 1]
<1>1. Order!Reverse(x) = [j \in 1..Len(x) |-> x[(Len(x) - j) + 1]] /\ Len(x) \in Nat
  BY DEF Order!Reverse
<1>2. \A j \in 1..Len(x) : (Len(x) - j) + 1 \in 1..Len(x)
  BY <1>1
<1>3. Order!Reverse(x) \in [1..Len(x) -> Bytes]
  BY <1>1, <1>2
<1>4. Order!Reverse(x) \in Seq(Bytes)
  BY <1>1, <1>3
<1>5. Len(Order!Reverse(x)) = Len(x)
  BY <1>1, <1>3, <1>4
<1> QED
  BY <1>1, <1>4, <1>5

(* Two sequences one behind the other.                                        *)
LEMMA JoinedSeqs ==
  ASSUME NEW S, NEW a \in Seq(S), NEW b \in Seq(S)
  PROVE  /\ a \o b \in Seq(S) /\ Len(a \o b) = Len(a) + Len(b)
         /\ \A j \in 1..Len(a) : (a \o b)[j] = a[j]
         /\ \A j \in 1..Len(b) : (a \o b)[Len(a) + j] = b[j]
<1>1. Len(a) \in Nat /\ Len(b) \in Nat
  OBVIOUS
<1>2. a \o b \in Seq(S) /\ Len(a \o b) = Len(a) + Len(b)
  OBVIOUS
<1>3. \A j \in 1..Len(a) : (a \o b)[j] = a[j]
  BY <1>1
<1>4. ASSUME NEW j \in 1..Len(b) PROVE (a \o b)[Len(a) + j] = b[j]
  BY <1>1
<1> QED
  BY <1>2, <1>3, <1>4

(* The first l members.                                                       *)
LEMMA Front ==
  ASSUME NEW S, NEW b \in Seq(S), NEW l \in Nat, l <= Len(b)
  PROVE  /\ SubSeq(b, 1, l) \in Seq(S) /\ Len(SubSeq(b, 1, l)) = l
         /\ \A j \in 1..l : SubSeq(b, 1, l)[j] = b[j]
<1>1. SubSeq(b, 1, l) \in Seq(S)
  OBVIOUS
<1>2. Len(SubSeq(b, 1, l)) = l
  <2>1. Len(SubSeq(b, 1, l)) = IF 1 <= l THEN (l - 1) + 1 ELSE 0
    OBVIOUS
  <2> QED
    BY <2>1
<1>3. ASSUME NEW j \in 1..l PROVE SubSeq(b, 1, l)[j] = b[j]
  <2>1. j \in 1..(l - 1) + 1 /\ (1 + j) - 1 = j
    OBVIOUS
  <2>2. SubSeq(b, 1, l)[j] = b[(1 + j) - 1]
    BY <2>1
  <2> QED
    BY <2>1, <2>2
<1> QED
  BY <1>1, <1>2, <1>3

(* What is behind the first l members.                                        *)
LEMMA Rest ==
  ASSUME NEW S, NEW b \in Seq(S), NEW l \in Nat, l <= Len(b)
  PROVE  /\ SubSeq(b, l + 1, Len(b)) \in Seq(S)
         /\ Len(SubSeq(b, l + 1, Len(b))) = Len(b) - l
         /\ \A j \in 1..Len(b) - l : SubSeq(b, l + 1, Len(b))[j] = b[l + j]
<1>1. PICK m \in Nat : m = Len(b)
  OBVIOUS
<1>2. SubSeq(b, l + 1, m) \in Seq(S)
  BY <1>1
<1>3. Len(SubSeq(b, l + 1, m)) = m - l
  <2>1. Len(SubSeq(b, l + 1, m)) = IF l + 1 <= m THEN (m - (l + 1)) + 1 ELSE 0
    OBVIOUS
  <2> QED
    BY <1>1, <2>1
<1>4. ASSUME NEW j \in 1..m - l PROVE SubSeq(b, l + 1, m)[j] = b[l + j]
  <2>1. j \in 1..(m - (l + 1)) + 1 /\ ((l + 1) + j) - 1 = l + j
    BY <1>1
  <2>2. SubSeq(b, l + 1, m)[j] = b[((l + 1) + j) - 1]
    BY <2>1
  <2> QED
    BY <2>1, <2>2
<1> QED
  BY <1>1, <1>2, <1>3, <1>4

(* A place in a block of l bytes behind p is one of the m bytes.              *)
LEMMA Inside ==
  ASSUME NEW p \in Int, NEW l \in Nat, NEW m \in Nat, NEW j \in 1..l, 0 <= p, p + l <= m
  PROVE  p + j \in 1..m
OBVIOUS

(* The integers that are put into the buffer.                                 *)
LEMMA NumbersShort ==
  ASSUME Widths \subseteq Nat \ {8}, NEW x \in Order!Numbers
  PROVE  x \in Short /\ Order!hostToNetwork(x) = Order!Reverse(x)
<1>1. PICK w \in Widths : x \in [1..w -> Bytes]
  BY DEF Order!Numbers
<1>2. w \in Nat /\ w # 8
  OBVIOUS
<1>3. x \in Seq(Bytes)
  BY <1>1, <1>2
<1>4. DOMAIN x = 1..w
  BY <1>1
<1>5. Len(x) = w
  BY <1>2, <1>3, <1>4
<1> QED
  BY <1>2, <1>3, <1>5 DEF Short, Order!hostToNetwork

(* What Placed says, with the types of its parts.                             *)
LEMMA PlacedFacts ==
  ASSUME NEW xs \in Seq(Short), NEW b \in Seq(Bytes),
         NEW at \in [Nat -> Int], Placed(at, xs, b)
  PROVE  /\ at[0] = 0 /\ at[Len(xs)] = Len(b)
         /\ \A i, j \in 0..Len(xs) : i <= j => at[i] <= at[j]
         /\ \A i \in 0..Len(xs) : 0 <= at[i] /\ at[i] <= Len(b) /\ at[i] \in Int
         /\ \A i \in 1..Len(xs) : PlacedAt(at, xs, b, i) /\ Len(xs[i]) \in Nat
<1>1. /\ at[0] = 0 /\ at[Len(xs)] = Len(b)
      /\ \A i, j \in 0..Len(xs) : i <= j => at[i] <= at[j]
      /\ \A i \in 1..Len(xs) : PlacedAt(at, xs, b, i)
  BY DEF Placed
<1>2. ASSUME NEW i \in 0..Len(xs) PROVE 0 <= at[i] /\ at[i] <= Len(b) /\ at[i] \in Int
  <2>1. /\ 0 \in 0..Len(xs) /\ Len(xs) \in 0..Len(xs) /\ 0 <= i /\ i <= Len(xs)
        /\ i \in Nat
    OBVIOUS
  <2> QED
    BY <1>1, <2>1
<1>3. ASSUME NEW i \in 1..Len(xs) PROVE Len(xs[i]) \in Nat
  BY DEF Short
<1> QED
  BY <1>1, <1>2, <1>3

(* An integer behind those in the buffer.                                     *)
LEMMA PlacedBehind ==
  ASSUME NEW x \in Short, NEW xs \in Seq(Short), NEW b \in Seq(Bytes),
         NEW at \in [Nat -> Int], Placed(at, xs, b)
  PROVE  \E bt \in [Nat -> Int] : Placed(bt, Append(xs, x), b \o Order!Reverse(x))
<1> DEFINE r == Order!Reverse(x)
           n == Len(xs)
           m == Len(b)
           ys == Append(xs, x)
           c == b \o r
           bt == [at EXCEPT ![n + 1] = m + Len(x)]
<1>1. x \in Seq(Bytes) /\ Len(x) \in Nat /\ n \in Nat /\ m \in Nat
  BY DEF Short
<1>2. r \in Seq(Bytes) /\ Len(r) = Len(x) /\ \A j \in 1..Len(x) : r[j] = x[Len(x) - j + 1]
  BY <1>1, Swapped
<1>3. /\ Len(c) = m + Len(x)
      /\ \A j \in 1..m : c[j] = b[j]
      /\ \A j \in 1..Len(x) : c[m + j] = x[Len(x) - j + 1]
  <2> HIDE DEF r
  <2> QED
    BY <1>2, JoinedSeqs
<1>4. Len(ys) = n + 1 /\ ys[n + 1] = x /\ \A i \in 1..n : ys[i] = xs[i]
  OBVIOUS
<1>5. bt \in [Nat -> Int] /\ bt[n + 1] = m + Len(x) /\ \A i \in 0..n : bt[i] = at[i]
  BY <1>1
<1>6. /\ at[0] = 0 /\ at[n] = m
      /\ \A i, j \in 0..n : i <= j => at[i] <= at[j]
      /\ \A i \in 0..n : 0 <= at[i] /\ at[i] <= m /\ at[i] \in Int
      /\ \A i \in 1..n : PlacedAt(at, xs, b, i) /\ Len(xs[i]) \in Nat
  BY PlacedFacts
<1> HIDE DEF r, n, m, ys, c, bt
<1>7. bt[0] = 0 /\ bt[n + 1] = Len(c)
  BY <1>1, <1>3, <1>5, <1>6
<1>8. ASSUME NEW i \in 0..n + 1, NEW j \in 0..n + 1, i <= j PROVE bt[i] <= bt[j]
  <2>1. CASE j = n + 1 /\ i = n + 1
    BY <1>1, <1>5, <2>1
  <2>2. CASE j = n + 1 /\ i # n + 1
    <3>1. i \in 0..n
      BY <1>1, <2>2
    <3>2. bt[i] = at[i] /\ at[i] <= m /\ at[i] \in Int /\ bt[j] = m + Len(x)
      BY <1>5, <1>6, <2>2, <3>1
    <3> QED
      BY <1>1, <3>2
  <2>3. CASE j # n + 1
    <3>1. i \in 0..n /\ j \in 0..n
      BY <1>1, <1>8, <2>3
    <3> QED
      BY <1>5, <1>6, <1>8, <3>1
  <2> QED
    BY <2>1, <2>2, <2>3
<1>9. ASSUME NEW i \in 1..n + 1 PROVE PlacedAt(bt, ys, c, i)
  <2>1. CASE i = n + 1
    <3>1. i - 1 = n /\ n \in 0..n
      BY <1>1, <2>1
    <3>2. bt[i - 1] = m /\ ys[i] = x /\ bt[i] = m + Len(x)
      BY <1>4, <1>5, <1>6, <2>1, <3>1
    <3> QED
      BY <1>3, <3>2 DEF PlacedAt
  <2>2. CASE i # n + 1
    <3>1. i \in 1..n /\ i - 1 \in 0..n /\ i \in 0..n
      BY <1>1, <2>2
    <3>2. bt[i] = at[i] /\ bt[i - 1] = at[i - 1] /\ ys[i] = xs[i]
      BY <1>4, <1>5, <3>1
    <3>3. /\ at[i] = at[i - 1] + Len(xs[i]) /\ Len(xs[i]) \in Nat
          /\ \A j \in 1..Len(xs[i]) : b[at[i - 1] + j] = xs[i][Len(xs[i]) - j + 1]
      BY <1>6, <3>1 DEF PlacedAt
    <3>4. 0 <= at[i - 1] /\ at[i - 1] \in Int /\ at[i] <= m
      BY <1>6, <3>1
    <3>5. ASSUME NEW j \in 1..Len(xs[i]) PROVE c[at[i - 1] + j] = b[at[i - 1] + j]
      <4>1. at[i - 1] + j \in 1..m
        BY <1>1, <3>3, <3>4, Inside
      <4> QED
        BY <1>3, <4>1
    <3> QED
      BY <3>2, <3>3, <3>5 DEF PlacedAt
  <2> QED
    BY <2>1, <2>2
<1>10. Placed(bt, ys, c)
  BY <1>4, <1>7, <1>8, <1>9 DEF Placed
<1> QED
  BY <1>5, <1>10 DEF ys, c, r

(* An integer before those in the buffer.                                     *)
LEMMA PlacedBefore ==
  ASSUME NEW x \in Short, NEW xs \in Seq(Short), NEW b \in Seq(Bytes),
         NEW at \in [Nat -> Int], Placed(at, xs, b)
  PROVE  \E bt \in [Nat -> Int] : Placed(bt, <<x>> \o xs, Order!Reverse(x) \o b)
<1> DEFINE r == Order!Reverse(x)
           n == Len(xs)
           m == Len(b)
           l == Len(x)
           ys == <<x>> \o xs
           c == r \o b
           bt == [i \in Nat |-> IF i = 0 THEN 0 ELSE at[i - 1] + l]
<1>1. x \in Seq(Bytes) /\ l \in Nat /\ n \in Nat /\ m \in Nat
  BY DEF Short
<1>2. r \in Seq(Bytes) /\ Len(r) = l /\ \A j \in 1..l : r[j] = x[Len(x) - j + 1]
  BY <1>1, Swapped
<1>3. /\ Len(c) = l + m
      /\ \A j \in 1..l : c[j] = x[Len(x) - j + 1]
      /\ \A j \in 1..m : c[l + j] = b[j]
  <2> HIDE DEF r, l
  <2>1. r \in Seq(Bytes) /\ b \in Seq(Bytes)
    BY <1>2
  <2>2. /\ Len(c) = Len(r) + m
        /\ \A j \in 1..Len(r) : c[j] = r[j]
        /\ \A j \in 1..m : c[Len(r) + j] = b[j]
    BY <2>1, JoinedSeqs
  <2> HIDE DEF c, m
  <2> QED
    BY <1>2, <2>2
<1>4. Len(ys) = n + 1 /\ ys[1] = x /\ \A i \in 1..n : ys[1 + i] = xs[i]
  <2>1. <<x>> \in Seq(Short) /\ Len(<<x>>) = 1 /\ <<x>>[1] = x
    OBVIOUS
  <2> QED
    BY <1>1, <2>1, JoinedSeqs
<1>5. bt \in [Nat -> Int] /\ bt[0] = 0 /\ \A i \in 1..n + 1 : bt[i] = at[i - 1] + l
  BY <1>1
<1>6. /\ at[0] = 0 /\ at[n] = m
      /\ \A i, j \in 0..n : i <= j => at[i] <= at[j]
      /\ \A i \in 0..n : 0 <= at[i] /\ at[i] <= m /\ at[i] \in Int
      /\ \A i \in 1..n : PlacedAt(at, xs, b, i) /\ Len(xs[i]) \in Nat
  BY PlacedFacts
<1> HIDE DEF r, n, m, l, ys, c, bt
<1>7. bt[0] = 0 /\ bt[n + 1] = Len(c)
  <2>1. n + 1 \in 1..n + 1 /\ (n + 1) - 1 = n
    BY <1>1
  <2> QED
    BY <1>1, <1>3, <1>5, <1>6, <2>1
<1>8. ASSUME NEW i \in 0..n + 1, NEW j \in 0..n + 1, i <= j PROVE bt[i] <= bt[j]
  <2>1. CASE i = 0 /\ j = 0
    BY <1>5, <2>1
  <2>2. CASE i = 0 /\ j # 0
    <3>1. j \in 1..n + 1 /\ j - 1 \in 0..n
      BY <1>1, <2>2
    <3> DEFINE q == at[j - 1]
    <3>2. bt[j] = q + l /\ 0 <= q /\ q \in Int /\ bt[i] = 0
      BY <1>5, <1>6, <2>2, <3>1
    <3> HIDE DEF q
    <3> QED
      BY <1>1, <3>2
  <2>3. CASE i # 0
    <3>1. /\ i \in 1..n + 1 /\ i - 1 \in 0..n /\ j \in 1..n + 1 /\ j - 1 \in 0..n
          /\ i - 1 <= j - 1
      BY <1>1, <1>8, <2>3
    <3> DEFINE q == at[i - 1]
               z == at[j - 1]
    <3>2. bt[i] = q + l /\ bt[j] = z + l /\ q \in Int /\ z \in Int /\ q <= z
      BY <1>5, <1>6, <3>1
    <3> HIDE DEF q, z
    <3> QED
      BY <1>1, <3>2
  <2> QED
    BY <2>1, <2>2, <2>3
<1>9. ASSUME NEW i \in 1..n + 1 PROVE PlacedAt(bt, ys, c, i)
  <2>1. CASE i = 1
    <3>1. bt[i - 1] = 0 /\ ys[i] = x
      BY <1>4, <1>5, <2>1
    <3>2. bt[i] = 0 + l
      BY <1>5, <1>6, <2>1
    <3>3. ASSUME NEW j \in 1..l PROVE c[0 + j] = x[Len(x) - j + 1]
      <4>1. 0 + j = j
        BY <1>1
      <4> QED
        BY <1>3, <4>1
    <3>4. bt[i] = bt[i - 1] + Len(ys[i])
      BY <3>1, <3>2 DEF l
    <3> QED
      BY <3>1, <3>3, <3>4 DEF PlacedAt, l
  <2>2. CASE i # 1
    <3> DEFINE k == i - 1
    <3>1. k \in 1..n /\ k \in 1..n + 1 /\ k \in 0..n /\ k - 1 \in 0..n /\ i = 1 + k
      BY <1>1, <2>2
    <3> HIDE DEF k
    <3> DEFINE q == at[k - 1]
    <3>2. bt[i] = at[k] + l /\ bt[i - 1] = q + l /\ ys[i] = xs[k]
      BY <1>4, <1>5, <3>1 DEF k
    <3>3. /\ at[k] = q + Len(xs[k]) /\ Len(xs[k]) \in Nat
          /\ \A j \in 1..Len(xs[k]) : b[q + j] = xs[k][Len(xs[k]) - j + 1]
      BY <1>6, <3>1 DEF PlacedAt
    <3>4. 0 <= q /\ q \in Int /\ at[k] <= m
      BY <1>6, <3>1
    <3> HIDE DEF q
    <3>5. ASSUME NEW j \in 1..Len(xs[k]) PROVE c[bt[i - 1] + j] = b[q + j]
      <4>1. q + j \in 1..m
        BY <1>1, <3>3, <3>4, Inside
      <4>2. bt[i - 1] + j = l + (q + j)
        BY <1>1, <3>2, <3>4
      <4> QED
        BY <1>3, <4>1, <4>2
    <3>6. bt[i] = bt[i - 1] + Len(xs[k])
      <4> DEFINE z == Len(xs[k])
      <4>1. bt[i] = (q + z) + l /\ z \in Nat
        BY <3>2, <3>3
      <4> HIDE DEF z
      <4>2. bt[i] = bt[i - 1] + z
        BY <1>1, <3>2, <3>4, <4>1
      <4> QED
        BY <4>2 DEF z
    <3> QED
      BY <3>2, <3>3, <3>5, <3>6 DEF PlacedAt
  <2> QED
    BY <2>1, <2>2
<1>10. Placed(bt, ys, c)
  BY <1>4, <1>7, <1>8, <1>9 DEF Placed
<1> QED
  BY <1>5, <1>10 DEF ys, c, r

(* The integer at the front of the buffer is taken.                           *)
LEMMA PlacedAfterRead ==
  ASSUME NEW xs \in Seq(Short), xs # <<>>, NEW b \in Seq(Bytes),
         NEW at \in [Nat -> Int], Placed(at, xs, b)
  PROVE  /\ SubSeq(b, 1, Len(Head(xs))) \in Seq(Bytes)
         /\ Len(SubSeq(b, 1, Len(Head(xs)))) = Len(Head(xs))
         /\ Order!Reverse(SubSeq(b, 1, Len(Head(xs)))) = Head(xs)
         /\ SubSeq(b, Len(Head(xs)) + 1, Len(b)) \in Seq(Bytes)
         /\ \E bt \in [Nat -> Int] :
              Placed(bt, Tail(xs), SubSeq(b, Len(Head(xs)) + 1, Len(b)))
<1> DEFINE x == Head(xs)
           n == Len(xs)
           m == Len(b)
           l == Len(x)
           ys == Tail(xs)
           p == SubSeq(b, 1, l)
           c == SubSeq(b, l + 1, m)
           bt == [i \in Nat |-> at[i + 1] - l]
<1>1. x = xs[1] /\ x \in Short /\ n \in Nat /\ 1 <= n /\ m \in Nat
  OBVIOUS
<1>2. x \in Seq(Bytes) /\ l \in Nat
  <2> HIDE DEF x
  <2> QED
    BY <1>1 DEF Short
<1>3. Len(ys) = n - 1 /\ \A i \in 1..n - 1 : ys[i] = xs[i + 1]
  BY <1>1
<1>4. bt \in [Nat -> Int] /\ \A i \in 0..n - 1 : bt[i] = at[i + 1] - l
  BY <1>1, <1>2
<1>5. /\ at[0] = 0 /\ at[n] = m
      /\ \A i, j \in 0..n : i <= j => at[i] <= at[j]
      /\ \A i \in 0..n : 0 <= at[i] /\ at[i] <= m /\ at[i] \in Int
      /\ \A i \in 1..n : PlacedAt(at, xs, b, i) /\ Len(xs[i]) \in Nat
  BY PlacedFacts
<1> HIDE DEF x, n, m, l, ys, bt
<1>6. 1 \in 1..n /\ 1 - 1 = 0 /\ 1 \in 0..n
  BY <1>1
<1>7. at[1] = l /\ l <= m /\ \A j \in 1..l : b[j] = x[Len(x) - j + 1]
  <2>1. PlacedAt(at, xs, b, 1)
    BY <1>5, <1>6
  <2>2. /\ at[1] = at[1 - 1] + Len(xs[1])
        /\ \A j \in 1..Len(xs[1]) : b[at[1 - 1] + j] = xs[1][Len(xs[1]) - j + 1]
    BY <2>1 DEF PlacedAt
  <2>3. at[1] = 0 + l /\ \A j \in 1..l : b[0 + j] = x[Len(x) - j + 1]
    BY <1>1, <1>5, <1>6, <2>2 DEF l
  <2>4. at[1] = l /\ at[1] <= m
    BY <1>2, <1>5, <1>6, <2>3
  <2>5. ASSUME NEW j \in 1..l PROVE b[j] = x[Len(x) - j + 1]
    <3>1. 0 + j = j
      BY <1>2
    <3> QED
      BY <2>3, <3>1
  <2> QED
    BY <2>4, <2>5
<1>8. /\ p \in Seq(Bytes) /\ Len(p) = l
      /\ \A j \in 1..l : p[j] = b[j]
  BY <1>2, <1>7, Front DEF m
<1>9. /\ c \in Seq(Bytes) /\ Len(c) = m - l
      /\ \A j \in 1..m - l : c[j] = b[l + j]
  BY <1>2, <1>7, Rest DEF m
<1> HIDE DEF p, c
<1>10. Order!Reverse(p) = x
  <2> DEFINE r == Order!Reverse(p)
  <2>1. r \in Seq(Bytes) /\ Len(r) = l /\ \A j \in 1..l : r[j] = p[l - j + 1]
    BY <1>8, Swapped
  <2> HIDE DEF r
  <2>2. ASSUME NEW j \in 1..l PROVE r[j] = x[j]
    <3>1. l - j + 1 \in 1..l /\ l - (l - j + 1) + 1 = j
      BY <1>2
    <3>2. b[l - j + 1] = x[l - (l - j + 1) + 1]
      BY <1>7, <3>1 DEF l
    <3> QED
      BY <1>8, <2>1, <3>1, <3>2
  <2>3. r \in [1..l -> Bytes] /\ x \in [1..l -> Bytes]
    BY <1>2, <2>1 DEF l
  <2>4. r = [j \in 1..l |-> r[j]] /\ x = [j \in 1..l |-> x[j]]
    BY <2>3
  <2>5. [j \in 1..l |-> r[j]] = [j \in 1..l |-> x[j]]
    BY <2>2
  <2> QED
    BY <2>4, <2>5 DEF r
<1>11. bt[0] = 0 /\ bt[n - 1] = Len(c)
  <2>1. 0 \in 0..n - 1 /\ n - 1 \in 0..n - 1 /\ (n - 1) + 1 = n /\ 0 + 1 = 1
    BY <1>1
  <2>2. bt[0] = l - l /\ bt[n - 1] = m - l
    BY <1>4, <1>5, <1>7, <2>1
  <2> QED
    BY <1>2, <1>9, <2>2
<1>12. ASSUME NEW i \in 0..n - 1, NEW j \in 0..n - 1, i <= j PROVE bt[i] <= bt[j]
  <2>1. i + 1 \in 0..n /\ j + 1 \in 0..n /\ i + 1 <= j + 1
    BY <1>1, <1>12
  <2>2. /\ bt[i] = at[i + 1] - l /\ bt[j] = at[j + 1] - l
        /\ at[i + 1] \in Int /\ at[j + 1] \in Int /\ at[i + 1] <= at[j + 1]
    BY <1>4, <1>5, <2>1
  <2> QED
    BY <1>2, <2>2
<1>13. ASSUME NEW i \in 1..n - 1 PROVE PlacedAt(bt, ys, c, i)
  <2> DEFINE k == i + 1
  <2>1. /\ k \in 1..n /\ k \in 0..n /\ k - 1 = i /\ i \in 1..n - 1
        /\ i \in 0..n - 1 /\ i - 1 \in 0..n - 1 /\ (i - 1) + 1 = i /\ i \in 0..n /\ 1 <= i
    BY <1>1
  <2> DEFINE q == bt[i - 1]
             z == Len(xs[k])
  <2>2. bt[i] = at[k] - l /\ q = at[i] - l /\ ys[i] = xs[k]
    BY <1>3, <1>4, <2>1
  <2>3. /\ at[k] = at[i] + z /\ z \in Nat
        /\ \A j \in 1..z : b[at[i] + j] = xs[k][Len(xs[k]) - j + 1]
    BY <1>5, <2>1 DEF PlacedAt
  <2>4. at[i] \in Int /\ l <= at[i] /\ at[k] <= m
    BY <1>5, <1>6, <1>7, <2>1
  <2> HIDE DEF k, q, z
  <2>5. ASSUME NEW j \in 1..z PROVE c[q + j] = b[at[i] + j]
    <3>1. q \in Int /\ 0 <= q /\ m - l \in Nat /\ q + z <= m - l
      <4> DEFINE y == at[i]
      <4>1. /\ q = y - l /\ y \in Int /\ l <= y /\ y + z <= m /\ z \in Nat
            /\ m \in Nat /\ l \in Nat
        BY <1>1, <1>2, <2>2, <2>3, <2>4
      <4> HIDE DEF y
      <4> QED
        BY <4>1
    <3>2. q + j \in 1..m - l
      BY <2>3, <3>1, Inside
    <3>3. l + (q + j) = at[i] + j
      BY <1>2, <2>2, <2>4
    <3> QED
      BY <1>9, <3>2, <3>3
  <2>6. bt[i] = q + z
    BY <1>2, <2>2, <2>3, <2>4
  <2> QED
    BY <2>2, <2>3, <2>5, <2>6 DEF PlacedAt, q, z
<1>14. Placed(bt, ys, c)
  BY <1>3, <1>11, <1>12, <1>13 DEF Placed
<1> QED
  BY <1>4, <1>8, <1>9, <1>10, <1>14 DEF ys, c, p, l, x, m

(* appendInt32() and prependInt32(), 16 and 8: the integer is in the buffer,  *)
(* behind or before the others.                                               *)
LEMMA PutIntStep ==
  ASSUME Widths \subseteq Nat \ {8}, OrderInv, NEW x \in Order!Numbers,
         Order!AppendInt(x) \/ Order!PrependInt(x)
  PROVE  OrderInv'
<1> DEFINE r == Order!Reverse(x)
<1>1. PICK at \in [Nat -> Int] : Placed(at, ints, wire)
  BY DEF OrderInv
<1>2. x \in Short /\ Order!hostToNetwork(x) = r /\ r \in Seq(Bytes)
  BY NumbersShort, Swapped DEF Short
<1>3. wire \in Seq(Bytes) /\ ints \in Seq(Short) /\ result[1] = result[2]
  BY DEF OrderInv
<1>4. CASE Order!AppendInt(x)
  <2> DEFINE c  == wire \o r
             ys == Append(ints, x)
  <2>1. wire' = c /\ ints' = ys /\ result' = result
    BY <1>2, <1>4 DEF Order!AppendInt
  <2>2. \E bt \in [Nat -> Int] : Placed(bt, ys, c)
    BY <1>1, <1>2, <1>3, PlacedBehind
  <2> HIDE DEF r
  <2>3. c \in Seq(Bytes) /\ ys \in Seq(Short)
    BY <1>2, <1>3
  <2> HIDE DEF c, ys
  <2>4. wire' \in Seq(Bytes) /\ ints' \in Seq(Short) /\ result'[1] = result'[2]
    BY <1>3, <2>1, <2>3
  <2>5. \E bt \in [Nat -> Int] : Placed(bt, ints', wire')
    BY <2>1, <2>2
  <2> QED
    BY <2>4, <2>5 DEF OrderInv, Placed, PlacedAt
<1>5. CASE Order!PrependInt(x)
  <2> DEFINE c  == r \o wire
             ys == <<x>> \o ints
  <2>1. wire' = c /\ ints' = ys /\ result' = result
    BY <1>2, <1>5 DEF Order!PrependInt
  <2>2. \E bt \in [Nat -> Int] : Placed(bt, ys, c)
    BY <1>1, <1>2, <1>3, PlacedBefore
  <2> HIDE DEF r
  <2>3. c \in Seq(Bytes) /\ ys \in Seq(Short)
    BY <1>2, <1>3
  <2> HIDE DEF c, ys
  <2>4. wire' \in Seq(Bytes) /\ ints' \in Seq(Short) /\ result'[1] = result'[2]
    BY <1>3, <2>1, <2>3
  <2>5. \E bt \in [Nat -> Int] : Placed(bt, ints', wire')
    BY <2>1, <2>2
  <2> QED
    BY <2>4, <2>5 DEF OrderInv, Placed, PlacedAt
<1> QED
  BY <1>4, <1>5

(* readInt32(), 16 and 8: what is read is the integer that was put there.     *)
LEMMA ReadIntStep ==
  ASSUME OrderInv, Order!ReadInt
  PROVE  OrderInv'
<1> DEFINE x == Head(ints)
           p == SubSeq(wire, 1, Len(x))
           c == SubSeq(wire, Len(x) + 1, Len(wire))
<1>1. PICK at \in [Nat -> Int] : Placed(at, ints, wire)
  BY DEF OrderInv
<1>2. wire \in Seq(Bytes) /\ ints \in Seq(Short) /\ ints # <<>>
  BY DEF OrderInv, Order!ReadInt
<1>3. /\ p \in Seq(Bytes) /\ Len(p) = Len(x) /\ Order!Reverse(p) = x /\ c \in Seq(Bytes)
      /\ \E bt \in [Nat -> Int] : Placed(bt, Tail(ints), c)
  BY <1>1, <1>2, PlacedAfterRead
<1>4. Len(x) # 8 /\ Tail(ints) \in Seq(Short)
  BY <1>2 DEF Short
<1>5. result' = <<Order!networkToHost(p), x>> /\ wire' = c /\ ints' = Tail(ints)
  BY DEF Order!ReadInt, Order!peekInt
<1> HIDE DEF p, c, x
<1>6. result'[1] = result'[2]
  BY <1>3, <1>4, <1>5 DEF Order!networkToHost
<1> QED
  BY <1>3, <1>4, <1>5, <1>6 DEF OrderInv, Placed, PlacedAt

(* Every integer of 8, 16 or 32 bits that is put into a buffer with           *)
(* appendInt() or prependInt() is the one readInt() returns, and lies there   *)
(* in network byte order, whatever is put before and behind it.  The wrong    *)
(* order the run ByteOrder_int64 finds is confined to 64 bits.                *)
THEOREM IntsRead ==
  Widths \subseteq Nat \ {8} =>
    (Order!Spec => [](/\ result[1] = result[2]
                      /\ \E at \in [Nat -> Int] : Placed(at, ints, wire)))
<1> SUFFICES ASSUME Widths \subseteq Nat \ {8}
             PROVE  Order!Spec => [](/\ result[1] = result[2]
                                     /\ \E at \in [Nat -> Int] : Placed(at, ints, wire))
  OBVIOUS
<1>1. ASSUME Order!Init PROVE OrderInv
  <2> DEFINE at == [i \in Nat |-> 0]
  <2>1. at \in [Nat -> Int] /\ at[0] = 0
    OBVIOUS
  <2>2. wire = <<>> /\ ints = <<>> /\ result[1] = result[2]
    BY <1>1 DEF Order!Init
  <2>3. wire \in Seq(Bytes) /\ ints \in Seq(Short) /\ Len(wire) = 0 /\ Len(ints) = 0
    BY <2>2
  <2>4. Placed(at, ints, wire)
    BY <2>1, <2>3 DEF Placed
  <2> QED
    BY <2>1, <2>2, <2>3, <2>4 DEF OrderInv
<1>2. ASSUME OrderInv, [Order!Next]_Order!vars PROVE OrderInv'
  <2>1. CASE Order!ReadInt
    BY <1>2, <2>1, ReadIntStep
  <2>2. CASE \E x \in Order!Numbers : Order!AppendInt(x) \/ Order!PrependInt(x)
    BY <1>2, <2>2, PutIntStep
  <2>3. CASE UNCHANGED Order!vars
    BY <1>2, <2>3 DEF Order!vars, OrderInv, Placed, PlacedAt
  <2> QED
    BY <1>2, <2>1, <2>2, <2>3 DEF Order!Next
<1>3. OrderInv => /\ result[1] = result[2]
                  /\ \E at \in [Nat -> Int] : Placed(at, ints, wire)
  BY DEF OrderInv
<1> QED
  BY <1>1, <1>2, <1>3, PTL DEF Order!Spec
=============================================================================
