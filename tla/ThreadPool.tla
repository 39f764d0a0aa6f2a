----------------------------- MODULE ThreadPool -----------------------------
(***************************************************************************)
(* ThreadPool: a bounded task queue under one mutex with two condition     *)
(* variables.  Init is the pool after start().  What a thread does between *)
(* lock and unlock is one step, a wait() ends one and begins another; a    *)
(* condition variable is the set of threads that wait on it, and wakes     *)
(* them in any order and also without cause.                               *)
(***************************************************************************)
EXTENDS Integers, Sequences, FiniteSets

CONSTANTS Workers, Producers,
          MaxQueueSize,      \* maxQueueSize_, at least 1
          MaxTasks           \* run() calls of each producer

VARIABLES
    running,    \* running_
    queue,      \* queue_: tasks <<producer, number>>
    worker,     \* where each pool thread is
    producer,   \* where each thread that calls run() is
    calls,      \* run() calls each producer has begun
    executed,   \* tasks in the order in which they were taken
    stopper     \* the thread that calls stop()

vars == <<running, queue, worker, producer, calls, executed, stopper>>

Init ==
    /\ running = TRUE /\ queue = <<>>
    /\ worker = [w \in Workers |-> "testing"]
    /\ producer = [p \in Producers |-> "idle"]
    /\ calls = [p \in Producers |-> 0]
    /\ executed = <<>>
    /\ stopper = "idle"

isFull == Len(queue) >= MaxQueueSize

(* condition_var_t::notify(): one of the waiting threads goes on to where  *)
(* it tests its condition again.                                           *)
Notify(f, back) ==
    IF \E t \in DOMAIN f : f[t] = "waiting"
    THEN {[f EXCEPT ![t] = back] : t \in {u \in DOMAIN f : f[u] = "waiting"}}
    ELSE {f}

NotifyAll(f, back) == [t \in DOMAIN f |-> IF f[t] = "waiting" THEN back ELSE f[t]]

-----------------------------------------------------------------------------
(* run(). *)
BeginRun(p) ==
    /\ producer[p] = "idle" /\ calls[p] < MaxTasks
    /\ producer' = [producer EXCEPT ![p] = "entering"]
    /\ calls' = [calls EXCEPT ![p] = @ + 1]
    /\ UNCHANGED <<running, queue, worker, executed, stopper>>

(* Mutant: the task is pushed without notify(). *)
RunSilent(p) ==
    /\ producer[p] = "entering"
    /\ IF isFull
       THEN /\ producer' = [producer EXCEPT ![p] = "waiting"]
            /\ UNCHANGED <<queue, worker>>
       ELSE /\ queue' = Append(queue, <<p, calls[p]>>)
            /\ producer' = [producer EXCEPT ![p] = "idle"]
            /\ UNCHANGED worker
    /\ UNCHANGED <<running, calls, executed, stopper>>

Run(p) ==
    /\ producer[p] = "entering"
    /\ IF isFull
       THEN /\ producer' = [producer EXCEPT ![p] = "waiting"]
            /\ UNCHANGED <<queue, worker>>
       ELSE /\ queue' = Append(queue, <<p, calls[p]>>)
            /\ producer' = [producer EXCEPT ![p] = "idle"]
            /\ worker' \in Notify(worker, "taking")
    /\ UNCHANGED <<running, calls, executed, stopper>>

-----------------------------------------------------------------------------
(* runInThread(): running_ is read without the lock. *)
TestRunning(w) ==
    /\ worker[w] = "testing"
    /\ worker' = [worker EXCEPT ![w] = IF running THEN "taking" ELSE "returned"]
    /\ UNCHANGED <<running, queue, producer, calls, executed, stopper>>

Take(w) ==
    /\ worker[w] = "taking"
    /\ IF queue = <<>> /\ running
       THEN /\ worker' = [worker EXCEPT ![w] = "waiting"]
            /\ UNCHANGED <<queue, producer, executed>>
       ELSE IF queue = <<>>
       THEN /\ worker' = [worker EXCEPT ![w] = "testing"]
            /\ UNCHANGED <<queue, producer, executed>>
       ELSE /\ worker' = [worker EXCEPT ![w] = "working"]
            /\ queue' = Tail(queue)
            /\ executed' = Append(executed, Head(queue))
            /\ producer' \in Notify(producer, "entering")
    /\ UNCHANGED <<running, calls, stopper>>

TaskDone(w) ==
    /\ worker[w] = "working"
    /\ worker' = [worker EXCEPT ![w] = "testing"]
    /\ UNCHANGED <<running, queue, producer, calls, executed, stopper>>

(* wait() may return without a notify(). *)
Spurious ==
    /\ \/ \E w \in Workers :
            /\ worker[w] = "waiting"
            /\ worker' = [worker EXCEPT ![w] = "taking"] /\ UNCHANGED producer
       \/ \E p \in Producers :
            /\ producer[p] = "waiting"
            /\ producer' = [producer EXCEPT ![p] = "entering"] /\ UNCHANGED worker
    /\ UNCHANGED <<running, queue, calls, executed, stopper>>

-----------------------------------------------------------------------------
(* stop(). *)
Stop ==
    /\ stopper = "idle"
    /\ running' = FALSE
    /\ worker' = NotifyAll(worker, "taking")
    /\ stopper' = "joining"
    /\ UNCHANGED <<queue, producer, calls, executed>>

Join ==
    /\ stopper = "joining" /\ \A w \in Workers : worker[w] = "returned"
    /\ stopper' = "stopped"
    /\ UNCHANGED <<running, queue, worker, producer, calls, executed>>

-----------------------------------------------------------------------------
WorkerStep(w) == TestRunning(w) \/ Take(w) \/ TaskDone(w)

Next ==
    \/ \E p \in Producers : BeginRun(p) \/ Run(p)
    \/ \E w \in Workers : WorkerStep(w)
    \/ Spurious \/ Stop \/ Join

Spec == Init /\ [][Next]_vars

(* Threads that can run do run; nobody has to call run() or stop(), and no *)
(* wait() has to end without a notify().                                   *)
Fairness ==
    /\ \A w \in Workers : WF_vars(WorkerStep(w))
    /\ \A p \in Producers : WF_vars(Run(p))
    /\ WF_vars(Join)

-----------------------------------------------------------------------------
(* While the pool runs no notify() is missed: every task that was queued is *)
(* taken, every run() that waits for room returns, and stop() joins all     *)
(* threads.  (A run() still waiting when stop() is called is not released.) *)
PoolProgress ==
    /\ \A p \in Producers :
        producer[p] # "idle" ~> (producer[p] = "idle" \/ ~running)
    /\ queue # <<>> ~> (queue = <<>> \/ ~running)
    /\ stopper = "joining" ~> stopper = "stopped"

(* Each thread's tasks are taken once and in the order of its run() calls,  *)
(* however its waits for room interleave with those of others.              *)
TakenInOrder ==
    \A i, j \in DOMAIN executed :
        i < j /\ executed[i][1] = executed[j][1] => executed[i][2] < executed[j][2]

(* Nobody waits for everybody: while there are tasks a pool thread is awake, *)
(* while a run() waits for room there are tasks or another run() is about to *)
(* queue one, and no pool thread waits once stop() has begun.                *)
NobodyStuck ==
    /\ queue # <<>> => \E w \in Workers : worker[w] # "waiting"
    /\ (\E p \in Producers : producer[p] = "waiting") =>
         queue # <<>> \/ \E q \in Producers : producer[q] = "entering"
    /\ ~running => \A w \in Workers : worker[w] # "waiting"
=============================================================================
