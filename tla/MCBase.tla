------------------------------- MODULE MCBase -------------------------------
(* TLC instance of Buffer and of the threads and shared structures of base/   *)
(* and util/.  They do not interact: a behaviour is one of Buffer,            *)
(* ThreadPool, AsyncLogging, YQueue, FastMutex or Sockets, chosen by part,    *)
(* and the others keep their initial state.                                   *)
EXTENDS Buffer, BaseParts

VARIABLES part

baseVars == <<part, vars, poolVars, logVars, queueVars, mutexVars, pairVars>>

BaseInit ==
    /\ part \in {"buffer", "pool", "log", "queue", "mutex", "pair"}
    /\ Init
    /\ Pool!Init /\ Log!Init /\ Queue!Init /\ Mutex!Init /\ Pair!Init

BaseNext ==
    \/ /\ part = "buffer" /\ Next
       /\ UNCHANGED <<part, poolVars, logVars, queueVars, mutexVars, pairVars>>
    \/ /\ part = "pool" /\ Pool!Next
       /\ UNCHANGED <<part, vars, logVars, queueVars, mutexVars, pairVars>>
    \/ /\ part = "log" /\ Log!Next
       /\ UNCHANGED <<part, vars, poolVars, queueVars, mutexVars, pairVars>>
    \/ /\ part = "queue" /\ Queue!Next
       /\ UNCHANGED <<part, vars, poolVars, logVars, mutexVars, pairVars>>
    \/ /\ part = "mutex" /\ Mutex!Next
       /\ UNCHANGED <<part, vars, poolVars, logVars, queueVars, pairVars>>
    \/ /\ part = "pair" /\ Pair!Next
       /\ UNCHANGED <<part, vars, poolVars, logVars, queueVars, mutexVars>>

BaseSpec ==
    /\ BaseInit /\ [][BaseNext]_baseVars
    /\ IF part = "pool" THEN Pool!Fairness ELSE part = "log" => Log!Fairness

-----------------------------------------------------------------------------
(* ThreadPool: no notify() is missed, nobody waits for everybody, and each    *)
(* thread's tasks are taken once and in order.                                *)
PoolProgress == part = "pool" => Pool!PoolProgress /\ []TakenInOrder /\ []NobodyStuck

(* AsyncLogging: what is appended before the last swap is flushed, also when  *)
(* stop() is called, and stop() returns; what comes after it is left behind.  *)
FlushedInTime == part = "log" => Log!FlushedInTime
=============================================================================
