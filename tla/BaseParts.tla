------------------------------ MODULE BaseParts ------------------------------
(* The threads and shared structures of base/ side by side: ThreadPool,       *)
(* AsyncLogging, YQueue, FastMutex and Sockets.  They do not interact.        *)
EXTENDS Integers, Sequences, FiniteSets

CONSTANTS Workers, Producers, MaxQueueSize, MaxTasks,       \* ThreadPool
          BufferSize, DropAbove, MaxRecords, MaxTime,       \* AsyncLogging
          RollSize, RollPerSeconds, CheckEveryN, FlushInterval,
          N, Chunk, Null, MaxItems,                         \* YQueue
          Threads,                                          \* FastMutex
          MaxPairs                                          \* Sockets

(* The pool has threads and bounds its queue; two buffers are kept when the   *)
(* others are dropped; a chunk has an element, and one can be allocated.      *)
ASSUME BasePartsAssumption ==
    /\ Workers # {} /\ MaxQueueSize \in Nat \ {0}
    /\ DropAbove \in Nat \ {0, 1} /\ RollPerSeconds \in Nat \ {0}
    /\ RollSize \in Nat /\ CheckEveryN \in Nat /\ FlushInterval \in Nat
    /\ N \in Nat \ {0} /\ Chunk # {} /\ Null \notin Chunk

VARIABLES
    running, queue, worker, producer, calls, executed, stopper,
    logRunning, latch, caller, currentBuffer, buffers, toWrite, nextBuffer,
    newBuffer1, newBuffer2, writer, files, now, appended, dropped, logFault,
    heap, values, prev, nxt, beginChunk, beginPos, backChunk, backPos,
    endChunk, endPos, spare, wpc, wreg, rpc, rreg, pushed, published, popped,
    queueFault,
    mLock, pc, oldLock,
    step, open, backlog, peer, pairCalls

Pool    == INSTANCE ThreadPool
Log     == INSTANCE AsyncLogging WITH running <- logRunning, output <- files, fault <- logFault
Queue   == INSTANCE YQueue WITH fault <- queueFault
Mutex   == INSTANCE FastMutex
Pair    == INSTANCE Sockets WITH queue <- backlog, calls <- pairCalls

poolVars == <<running, queue, worker, producer, calls, executed, stopper>>
logVars == <<logRunning, latch, caller, currentBuffer, buffers, toWrite,
             nextBuffer, newBuffer1, newBuffer2, writer, files, now, appended,
             dropped, logFault>>
queueVars == <<heap, values, prev, nxt, beginChunk, beginPos, backChunk,
               backPos, endChunk, endPos, spare, wpc, wreg, rpc, rreg, pushed,
               published, popped, queueFault>>
mutexVars == <<mLock, pc, oldLock>>
pairVars == <<step, open, backlog, peer, pairCalls>>

-----------------------------------------------------------------------------
(* ThreadPool: each thread's tasks are taken once and in order. *)
TakenInOrder == Pool!TakenInOrder

(* ThreadPool: no set of threads waits on one another.                        *)
NobodyStuck == Pool!NobodyStuck

(* AsyncLogging and LogFile: the files hold what was appended, in order. *)
LogExact == Log!LogExact

(* yqueue: items come out once and in order, and no chunk is used after it    *)
(* was freed, freed twice, or lost.                                           *)
QueueSafe == Queue!QueueSafe /\ Queue!NoChunkLeaks

(* fast_mutex: at most one thread is between lock() and unlock(). *)
MutualExclusion == Mutex!MutualExclusion

(* socketpair(): no socket is left open on any error path. *)
PairClean == Pair!PairClean
=============================================================================
