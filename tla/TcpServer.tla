------------------------------ MODULE TcpServer ------------------------------
(***************************************************************************)
(* TcpServer with its Acceptor and its EventLoopThreadPool, from start()   *)
(* to the end of ~TcpServer.  The main thread owns the base loop: it       *)
(* starts the pool threads one after the other, accepts connections and    *)
(* hands each to a pool loop, removes the closed ones, and at last         *)
(* destroys the server, which stops and joins the pool.  What happens      *)
(* inside one connection is TcpConnection's; what happens inside one loop  *)
(* is EventLoop's: here a loop is its queue, its quit_ and its thread.     *)
(***************************************************************************)
EXTENDS Integers, Sequences, FiniteSets

CONSTANTS NumThreads,   \* setThreadNum(): at least one pool thread here
          Conns         \* the connections that may arrive

Threads == 1..NumThreads

VARIABLES
    main,         \* where the main thread is
    k,            \* the pool thread it starts or stops
    thread,       \* where each pool thread is
    loopPtr,      \* EventLoopThread::loop_ is not NULL
    quit,         \* EventLoop::quit_
    pending,      \* EventLoop::pendingFunctors_ of each pool loop, the current
                  \* batch first
    calling,      \* functors of the current batch still to be called
    basePending,  \* connections whose removeConnectionInLoop is queued
    listenning,   \* Acceptor::listenning_
    next,         \* EventLoopThreadPool::next_, counted from 1
    ioLoop,       \* the loop each connection was given, 0 when it has not come
    state,        \* TcpConnection::state_, and "gone" after connectDestroyed()
    connections,  \* TcpServer::connections_
    fault         \* the assert that failed, or the dead object that was used

vars == <<main, k, thread, loopPtr, quit, pending, calling, basePending, listenning,
          next, ioLoop, state, connections, fault>>

poolVars == <<thread, loopPtr, quit, pending, calling>>
connVars == <<next, ioLoop, state, connections, basePending>>

Init ==
    /\ main = "constructed" /\ k = 0
    /\ thread = [i \in Threads |-> "none"]
    /\ loopPtr = [i \in Threads |-> FALSE]
    /\ quit = [i \in Threads |-> FALSE]
    /\ pending = [i \in Threads |-> <<>>] /\ calling = [i \in Threads |-> 0]
    /\ basePending = <<>>
    /\ listenning = FALSE /\ next = 1
    /\ ioLoop = [c \in Conns |-> 0]
    /\ state = [c \in Conns |-> "none"]
    /\ connections = {}
    /\ fault = "none"

Queue(i, op, c) == pending' = [pending EXCEPT ![i] = Append(@, <<op, c>>)]

-----------------------------------------------------------------------------
(* The main thread: start(). *)

(* The first call; a later one finds started_ set and does nothing. *)
Start ==
    /\ main = "constructed"
    /\ main' = "starting" /\ k' = 1
    /\ UNCHANGED <<poolVars, connVars, listenning, fault>>

(* startLoop() creates the thread; then it waits for loop_.                *)
StartLoop ==
    /\ main = "starting" /\ k <= NumThreads
    /\ thread[k] = "none"
    /\ thread' = [thread EXCEPT ![k] = "created"]
    /\ UNCHANGED <<main, k, loopPtr, quit, pending, calling, connVars, listenning, fault>>

(* The pointer that startLoop() returns goes into loops_.  It is read a    *)
(* second time outside the lock.                                           *)
LoopStarted ==
    /\ main = "starting" /\ k <= NumThreads
    /\ loopPtr[k]
    /\ k' = k + 1
    /\ UNCHANGED <<main, poolVars, connVars, listenning, fault>>

Listen ==
    /\ main = "starting" /\ k > NumThreads
    /\ main' = "running" /\ listenning' = TRUE
    /\ UNCHANGED <<k, poolVars, connVars, fault>>

-----------------------------------------------------------------------------
(* The main thread: the base loop. *)

GetNextLoop == IF next >= NumThreads THEN 1 ELSE next + 1

(* Acceptor::handleRead with one accepted socket. *)
NewConnection(c) ==
    /\ main = "running" /\ listenning
    /\ state[c] = "none"
    /\ ioLoop' = [ioLoop EXCEPT ![c] = next]
    /\ next' = GetNextLoop
    /\ state' = [state EXCEPT ![c] = "connecting"]
    /\ connections' = connections \cup {c}
    /\ Queue(next, "connectEstablished", c)
    /\ UNCHANGED <<main, k, thread, loopPtr, quit, calling, basePending, listenning, fault>>

(* accept() fails: make_socket_nonblocking(-1) overwrites the error with   *)
(* WSAENOTSOCK, which no case of the switch names, and LOG_FATAL aborts.    *)
AcceptFails ==
    /\ main = "running" /\ listenning
    /\ fault' = "abort"
    /\ UNCHANGED <<main, k, poolVars, connVars, listenning>>

(* Mutant: the connection stays in the map. *)
RemoveConnectionInLoopKeeps ==
    /\ main = "running" /\ basePending # <<>>
    /\ Queue(ioLoop[Head(basePending)], "connectDestroyed", Head(basePending))
    /\ basePending' = Tail(basePending)
    /\ UNCHANGED <<main, k, thread, loopPtr, quit, calling, listenning, next, ioLoop, state,
                   connections, fault>>

RemoveConnectionInLoop ==
    /\ main = "running" /\ basePending # <<>>
    /\ LET c == Head(basePending) IN
        /\ fault' = IF c \in connections THEN fault ELSE "erase"
        /\ connections' = connections \ {c}
        /\ Queue(ioLoop[c], "connectDestroyed", c)
    /\ basePending' = Tail(basePending)
    /\ UNCHANGED <<main, k, thread, loopPtr, quit, calling, listenning, next, ioLoop, state>>

-----------------------------------------------------------------------------
(* The main thread: ~TcpServer, after the base loop has returned. *)

Stop ==
    /\ main = "running"
    /\ main' = "stopping"
    /\ UNCHANGED <<k, poolVars, connVars, listenning, fault>>

DestroyConnection(c) ==
    /\ main = "stopping" /\ c \in connections
    /\ connections' = connections \ {c}
    /\ Queue(ioLoop[c], "connectDestroyed", c)
    /\ UNCHANGED <<main, k, thread, loopPtr, quit, calling, basePending, listenning, next,
                   ioLoop, state, fault>>

(* threadPool_ is destroyed: ~EventLoopThread for each thread in turn. *)
StopPool ==
    /\ main = "stopping" /\ connections = {}
    /\ main' = "quitting" /\ k' = 1
    /\ UNCHANGED <<poolVars, connVars, listenning, fault>>

(* Mutant: ~EventLoopThread joins without quit(). *)
QuitLoopNot ==
    /\ main = "quitting" /\ k <= NumThreads
    /\ main' = "waking"
    /\ UNCHANGED <<k, poolVars, connVars, listenning, fault>>

(* quit() first sets quit_ ... *)
QuitLoop ==
    /\ main = "quitting" /\ k <= NumThreads
    /\ IF loopPtr[k]
       THEN /\ quit' = [quit EXCEPT ![k] = TRUE]
            /\ main' = "waking" /\ UNCHANGED k
       ELSE k' = k + 1 /\ UNCHANGED <<main, quit>>
    /\ UNCHANGED <<thread, loopPtr, pending, calling, connVars, listenning, fault>>

(* ... and then writes to the wakeup socket of a loop that may be gone. *)
WakeupLoop ==
    /\ main = "waking"
    /\ fault' = IF thread[k] = "returned" THEN "deadLoop" ELSE fault
    /\ main' = "joining"
    /\ UNCHANGED <<k, poolVars, connVars, listenning>>

Join ==
    /\ main = "joining" /\ thread[k] = "returned"
    /\ main' = "quitting" /\ k' = k + 1
    /\ UNCHANGED <<poolVars, connVars, listenning, fault>>

(* acceptor_ is destroyed last. *)
Stopped ==
    /\ main = "quitting" /\ k > NumThreads
    /\ main' = "stopped" /\ listenning' = FALSE
    /\ UNCHANGED <<k, poolVars, connVars, fault>>

-----------------------------------------------------------------------------
(* The pool threads. *)

(* threadFunc() makes its EventLoop and publishes it under the lock. *)
ThreadFunc(i) ==
    /\ thread[i] = "created"
    /\ thread' = [thread EXCEPT ![i] = "published"]
    /\ loopPtr' = [loopPtr EXCEPT ![i] = TRUE]
    /\ UNCHANGED <<main, k, quit, pending, calling, connVars, listenning, fault>>

(* loop() begins with quit_ = false. *)
EnterLoop(i) ==
    /\ thread[i] = "published"
    /\ thread' = [thread EXCEPT ![i] = "testing"]
    /\ quit' = [quit EXCEPT ![i] = FALSE]
    /\ UNCHANGED <<main, k, loopPtr, pending, calling, connVars, listenning, fault>>

(* poll() returns; the peer of a connection may have closed, and its       *)
(* handleClose() asks the base loop for the removal.                       *)
Poll(i) ==
    /\ thread[i] = "testing" /\ calling[i] = 0 /\ ~quit[i]
    /\ \/ UNCHANGED <<state, basePending>>
       \/ \E c \in Conns :
           /\ ioLoop[c] = i /\ state[c] = "connected"
           /\ state' = [state EXCEPT ![c] = "disconnected"]
           /\ basePending' = Append(basePending, c)
    /\ thread' = [thread EXCEPT ![i] = "polled"]
    /\ UNCHANGED <<main, k, loopPtr, quit, pending, calling, next, ioLoop, connections,
                   listenning, fault>>

(* doPendingFunctors(): the swap.  What is queued from now on waits for the *)
(* next iteration.                                                         *)
DoPendingFunctors(i) ==
    /\ thread[i] = "polled"
    /\ thread' = [thread EXCEPT ![i] = "testing"]
    /\ calling' = [calling EXCEPT ![i] = Len(pending[i])]
    /\ UNCHANGED <<main, k, loopPtr, quit, pending, connVars, listenning, fault>>

(* What connectEstablished() and connectDestroyed() make of the state, and  *)
(* the states they expect.                                                  *)
After(op) == IF op = "connectEstablished" THEN "connected" ELSE "gone"
Expects(op) == IF op = "connectEstablished" THEN {"connecting"} ELSE {"connected", "disconnected"}

CallFunctor(i) ==
    /\ thread[i] = "testing" /\ calling[i] > 0
    /\ LET op == Head(pending[i])[1]
           c  == Head(pending[i])[2]
       IN  /\ state' = [state EXCEPT ![c] = After(op)]
           /\ fault' = IF state[c] \in Expects(op) THEN fault ELSE "state"
    /\ pending' = [pending EXCEPT ![i] = Tail(@)]
    /\ calling' = [calling EXCEPT ![i] = @ - 1]
    /\ UNCHANGED <<main, k, thread, loopPtr, quit, next, ioLoop, connections, basePending,
                   listenning>>

(* loop() returns, loop_ is set to NULL, and the EventLoop is destroyed     *)
(* with the functors it still holds.                                       *)
ReturnLoop(i) ==
    /\ thread[i] = "testing" /\ calling[i] = 0 /\ quit[i]
    /\ thread' = [thread EXCEPT ![i] = "returned"]
    /\ loopPtr' = [loopPtr EXCEPT ![i] = FALSE]
    /\ fault' = IF pending[i] = <<>> THEN fault ELSE "lostFunctor"
    /\ UNCHANGED <<main, k, quit, pending, calling, connVars, listenning>>

-----------------------------------------------------------------------------
MainStep ==
    \/ Start \/ StartLoop \/ LoopStarted \/ Listen
    \/ RemoveConnectionInLoop \/ AcceptFails
    \/ \E c \in Conns : NewConnection(c) \/ DestroyConnection(c)
    \/ Stop \/ StopPool \/ QuitLoop \/ WakeupLoop \/ Join \/ Stopped

ThreadStep(i) ==
    \/ ThreadFunc(i) \/ EnterLoop(i) \/ Poll(i) \/ DoPendingFunctors(i)
    \/ CallFunctor(i) \/ ReturnLoop(i)

(* A failed assert or a dead object ends the run. *)
Next == fault = "none" /\ (MainStep \/ \E i \in Threads : ThreadStep(i))

Spec == Init /\ [][Next]_vars

(* The main thread runs ~TcpServer to its end and every pool thread keeps  *)
(* running: poll() returns at the latest after kPollTimeMs.                *)
Fairness ==
    /\ WF_vars(Next /\ \/ \E c \in Conns : DestroyConnection(c)
                       \/ StopPool \/ QuitLoop \/ WakeupLoop \/ Join \/ Stopped)
    /\ \A i \in Threads : WF_vars(Next /\ ThreadStep(i))

-----------------------------------------------------------------------------
(* Connections are spread evenly: "new connections are assigned on a        *)
(* round-robin basis" (TcpServer.h), whatever has closed in between.        *)
EvenlySpread ==
    \A i, j \in Threads :
        Cardinality({c \in Conns : ioLoop[c] = i})
            <= Cardinality({c \in Conns : ioLoop[c] = j}) + 1

(* No connection is given to a loop that does not exist, and each is        *)
(* established once, before it is destroyed once, in its own loop, and      *)
(* erased from the map once, although close, removal and destruction run    *)
(* in two threads and the server may be destroyed in between.               *)
LifecycleAsserts ==
    /\ fault \notin {"state", "erase"}
    /\ \A c \in Conns :
        state[c] \in {"connecting", "connected"} /\ main = "running"
            => c \in connections /\ thread[ioLoop[c]] \notin {"none", "created"}

(* ~TcpConnection asserts state_ == kDisconnected (TcpConnection.cpp): an    *)
(* EventLoop that is destroyed drops the functors it did not call and with   *)
(* them the last references to their connections.                            *)
DestroyedDisconnected ==
    \A i \in Threads : thread[i] = "returned" =>
        \A j \in DOMAIN pending[i] : state[pending[i][j][2]] \in {"disconnected", "gone"}

(* ~TcpServer of a server whose pool threads are in their loops ends: it     *)
(* returns with every connection destroyed, or in the race of quit() with a  *)
(* thread that exits, which ~EventLoopThread admits, or with a functor that  *)
(* its loop did not call.  The last cannot happen once the loops have called *)
(* every connectDestroyed().  (quit() before loop() is without effect, as    *)
(* for any EventLoop, and the join then never ends.)                         *)
StopReturns ==
    LET looping == \A i \in Threads : thread[i] \in {"testing", "polled", "returned"}
        settled == connections = {} /\ \A i \in Threads : pending[i] = <<>>
        returns == main = "stopped" /\ \A c \in Conns : state[c] \in {"none", "gone"}
    IN  /\ (main = "stopping" /\ looping) ~> (returns \/ fault \in {"deadLoop", "lostFunctor"})
        /\ (main \in {"stopping", "quitting"} /\ looping /\ settled)
               ~> (returns \/ fault = "deadLoop")
=============================================================================
