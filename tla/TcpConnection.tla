---------------------------- MODULE TcpConnection ----------------------------
(***************************************************************************)
(* One connection of a TcpServer, from TcpServer::newConnection to         *)
(* ~TcpConnection: net/TcpConnection.cpp together with the connection half *)
(* of net/TcpServer.cpp.                                                   *)
(*                                                                         *)
(* Three kinds of threads take steps: the I/O loop that owns the           *)
(* connection, the base loop that owns the server (the same thread when    *)
(* the pool has no threads), and application threads that hold a           *)
(* TcpConnectionPtr and call send(), shutdown() or forceClose().  What     *)
(* keeps the object alive is counted exactly: the server's map, functors   *)
(* that bind a shared_ptr, and the application's pointers.  The functors   *)
(* of a foreign send() and shutdown() bind the raw this and keep nothing   *)
(* alive.                                                                  *)
(*                                                                         *)
(* The socket: a write takes any number of the offered bytes or fails; a   *)
(* failed winsock send() does not set errno, so which error the code finds *)
(* there is arbitrary.  Bytes carry their sender, message and position.    *)
(***************************************************************************)
EXTENDS Naturals, Sequences

CONSTANTS
    Users,          \* application threads
    IO,             \* the I/O loop thread, as a sender of messages
    Uses,           \* how the application may use the connection
    MsgLen,         \* bytes per message
    HighWaterMark

Calls == {"send", "shutdown", "forceClose"}

(* A use: what application threads call, what callbacks on the I/O loop     *)
(* call, whether the TcpServer may be destroyed, whether application        *)
(* threads keep their pointer until their functors ran, and the bounds on   *)
(* messages per sender and forceClose() calls per caller.                   *)
Use == [userCalls : SUBSET Calls, loopCalls : SUBSET Calls, serverStops : BOOLEAN,
        keepUntilRun : BOOLEAN, maxMsgs : Nat, maxCloses : Nat]

ASSUME TcpConnectionAssumption ==
    /\ IO \notin Users
    /\ Uses \subseteq Use
    /\ MsgLen \in Nat \ {0} /\ HighWaterMark \in Nat \ {0}

VARIABLES
    use,            \* one of Uses; it never changes
    sameLoop,       \* the base loop is the I/O loop
    state_,
    reading, writing,   \* channel_'s events_
    registered,     \* channel_ is known to the poller
    outputBuffer_,
    pendingFunctors_,   \* of the I/O loop, the current batch first
    batch,          \* functors of the current batch still to be called
    batchHolds,     \* the current batch has a functor that binds a shared_ptr
    removals,       \* removeConnectionInLoop functors queued in the base loop
    inMap,          \* connections_ has the connection
    serverAlive,
    holds,          \* application threads that hold a TcpConnectionPtr
    upc,            \* where each application thread is
    sent,           \* messages each sender has begun to send
    closes,         \* forceClose() calls each caller has begun
    wire,           \* bytes the socket has taken
    writeShut,      \* the write side of the socket is shut down
    accepted,       \* history: bytes of the messages sendInLoop did not drop
    downs,          \* history: connectionCallback_ calls that report a close
    faults          \* failed asserts and uses of a deleted object; they end the run

vars == <<use, sameLoop, state_, reading, writing, registered, outputBuffer_,
          pendingFunctors_, batch, batchHolds, removals, inMap, serverAlive,
          holds, upc, sent, closes, wire, writeShut, accepted, downs, faults>>

config == <<use, sameLoop>>
socket == <<wire, writeShut, outputBuffer_, accepted>>
queues == <<pendingFunctors_, batch, batchHolds>>
owners == <<removals, inMap, serverAlive>>
users == <<holds, upc, sent, closes>>

Senders == Users \cup {IO}
Message(u, k) == [i \in 1..MsgLen |-> <<u, k, i>>]

(* A functor: what it calls and, for send(), whose message. *)
F(op) == [op |-> op, by |-> IO, msg |-> 0]

(* Functors that bind shared_from_this(); the others bind this. *)
Shared(f) == f.op \notin {"sendInLoop", "shutdownInLoop"}

(* The reference count is not zero. *)
Held ==
    \/ inMap \/ removals > 0 \/ holds /= {} \/ batchHolds
    \/ \E i \in 1..Len(pendingFunctors_) : Shared(pendingFunctors_[i])

Init ==
    /\ use \in Uses /\ sameLoop \in BOOLEAN /\ state_ = "kConnecting"
    /\ reading = FALSE /\ writing = FALSE /\ registered = FALSE
    /\ outputBuffer_ = <<>> /\ wire = <<>> /\ accepted = <<>>
    /\ pendingFunctors_ = <<>> /\ batch = 0 /\ batchHolds = FALSE
    /\ removals = 0 /\ inMap = FALSE /\ serverAlive = TRUE
    /\ holds = {} /\ upc = [u \in Users |-> "out"]
    /\ sent = [u \in Senders |-> 0] /\ closes = [u \in Senders |-> 0]
    /\ writeShut = FALSE /\ downs = 0 /\ faults = {}

(* The process has not been aborted. *)
Running == faults = {}

Fault(bad, name) == IF bad THEN {name} ELSE {}
Queue(fs) == pendingFunctors_' = pendingFunctors_ \o fs /\ UNCHANGED <<batch, batchHolds>>

-----------------------------------------------------------------------------
(* The pieces the handlers share; rest is pendingFunctors_ without the      *)
(* functor that is being called.                                            *)

(* connectEstablished(): the application's threads get their pointers from *)
(* connectionCallback_.                                                     *)
ConnectEstablished ==
    /\ state_' = "kConnected"
    /\ reading' = TRUE /\ registered' = TRUE
    /\ holds' = Users
    /\ faults' = Fault(state_ /= "kConnecting", "established")
    /\ UNCHANGED <<writing, downs>>

(* Mutant: the channel is not removed from the poller. *)
ConnectDestroyedNoRemove ==
    /\ IF state_ = "kConnected"
       THEN /\ state_' = "kDisconnected" /\ downs' = downs + 1
            /\ reading' = FALSE /\ writing' = FALSE
       ELSE UNCHANGED <<state_, downs, reading, writing>>
    /\ faults' = Fault(reading' \/ writing', "events") \cup Fault(~registered, "poller")
    /\ UNCHANGED registered

(* connectDestroyed(): interests are dropped only for a connection that is *)
(* still kConnected; Channel::remove() asserts that there are none, and the *)
(* poller that it knows the channel.                                        *)
ConnectDestroyed ==
    /\ IF state_ = "kConnected"
       THEN /\ state_' = "kDisconnected" /\ downs' = downs + 1
            /\ reading' = FALSE /\ writing' = FALSE
       ELSE UNCHANGED <<state_, downs, reading, writing>>
    /\ registered' = FALSE
    /\ faults' = Fault(reading' \/ writing', "events") \cup Fault(~registered, "poller")

(* TcpServer::removeConnectionInLoop() erases one entry, or asserts. *)
EraseFault == Fault(~serverAlive, "freedServer") \cup Fault(serverAlive /\ ~inMap, "erase")

(* handleClose() and, through closeCallback_, TcpServer::removeConnection(): *)
(* at once when the base loop is this loop, queued there otherwise.  For a  *)
(* channel that was removed already, disableAll() trips the poller's assert. *)
HandleClose(rest) ==
    /\ state_' = "kDisconnected" /\ downs' = downs + 1
    /\ reading' = FALSE /\ writing' = FALSE
    /\ IF sameLoop
       THEN /\ inMap' = FALSE
            /\ pendingFunctors_' = Append(rest, F("connectDestroyed"))
            /\ UNCHANGED removals
       ELSE /\ removals' = removals + 1 /\ pendingFunctors_' = rest
            /\ UNCHANGED inMap
    /\ faults' = IF state_ \notin {"kConnected", "kDisconnecting"} THEN {"close"}
                 ELSE IF ~registered THEN {"poller"}
                 ELSE IF sameLoop THEN EraseFault ELSE {}
    /\ UNCHANGED <<registered, serverAlive, users, socket>>

(* A write of data to the socket: n bytes are taken, or none and an error. *)
Takes(data, n) == ~writeShut /\ n \in 0..Len(data) /\ wire' = wire \o SubSeq(data, 1, n)
Fails == UNCHANGED wire

(* Mutant: reaching the mark exactly does not count. *)
CrossesMarkLate(data) ==
    Len(outputBuffer_) < HighWaterMark /\ Len(outputBuffer_) + Len(data) > HighWaterMark

CrossesMark(data) ==
    Len(outputBuffer_) < HighWaterMark /\ Len(outputBuffer_) + Len(data) >= HighWaterMark

(* Mutant: the rest is buffered and nobody watches for writability. *)
AppendRestNoEnable(data, rest) ==
    /\ outputBuffer_' = outputBuffer_ \o data
    /\ pendingFunctors_' =
          IF CrossesMark(data) THEN Append(rest, F("highWaterMark")) ELSE rest
    /\ UNCHANGED writing

(* The tail of sendInLoop(): what was not written is buffered, and crossing *)
(* the high water mark is signalled once.                                   *)
AppendRest(data, rest) ==
    /\ outputBuffer_' = outputBuffer_ \o data
    /\ writing' = TRUE
    /\ pendingFunctors_' =
          IF CrossesMark(data) THEN Append(rest, F("highWaterMark")) ELSE rest

(* Mutant: a direct write is always tried. *)
NothingWaitsAlways == TRUE

NothingWaits == ~writing /\ outputBuffer_ = <<>>

(* sendInLoop(): a direct write is tried only when nothing is waiting.     *)
SendDropped(rest) ==
    /\ state_ = "kDisconnected"
    /\ pendingFunctors_' = rest
    /\ UNCHANGED <<socket, writing>>

SendDirect(data, rest) ==
    /\ state_ /= "kDisconnected" /\ NothingWaits
    /\ \/ \E n \in 0..Len(data) :
             /\ Takes(data, n)
             /\ accepted' = accepted \o data
             /\ IF n = Len(data)
                THEN /\ pendingFunctors_' = Append(rest, F("writeComplete"))
                     /\ UNCHANGED <<outputBuffer_, writing>>
                ELSE AppendRest(SubSeq(data, n + 1, Len(data)), rest)
       \/ (* errno says EPIPE or ECONNRESET: the message is dropped *)
          /\ Fails
          /\ pendingFunctors_' = rest
          /\ UNCHANGED <<accepted, outputBuffer_, writing>>
       \/ (* errno says anything else *)
          /\ Fails
          /\ accepted' = accepted \o data
          /\ AppendRest(data, rest)
    /\ UNCHANGED writeShut

SendBuffered(data, rest) ==
    /\ state_ /= "kDisconnected" /\ ~NothingWaits
    /\ accepted' = accepted \o data
    /\ AppendRest(data, rest)
    /\ UNCHANGED <<wire, writeShut>>

SendInLoop(data, rest) ==
    /\ SendDropped(rest) \/ SendDirect(data, rest) \/ SendBuffered(data, rest)
    /\ UNCHANGED <<state_, reading, registered, downs>>

(* enableWriting() of a channel that was removed trips the poller's assert. *)
EnableFault == Fault(writing' /\ ~writing /\ ~registered, "poller")

(* Mutants: without the test of isWriting(), and with the test inverted. *)
ShutdownInLoopAtOnce == writeShut' = TRUE
ShutdownInLoopInverted == writeShut' = (writeShut \/ writing)

(* shutdownInLoop() *)
ShutdownInLoop == writeShut' = (writeShut \/ ~writing)

-----------------------------------------------------------------------------
(* The server, on the base loop. *)

(* newConnection(): runInLoop() runs connectEstablished() at once when the *)
(* connection stays on the base loop.                                       *)
NewConnection ==
    /\ Running
    /\ state_ = "kConnecting" /\ ~inMap /\ serverAlive /\ pendingFunctors_ = <<>>
    /\ inMap' = TRUE
    /\ IF sameLoop
       THEN ConnectEstablished /\ UNCHANGED queues
       ELSE /\ Queue(<<F("connectEstablished")>>)
            /\ UNCHANGED <<state_, reading, writing, registered, holds, downs, faults>>
    /\ UNCHANGED <<config, socket, removals, serverAlive, upc, sent, closes>>

(* Mutant: the connection is not erased from connections_. *)
RemoveConnectionInLoopKeeps ==
    /\ Running
    /\ removals > 0
    /\ removals' = removals - 1
    /\ Queue(<<F("connectDestroyed")>>)
    /\ UNCHANGED <<config, state_, reading, writing, registered, socket, inMap,
                   serverAlive, users, downs, faults>>

RemoveConnectionInLoop ==
    /\ Running
    /\ removals > 0
    /\ removals' = removals - 1
    /\ inMap' = FALSE /\ faults' = EraseFault
    /\ Queue(<<F("connectDestroyed")>>)
    /\ UNCHANGED <<config, state_, reading, writing, registered, socket,
                   serverAlive, users, downs>>

(* ~TcpServer(): a connection still in the map is handed connectDestroyed(). *)
DestroyServer ==
    /\ Running
    /\ use.serverStops /\ serverAlive
    /\ serverAlive' = FALSE
    /\ inMap' = FALSE
    /\ CASE ~inMap -> UNCHANGED <<queues, state_, reading, writing, registered, downs, faults>>
         [] inMap /\ sameLoop -> ConnectDestroyed /\ UNCHANGED queues
         [] OTHER -> /\ Queue(<<F("connectDestroyed")>>)
                     /\ UNCHANGED <<state_, reading, writing, registered, downs, faults>>
    /\ UNCHANGED <<config, socket, removals, users>>

-----------------------------------------------------------------------------
(* The I/O loop: doPendingFunctors(). *)

(* The swap.  The local vector keeps its shared_ptrs until it is destroyed. *)
StartBatch ==
    /\ Running
    /\ batch = 0 /\ pendingFunctors_ /= <<>>
    /\ batch' = Len(pendingFunctors_)
    /\ batchHolds' = \E i \in 1..Len(pendingFunctors_) : Shared(pendingFunctors_[i])
    /\ UNCHANGED <<config, state_, reading, writing, registered, socket,
                   pendingFunctors_, owners, users, downs, faults>>

RunFunctor(op) ==
    /\ Running
    /\ batch > 0 /\ Head(pendingFunctors_).op = op
    /\ batch' = batch - 1
    /\ batchHolds' = (batchHolds /\ batch > 1)
    /\ UNCHANGED config

Others == Tail(pendingFunctors_)
FreedFault == Fault(~Held, "freedConnection")

RunConnectEstablished ==
    /\ RunFunctor("connectEstablished")
    /\ ConnectEstablished
    /\ pendingFunctors_' = Others
    /\ UNCHANGED <<socket, owners, upc, sent, closes>>

RunSendInLoop ==
    /\ RunFunctor("sendInLoop")
    /\ LET f == Head(pendingFunctors_) IN SendInLoop(Message(f.by, f.msg), Others)
    /\ faults' = FreedFault \cup EnableFault
    /\ UNCHANGED <<owners, users>>

RunShutdownInLoop ==
    /\ RunFunctor("shutdownInLoop")
    /\ ShutdownInLoop
    /\ pendingFunctors_' = Others
    /\ faults' = FreedFault
    /\ UNCHANGED <<state_, reading, writing, registered, wire, outputBuffer_,
                   accepted, owners, users, downs>>

(* Mutant: forceCloseInLoop() does not look at state_. *)
RunForceCloseInLoopAlways == RunFunctor("forceCloseInLoop") /\ HandleClose(Others)

RunForceCloseInLoop ==
    /\ RunFunctor("forceCloseInLoop")
    /\ IF state_ \in {"kConnected", "kDisconnecting"}
       THEN HandleClose(Others)
       ELSE /\ pendingFunctors_' = Others
            /\ UNCHANGED <<state_, reading, writing, registered, socket, owners,
                           users, downs, faults>>

RunConnectDestroyed ==
    /\ RunFunctor("connectDestroyed")
    /\ ConnectDestroyed
    /\ pendingFunctors_' = Others
    /\ UNCHANGED <<socket, owners, users>>

(* writeCompleteCallback_ and highWaterMarkCallback_; what the application *)
(* does in them are the loop's own calls below.                            *)
RunUserCallback ==
    /\ RunFunctor("writeComplete") \/ RunFunctor("highWaterMark")
    /\ pendingFunctors_' = Others
    /\ UNCHANGED <<state_, reading, writing, registered, socket, owners, users,
                   downs, faults>>

-----------------------------------------------------------------------------
(* The I/O loop: events of channel_, handled between batches. *)

(* handleRead() finding end of file (readFd returns 0 for an error too), or *)
(* a hang-up.                                                               *)
PeerClose ==
    /\ Running
    /\ batch = 0 /\ registered /\ (reading \/ writing)
    /\ HandleClose(pendingFunctors_)
    /\ UNCHANGED <<config, batch, batchHolds>>

HandleWrite ==
    /\ Running
    /\ batch = 0 /\ registered /\ writing
    /\ \E n \in 1..Len(outputBuffer_) :
         /\ Takes(outputBuffer_, n)
         /\ outputBuffer_' = SubSeq(outputBuffer_, n + 1, Len(outputBuffer_))
         /\ writing' = (n < Len(outputBuffer_))
         /\ writeShut' = (n = Len(outputBuffer_) /\ state_ = "kDisconnecting")
         /\ Queue(IF n = Len(outputBuffer_) THEN <<F("writeComplete")>> ELSE <<>>)
    /\ UNCHANGED <<config, state_, reading, registered, accepted, owners,
                   users, downs, faults>>

(* send(), shutdown() and forceClose() called by a callback on the I/O loop. *)
LoopSend ==
    /\ Running
    /\ "send" \in use.loopCalls /\ state_ = "kConnected" /\ sent[IO] < use.maxMsgs
    /\ sent' = [sent EXCEPT ![IO] = @ + 1]
    /\ SendInLoop(Message(IO, sent[IO] + 1), pendingFunctors_)
    /\ faults' = EnableFault
    /\ UNCHANGED <<config, batch, batchHolds, owners, holds, upc, closes>>

LoopShutdown ==
    /\ Running
    /\ "shutdown" \in use.loopCalls /\ state_ = "kConnected"
    /\ state_' = "kDisconnecting"
    /\ ShutdownInLoop
    /\ UNCHANGED <<config, reading, writing, registered, outputBuffer_, queues,
                   owners, users, wire, accepted, downs, faults>>

(* forceClose() and forceCloseWithDelay(), which ignores its delay. *)
LoopForceClose ==
    /\ Running
    /\ "forceClose" \in use.loopCalls /\ state_ \in {"kConnected", "kDisconnecting"}
    /\ closes[IO] < use.maxCloses
    /\ closes' = [closes EXCEPT ![IO] = @ + 1]
    /\ state_' = "kDisconnecting"
    /\ Queue(<<F("forceCloseInLoop")>>)
    /\ UNCHANGED <<config, reading, writing, registered, socket, owners,
                   holds, upc, sent, downs, faults>>

-----------------------------------------------------------------------------
(* Application threads: state_ is read, written and the functor queued in   *)
(* separate steps, with no lock.                                            *)
UserStep == Running /\ UNCHANGED <<config, reading, writing, registered, socket,
                                   batch, batchHolds, owners, downs, faults>>

BeginSend(u) ==
    /\ "send" \in use.userCalls /\ u \in holds /\ upc[u] = "out"
    /\ state_ = "kConnected" /\ sent[u] < use.maxMsgs
    /\ upc' = [upc EXCEPT ![u] = "send"]
    /\ sent' = [sent EXCEPT ![u] = @ + 1]
    /\ UNCHANGED <<state_, holds, closes, pendingFunctors_>> /\ UserStep

QueueSend(u) ==
    /\ upc[u] = "send"
    /\ upc' = [upc EXCEPT ![u] = "out"]
    /\ pendingFunctors_' =
          Append(pendingFunctors_, [op |-> "sendInLoop", by |-> u, msg |-> sent[u]])
    /\ UNCHANGED <<state_, holds, sent, closes>> /\ UserStep

BeginShutdown(u) ==
    /\ "shutdown" \in use.userCalls /\ u \in holds /\ upc[u] = "out"
    /\ state_ = "kConnected"
    /\ upc' = [upc EXCEPT ![u] = "shutdown"]
    /\ UNCHANGED <<state_, holds, sent, closes, pendingFunctors_>> /\ UserStep

BeginForceClose(u) ==
    /\ "forceClose" \in use.userCalls /\ u \in holds /\ upc[u] = "out"
    /\ state_ \in {"kConnected", "kDisconnecting"} /\ closes[u] < use.maxCloses
    /\ closes' = [closes EXCEPT ![u] = @ + 1]
    /\ upc' = [upc EXCEPT ![u] = "forceClose"]
    /\ UNCHANGED <<state_, holds, sent, pendingFunctors_>> /\ UserStep

(* setState(kDisconnecting) of either call. *)
SetDisconnecting(u) ==
    /\ upc[u] \in {"shutdown", "forceClose"}
    /\ state_' = "kDisconnecting"
    /\ upc' = [upc EXCEPT ![u] = IF @ = "shutdown" THEN "shutdownQueue" ELSE "forceCloseQueue"]
    /\ UNCHANGED <<holds, sent, closes, pendingFunctors_>> /\ UserStep

QueueClose(u) ==
    /\ upc[u] \in {"shutdownQueue", "forceCloseQueue"}
    /\ upc' = [upc EXCEPT ![u] = "out"]
    /\ pendingFunctors_' = Append(pendingFunctors_,
          [op |-> IF upc[u] = "shutdownQueue" THEN "shutdownInLoop" ELSE "forceCloseInLoop",
           by |-> u, msg |-> 0])
    /\ UNCHANGED <<state_, holds, sent, closes>> /\ UserStep

(* The thread drops its TcpConnectionPtr. *)
Release(u) ==
    /\ u \in holds /\ upc[u] = "out"
    /\ use.keepUntilRun => \A i \in 1..Len(pendingFunctors_) : pendingFunctors_[i].by /= u
    /\ holds' = holds \ {u}
    /\ UNCHANGED <<state_, upc, sent, closes, pendingFunctors_>> /\ UserStep

-----------------------------------------------------------------------------
BaseStep == NewConnection \/ RemoveConnectionInLoop \/ DestroyServer

FunctorStep ==
    \/ StartBatch \/ RunConnectEstablished \/ RunSendInLoop \/ RunShutdownInLoop
    \/ RunForceCloseInLoop \/ RunConnectDestroyed \/ RunUserCallback

EventStep == PeerClose \/ HandleWrite \/ LoopSend \/ LoopShutdown \/ LoopForceClose

UserNext(u) ==
    \/ BeginSend(u) \/ QueueSend(u) \/ BeginShutdown(u) \/ BeginForceClose(u)
    \/ SetDisconnecting(u) \/ QueueClose(u) \/ Release(u)

(* The object is deleted, and nothing is left to run. *)
Deleted == state_ /= "kConnecting" /\ ~Held
Terminated == (Deleted \/ ~serverAlive) /\ pendingFunctors_ = <<>> /\ UNCHANGED vars

(* In orderly use application threads only send, keep their pointer until   *)
(* their functors ran, and the server outlives the connection.              *)
Orderly == use.userCalls \subseteq {"send"} /\ ~use.serverStops /\ use.keepUntilRun

(* A failed assert ends the process. *)
Aborted == ~Orderly /\ ~Running /\ UNCHANGED vars

Next ==
    \/ BaseStep \/ FunctorStep \/ EventStep
    \/ \E u \in Users : UserNext(u)
    \/ Terminated \/ Aborted

Spec == Init /\ [][Next]_vars

(* In orderly use both loops keep turning, application threads finish their *)
(* calls and drop their pointers, and a peer that has not closed takes      *)
(* bytes.  Nothing is assumed of any other use.                             *)
FairSpec ==
    /\ Spec
    /\ WF_vars(Orderly /\ RemoveConnectionInLoop) /\ WF_vars(Orderly /\ FunctorStep)
    /\ WF_vars(Orderly /\ HandleWrite)
    /\ \A u \in Users :
         /\ WF_vars(Orderly /\ (QueueSend(u) \/ SetDisconnecting(u) \/ QueueClose(u)))
         /\ WF_vars(Orderly /\ Release(u))

-----------------------------------------------------------------------------
(* What sendInLoop() took reaches the socket whole, in the order it was     *)
(* taken, and in the order its sender called send(): a direct write never   *)
(* overtakes bytes that wait in outputBuffer_ (TcpConnection.cpp:163-175).  *)
ByteOrder ==
    /\ wire \o outputBuffer_ = accepted
    /\ \A i, j \in 1..Len(accepted) :
         i < j /\ accepted[i][1] = accepted[j][1]
           => \/ accepted[i][2] < accepted[j][2]
              \/ accepted[i][2] = accepted[j][2] /\ accepted[i][3] < accepted[j][3]

(* removeConnectionInLoop() runs once per connection: its                   *)
(* assert(n == 1) holds (TcpServer.cpp:131-133).                            *)
RemovedOnce == "erase" \notin faults

(* Orderly use trips no assert of TcpConnection, TcpServer, Channel or the  *)
(* poller, and uses no deleted connection or server.  In any use, however   *)
(* foreign shutdown() and forceClose() calls and ~TcpServer() fall in       *)
(* between, connectEstablished() only meets kConnecting and handleClose()   *)
(* only an open connection: their asserts on state_ hold                    *)
(* (TcpConnection.cpp:411, 464).                                            *)
ConnectionAsserts ==
    /\ Orderly => faults = {}
    /\ faults \cap {"established", "close"} = {}

(* In orderly use, when the last pointer goes, the destructor's assert      *)
(* holds (TcpConnection.cpp:75), the poller no longer has the channel       *)
(* (Channel.cpp:50), and the application was told of the close once.        *)
OrderlyDestroyed ==
    Orderly => /\ downs <= 1
               /\ Deleted => state_ = "kDisconnected" /\ ~registered /\ downs = 1

(* The write side of an open connection is shut down only after every byte  *)
(* taken so far was written (shutdownInLoop, and handleWrite when it        *)
(* drains).                                                                 *)
ShutdownAfterDrain == [][reading /\ writeShut' /\ ~writeShut => wire' = accepted']_vars

Last(s) == s[Len(s)]

(* The application learns of every crossing of the high water mark, and of  *)
(* every moment the last waiting byte was written.                          *)
CallbacksSignalled ==
    [][/\ (Len(outputBuffer_) < HighWaterMark /\ Len(outputBuffer_') >= HighWaterMark
              => pendingFunctors_' /= <<>> /\ Last(pendingFunctors_') = F("highWaterMark"))
       /\ (wire' /= wire /\ outputBuffer_' = <<>>
              => pendingFunctors_' /= <<>> /\ Last(pendingFunctors_') = F("writeComplete"))]_vars

(* In orderly use shutdown() does close: once kDisconnecting, the write     *)
(* side is shut down or the connection closes (the comment at               *)
(* TcpConnection.cpp:296).                                                  *)
OrderlyShutdown ==
    (Orderly /\ state_ = "kDisconnecting") ~> (writeShut \/ state_ = "kDisconnected")

(* In orderly use buffered bytes are written unless the connection closes   *)
(* first.                                                                   *)
OrderlyDrain == (Orderly /\ outputBuffer_ /= <<>> /\ ~writeShut) ~>
                  (outputBuffer_ = <<>> \/ state_ = "kDisconnected")

(* In orderly use a closed connection is removed from the server and        *)
(* deleted.                                                                 *)
OrderlyDeletion == (Orderly /\ state_ = "kDisconnected") ~> Deleted
=============================================================================
