------------------------------ MODULE TcpClient ------------------------------
(***************************************************************************)
(* TcpClient and its Connector: connecting, retrying after a delay,        *)
(* restarting when the connection closes (enableRetry() was called),       *)
(* stop() from any thread, and ~TcpClient in the loop thread.  connect()   *)
(* is called once: both classes leave "check state" to their caller.  The  *)
(* loop alternates between events and functors as in EventLoop; its timers *)
(* fire in the order of their deadlines as in TimerQueue.                  *)
(***************************************************************************)
EXTENDS Integers, Sequences

CONSTANTS RetryDelay,   \* kInitRetryDelayMs
          HoldDelay,    \* the second that removeConnector keeps the Connector
          MaxTime, MaxConns   \* bounds on the clock and on nextConnId_

VARIABLES
    user,          \* where the foreign thread is: it calls connect() and stop()
    clientConnect, \* TcpClient::connect_
    connect,       \* Connector::connect_
    state,         \* Connector::state_
    channel,       \* Connector::channel_: "none", "polled" or "removed"
    pending,       \* functors queued in the loop
    batch,         \* functors that doPendingFunctors() still has to call
    timers,        \* deadlines of the startInLoop timers
    hold,          \* deadline of removeConnector, or -1
    now,           \* the clock
    connection,    \* TcpClient::connection_ is set
    nextConnId,
    restarting,    \* removeConnection() has decided to call restart()
    client,        \* the TcpClient exists
    connector,     \* the Connector exists
    gaveUp,        \* connect() failed for good and nobody was told
    fault

vars == <<user, clientConnect, connect, state, channel, pending, batch, timers,
          hold, now, connection, nextConnId, restarting, client, connector,
          gaveUp, fault>>

attemptVars == <<state, channel, timers, gaveUp, fault>>
lifeVars == <<client, connector, hold>>
clientVars == <<clientConnect, connection, nextConnId, restarting>>

Init ==
    /\ user = "idle" /\ clientConnect = TRUE /\ connect = FALSE
    /\ state = "kDisconnected" /\ channel = "none"
    /\ pending = <<>> /\ batch = <<>> /\ timers = <<>> /\ hold = -1 /\ now = 0
    /\ connection = FALSE /\ nextConnId = 1 /\ restarting = FALSE
    /\ client = TRUE /\ connector = TRUE
    /\ gaveUp = FALSE /\ fault = "none"

-----------------------------------------------------------------------------
(* Connector.  The argument tm is the timers that remain. *)

Retry(tm, con) ==
    /\ state' = "kDisconnected"
    /\ timers' = IF con THEN Append(tm, now + RetryDelay) ELSE tm

Connecting(tm) ==
    /\ state' = "kConnecting" /\ channel' = "polled" /\ timers' = tm
    /\ fault' = IF channel = "none" THEN fault ELSE "connecting"
    /\ UNCHANGED gaveUp

(* connect() by the class of its errno. *)
Connect(tm) ==
    \/ Connecting(tm)
    \/ Retry(tm, TRUE) /\ UNCHANGED <<channel, gaveUp, fault>>
    \/ gaveUp' = TRUE /\ timers' = tm /\ UNCHANGED <<state, channel, fault>>

StartInLoop(tm) ==
    IF state # "kDisconnected"
    THEN fault' = "startInLoop" /\ timers' = tm /\ UNCHANGED <<state, channel, gaveUp>>
    ELSE IF connect THEN Connect(tm)
    ELSE timers' = tm /\ UNCHANGED <<state, channel, gaveUp, fault>>

(* restart() sets state_ and connect_ first; so the test of startInLoop()  *)
(* passes.                                                                 *)
Restart ==
    /\ restarting /\ restarting' = FALSE
    /\ connect' = TRUE
    /\ \/ Connecting(timers)
       \/ Retry(timers, TRUE) /\ UNCHANGED <<channel, gaveUp, fault>>
       \/ gaveUp' = TRUE /\ state' = "kDisconnected" /\ UNCHANGED <<channel, timers, fault>>
    /\ UNCHANGED <<user, clientConnect, pending, batch, now, connection, nextConnId,
                   lifeVars>>

(* Mutant: the channel of the attempt stays. *)
StopInLoopKeepsChannel ==
    IF state = "kConnecting"
    THEN Retry(timers, connect) /\ UNCHANGED <<channel, pending, gaveUp, fault>>
    ELSE UNCHANGED <<attemptVars, pending>>

StopInLoop ==
    IF state = "kConnecting"
    THEN /\ Retry(timers, connect)
         /\ channel' = "removed"
         /\ pending' = Append(pending, "resetChannel")
         /\ UNCHANGED <<gaveUp, fault>>
    ELSE UNCHANGED <<attemptVars, pending>>

(* newConnection() of the client, called by handleWrite(). *)
NewConnection ==
    /\ connection' = TRUE
    /\ nextConnId' = nextConnId + 1

(* handleWrite() and handleError() of the polled channel.  When POLLERR    *)
(* comes with POLLOUT, handleWrite() finds kDisconnected and only asserts. *)
HandleEvent ==
    /\ batch = <<>> /\ channel = "polled" /\ ~restarting
    /\ nextConnId < MaxConns
    /\ pending' = Append(pending, "resetChannel")
    /\ channel' = "removed"
    /\ \/ Retry(timers, connect) /\ UNCHANGED <<connection, nextConnId>>
       \/ /\ state' = "kConnected"
          /\ IF connect THEN NewConnection ELSE UNCHANGED <<connection, nextConnId>>
          /\ UNCHANGED timers
    /\ fault' = IF state # "kConnecting" THEN "handleWrite"
                ELSE IF connector THEN fault ELSE "functorFreed"
    /\ UNCHANGED <<user, clientConnect, connect, batch, now, restarting, lifeVars,
                   gaveUp>>

-----------------------------------------------------------------------------
(* The foreign thread. *)

Start ==
    /\ user = "idle" /\ client
    /\ user' = "started"
    /\ clientConnect' = TRUE /\ connect' = TRUE
    /\ pending' = Append(pending, "startInLoop")
    /\ UNCHANGED <<batch, now, connection, nextConnId, restarting, attemptVars,
                   lifeVars>>

(* TcpClient::stop() ... *)
BeginStop ==
    /\ user = "started" /\ client
    /\ user' = "stopping" /\ clientConnect' = FALSE
    /\ UNCHANGED <<connect, pending, batch, now, connection, nextConnId, restarting,
                   attemptVars, lifeVars>>

(* ... calls Connector::stop(). *)
Stop ==
    /\ user = "stopping"
    /\ user' = "stopped" /\ connect' = FALSE
    /\ pending' = Append(pending, "stopInLoop")
    /\ UNCHANGED <<batch, now, clientVars, attemptVars, lifeVars>>

-----------------------------------------------------------------------------
(* The loop thread. *)

Queued(f) == \E i \in DOMAIN pending : pending[i] = f

(* The connection closes: TcpClient::removeConnection().  Its socket is    *)
(* polled from the iteration on that follows handleWrite(), so the         *)
(* functors of that iteration have been called.                            *)
RemoveConnection ==
    /\ batch = <<>> /\ ~Queued("resetChannel")
    /\ client /\ connection /\ ~restarting
    /\ connection' = FALSE
    /\ restarting' = clientConnect
    /\ UNCHANGED <<user, clientConnect, connect, pending, batch, now, nextConnId,
                   attemptVars, lifeVars>>

(* disconnect(): the connection is shut down and closes later. *)
Disconnect ==
    /\ batch = <<>> /\ client /\ ~restarting
    /\ clientConnect' = FALSE
    /\ UNCHANGED <<user, connect, pending, batch, now, connection, nextConnId,
                   restarting, attemptVars, lifeVars>>

(* ~TcpClient.  With a connection the Connector goes at once; without one  *)
(* it is stopped and kept for a second.                                    *)
Destroy ==
    /\ batch = <<>> /\ client /\ ~restarting /\ user # "stopping"
    /\ client' = FALSE
    /\ IF connection
       THEN /\ connector' = FALSE
            /\ fault' = IF channel = "none" THEN fault ELSE "~Connector"
            /\ UNCHANGED <<connect, pending, hold>>
       ELSE /\ connect' = FALSE
            /\ pending' = Append(pending, "stopInLoop")
            /\ hold' = now + HoldDelay
            /\ UNCHANGED <<connector, fault>>
    /\ UNCHANGED <<user, clientVars, batch, timers, now, state, channel, gaveUp>>

IsNext(t) == /\ \A i \in DOMAIN timers : t <= timers[i]
             /\ hold = -1 \/ t <= hold

(* A retry timer: it holds the raw Connector. *)
FireRetry ==
    /\ batch = <<>> /\ ~restarting
    /\ timers # <<>> /\ Head(timers) <= now /\ IsNext(Head(timers))
    /\ IF connector
       THEN StartInLoop(Tail(timers))
       ELSE fault' = "timerFreed" /\ UNCHANGED <<state, channel, timers, gaveUp>>
    /\ UNCHANGED <<user, clientVars, connect, pending, batch, now, lifeVars>>

(* The timer of ~TcpClient drops the last pointer to the Connector. *)
FireHold ==
    /\ batch = <<>> /\ hold # -1 /\ hold <= now /\ IsNext(hold)
    /\ hold' = -1 /\ connector' = FALSE
    /\ fault' = IF channel = "none" THEN fault ELSE "~Connector"
    /\ UNCHANGED <<user, clientVars, connect, pending, batch, timers, now, state,
                   channel, client, gaveUp>>

(* The clock advances while poll() waits: the functors queued before have  *)
(* run.                                                                    *)
Tick ==
    /\ now < MaxTime /\ batch = <<>> /\ pending = <<>> /\ ~restarting
    /\ now' = now + 1
    /\ UNCHANGED <<user, clientVars, connect, pending, batch, attemptVars, lifeVars>>

(* doPendingFunctors(). *)
SwapFunctors ==
    /\ batch = <<>> /\ pending # <<>> /\ ~restarting
    /\ batch' = pending /\ pending' = <<>>
    /\ UNCHANGED <<user, clientVars, connect, now, attemptVars, lifeVars>>

(* A functor holds the raw Connector, too. *)
CallFunctor ==
    /\ batch # <<>> /\ batch' = Tail(batch)
    /\ CASE ~connector ->
              fault' = "functorFreed" /\ UNCHANGED <<state, channel, timers, gaveUp, pending>>
         [] connector /\ Head(batch) = "startInLoop" ->
              StartInLoop(timers) /\ UNCHANGED pending
         [] connector /\ Head(batch) = "stopInLoop" -> StopInLoop
         [] connector /\ Head(batch) = "resetChannel" ->
              channel' = "none" /\ UNCHANGED <<state, timers, gaveUp, fault, pending>>
    /\ UNCHANGED <<user, clientVars, connect, now, lifeVars>>

-----------------------------------------------------------------------------
(* A failed assert or a dead object ends the run. *)
Next ==
    /\ fault = "none"
    /\ \/ Start \/ BeginStop \/ Stop
       \/ HandleEvent \/ RemoveConnection \/ Restart \/ Disconnect \/ Destroy
       \/ FireRetry \/ FireHold \/ Tick \/ SwapFunctors \/ CallFunctor

Spec == Init /\ [][Next]_vars

-----------------------------------------------------------------------------
Count(p) == IF p THEN 1 ELSE 0

(* One attempt at a time: a retry timer, a connect under way and a live     *)
(* connection exclude one another, so the asserts of startInLoop(),         *)
(* connecting() and handleWrite() on state_ and channel_ hold, whenever     *)
(* stop() comes and however often the connection closes and restarts.       *)
OneAttempt ==
    /\ fault \notin {"startInLoop", "connecting", "handleWrite"}
    /\ client => Len(timers) + Count(channel = "polled") + Count(connection)
                   + Count(restarting) <= 1

(* A Connector that is to connect never falls asleep: disconnected, with    *)
(* connect_ set, it has a retry timer, a queued startInLoop or a restart    *)
(* before it, unless connect() failed for good.                             *)
AttemptPending ==
    connector /\ connect /\ state = "kDisconnected" /\ ~gaveUp =>
        \/ timers # <<>> \/ restarting
        \/ Queued("startInLoop")
        \/ \E i \in DOMAIN batch : batch[i] = "startInLoop"

(* The second for which ~TcpClient keeps the Connector is enough: no retry  *)
(* timer fires on a deleted Connector.                                      *)
TimerFindsConnector == fault # "timerFreed"

=============================================================================
