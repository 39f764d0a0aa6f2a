----------------------------- MODULE MCServers ------------------------------
(* TLC instance of the servers and clients above TcpConnection.  They do not  *)
(* interact: a behaviour is one of TcpServer, TcpClient, Hub, Relay,          *)
(* IdleWheel, MaxConnection or PingPong, chosen by part, and the others keep  *)
(* their initial state.                                                       *)
EXTENDS IdleWheel, FiniteSets

CONSTANTS NumThreads, ServerConns,                      \* TcpServer
          RetryDelay, HoldDelay, MaxTime, MaxConns,     \* TcpClient
          Clients, Topics, MaxCommands,                 \* Hub
          MaxBytes,                                     \* Relay
          LimitConns, Max,                              \* MaxConnection
          Sessions, MaxReads                            \* PingPong

(* A server has a pool thread, there are finitely many connections, and a     *)
(* Connector is kept (1 s, TcpClient.cpp) for longer than it waits before it  *)
(* tries again (500 ms, Connector.h).                                         *)
ASSUME ServersAssumption ==
    /\ NumThreads \in Nat \ {0} /\ Max \in Nat
    /\ RetryDelay \in Nat \ {0} /\ HoldDelay \in Nat /\ RetryDelay < HoldDelay
    /\ IsFiniteSet(ServerConns) /\ IsFiniteSet(LimitConns) /\ IsFiniteSet(Sessions)

VARIABLES part,
    main, k, thread, loopPtr, quit, pending, calling, basePending, listenning,
    next, ioLoop, state, connections, fault,
    user, clientConnect, connect, clientState, channel, clientPending, batch,
    timers, hold, now, connection, nextConnId, restarting, client, connector,
    gaveUp, clientFault,
    hubConn, toHub, hubToClient, count, subs, audiences, content, published,
    got, due,
    down, upstream, context, inTunnels, fromClient, inBuf, toServer,
    fromServer, upBuf, toClient, asserted,
    limitConn, closing, num,
    session, messagesRead, numConnected, timeout, toStop, pingQuit, reported,
    together

Server == INSTANCE TcpServer WITH Conns <- ServerConns
Client == INSTANCE TcpClient WITH state <- clientState, pending <- clientPending,
                                  fault <- clientFault
PubSub == INSTANCE Hub WITH conn <- hubConn, toClient <- hubToClient
Tunnel == INSTANCE Relay
Limit  == INSTANCE MaxConnection WITH Conns <- LimitConns, conn <- limitConn
Ping   == INSTANCE PingPong WITH quit <- pingQuit

serverVars == <<main, k, thread, loopPtr, quit, pending, calling, basePending,
                listenning, next, ioLoop, state, connections, fault>>
clientVars == <<user, clientConnect, connect, clientState, channel, clientPending,
                batch, timers, hold, now, connection, nextConnId, restarting,
                client, connector, gaveUp, clientFault>>
hubVars    == <<hubConn, toHub, hubToClient, count, subs, audiences, content,
                published, got, due>>
relayVars  == <<down, upstream, context, inTunnels, fromClient, inBuf, toServer,
                fromServer, upBuf, toClient, asserted>>
limitVars  == <<limitConn, closing, num>>
pingVars   == <<session, messagesRead, numConnected, timeout, toStop, pingQuit,
                reported, together>>
allVars == <<part, serverVars, clientVars, hubVars, relayVars, vars, limitVars, pingVars>>

ServersInit ==
    /\ part \in {"server", "client", "hub", "relay", "wheel", "limit", "ping"}
    /\ Server!Init /\ Client!Init /\ PubSub!Init
    /\ Tunnel!Init /\ Init /\ Limit!Init /\ Ping!Init

ServersNext ==
    \/ /\ part = "server" /\ Server!Next
       /\ UNCHANGED <<part, clientVars, hubVars, relayVars, vars, limitVars, pingVars>>
    \/ /\ part = "client" /\ Client!Next
       /\ UNCHANGED <<part, serverVars, hubVars, relayVars, vars, limitVars, pingVars>>
    \/ /\ part = "hub" /\ PubSub!Next
       /\ UNCHANGED <<part, serverVars, clientVars, relayVars, vars, limitVars, pingVars>>
    \/ /\ part = "relay" /\ Tunnel!Next
       /\ UNCHANGED <<part, serverVars, clientVars, hubVars, vars, limitVars, pingVars>>
    \/ /\ part = "wheel" /\ Next
       /\ UNCHANGED <<part, serverVars, clientVars, hubVars, relayVars, limitVars, pingVars>>
    \/ /\ part = "limit" /\ Limit!Next
       /\ UNCHANGED <<part, serverVars, clientVars, hubVars, relayVars, vars, pingVars>>
    \/ /\ part = "ping" /\ Ping!Next
       /\ UNCHANGED <<part, serverVars, clientVars, hubVars, relayVars, vars, limitVars>>

ServersSpec ==
    /\ ServersInit /\ [][ServersNext]_allVars
    /\ IF part = "server" THEN Server!Fairness ELSE part = "ping" => Ping!Fairness

-----------------------------------------------------------------------------
(* TcpServer: connections are spread evenly over the pool's loops, and each   *)
(* is established, destroyed and erased from the map once, in its own loop.   *)
LifecycleAsserts == Server!LifecycleAsserts /\ Server!EvenlySpread

(* ~TcpServer returns with all connections destroyed; it ends in the race     *)
(* that ~EventLoopThread admits, or with an uncalled functor if it did not    *)
(* wait for the loops; the pingpong client ends after its timeout.            *)
StopReturns ==
    /\ part = "server" => Server!StopReturns
    /\ part = "ping" => Ping!TimeoutEnds

(* TcpClient and Connector: at most one attempt is under way, one is before   *)
(* a Connector that is to connect, and no timer finds it deleted.             *)
OneAttempt == Client!OneAttempt /\ Client!AttemptPending /\ Client!TimerFindsConnector

(* Hub: subscribers get exactly what is published, in order. *)
HubDelivers == PubSub!HubDelivers

(* Relay: both directions of a tunnel are copied exactly. *)
RelayExact == Tunnel!RelayExact

(* Counters of connections that several callbacks share: MaxConnection serves *)
(* at most Max, and PingPong's report is made once all sessions are gone.     *)
ServedBounded == Limit!ServedBounded /\ Ping!ReportComplete
=============================================================================
