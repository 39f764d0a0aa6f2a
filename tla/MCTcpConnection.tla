-------------------------- MODULE MCTcpConnection --------------------------
(* TLC instance of TcpConnection.                                             *)
EXTENDS TcpConnection

(* Sends from two threads, with shutdown() and up to two forceClose() calls   *)
(* on the loop.                                                               *)
OrderlyUse ==
    [userCalls |-> {"send"}, loopCalls |-> Calls, serverStops |-> FALSE,
     keepUntilRun |-> TRUE, maxMsgs |-> 2, maxCloses |-> 2]

(* Application threads also call shutdown() and forceClose(), drop their      *)
(* pointer at any time, and the server may be destroyed.                      *)
RacingUse ==
    [userCalls |-> Calls, loopCalls |-> {"send", "shutdown"}, serverStops |-> TRUE,
     keepUntilRun |-> FALSE, maxMsgs |-> 1, maxCloses |-> 1]

BothUses == {OrderlyUse, RacingUse}

(* A foreign forceClose() races with a close by the peer.                     *)
ForceCloseUses ==
    {[userCalls |-> {"forceClose"}, loopCalls |-> {}, serverStops |-> FALSE,
      keepUntilRun |-> TRUE, maxMsgs |-> 1, maxCloses |-> 1]}
=============================================================================
