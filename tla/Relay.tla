------------------------------- MODULE Relay --------------------------------
(***************************************************************************)
(* tcprelay: for every accepted connection (the client's, serverConn_) a   *)
(* Tunnel opens a connection to the real server and copies both ways.      *)
(* Bytes are numbered in the order in which their sender wrote them.       *)
(***************************************************************************)
EXTENDS Integers, Sequences

CONSTANT MaxBytes      \* bound on the bytes either peer writes

VARIABLES
    down,        \* serverConn_: "no", "up", "shut" (shutdown() called), "gone"
    upstream,    \* the Tunnel's client_: "no", "connecting", "up", "shut", "gone"
    context,     \* serverConn_ has the other connection as its context
    inTunnels,   \* g_tunnels has the tunnel
    fromClient, inBuf, toServer,   \* written, in serverConn_'s input buffer, sent on
    fromServer, upBuf, toClient,   \* the same for the other direction
    asserted     \* an assert() failed

vars == <<down, upstream, context, inTunnels, fromClient, inBuf, toServer,
          fromServer, upBuf, toClient, asserted>>

Init ==
    /\ down = "no" /\ upstream = "no" /\ context = FALSE /\ inTunnels = FALSE
    /\ fromClient = 0 /\ inBuf = <<>> /\ toServer = <<>>
    /\ fromServer = 0 /\ upBuf = <<>> /\ toClient = <<>>
    /\ asserted = FALSE

(* onServerConnection() up: setup() and connect(). *)
Accept ==
    /\ down = "no"
    /\ down' = "up" /\ upstream' = "connecting" /\ inTunnels' = TRUE
    /\ UNCHANGED <<context, fromClient, inBuf, toServer, fromServer, upBuf, toClient,
                   asserted>>

(* onServerMessage(): without a context the bytes wait in the input buffer;   *)
(* send(buf) empties it only while the other connection is kConnected.        *)
OnServerMessage ==
    /\ down \in {"up", "shut"} /\ fromClient < MaxBytes
    /\ fromClient' = fromClient + 1
    /\ LET buf == Append(inBuf, fromClient + 1) IN
       IF context /\ upstream = "up"
       THEN toServer' = toServer \o buf /\ inBuf' = <<>>
       ELSE inBuf' = buf /\ UNCHANGED toServer
    /\ UNCHANGED <<down, upstream, context, inTunnels, fromServer, upBuf, toClient, asserted>>

(* Mutant: what came before the connection is not sent on.                    *)
OnClientConnectionUpLate ==
    /\ upstream = "connecting"
    /\ upstream' = "up" /\ context' = TRUE
    /\ UNCHANGED <<down, inTunnels, fromClient, inBuf, toServer, fromServer, upBuf, toClient,
                   asserted>>

(* onClientConnection() up: what the client wrote meanwhile is sent.  It runs  *)
(* even if the client is gone: disconnect() does not stop the connector.       *)
OnClientConnectionUp ==
    /\ upstream = "connecting"
    /\ upstream' = "up" /\ context' = TRUE
    /\ toServer' = toServer \o inBuf /\ inBuf' = <<>>
    /\ UNCHANGED <<down, inTunnels, fromClient, fromServer, upBuf, toClient, asserted>>

(* onClientMessage(): serverConn_ is never reset, so abort() is not reached.   *)
OnClientMessage ==
    /\ upstream \in {"up", "shut"} /\ fromServer < MaxBytes
    /\ fromServer' = fromServer + 1
    /\ LET buf == Append(upBuf, fromServer + 1) IN
       IF down = "up" THEN toClient' = toClient \o buf /\ upBuf' = <<>>
       ELSE upBuf' = buf /\ UNCHANGED toClient
    /\ UNCHANGED <<down, upstream, context, inTunnels, fromClient, inBuf, toServer, asserted>>

(* onClientConnection() down: teardown() clears the context and shuts the      *)
(* client's connection down.                                                   *)
OnClientConnectionDown ==
    /\ upstream \in {"up", "shut"}
    /\ upstream' = "gone" /\ context' = FALSE
    /\ down' = IF down = "up" THEN "shut" ELSE down
    /\ UNCHANGED <<inTunnels, fromClient, inBuf, toServer, fromServer, upBuf, toClient, asserted>>

(* Tunnel::disconnect() *)
TunnelDisconnect == upstream' = IF upstream = "up" THEN "shut" ELSE upstream

(* onServerConnection() down. *)
OnServerConnectionDown ==
    /\ down \in {"up", "shut"}
    /\ down' = "gone" /\ inTunnels' = FALSE /\ asserted' = (asserted \/ ~inTunnels)
    /\ TunnelDisconnect
    /\ UNCHANGED <<context, fromClient, inBuf, toServer, fromServer, upBuf, toClient>>

(* onHighWaterMark() of either connection. *)
OnHighWaterMark ==
    /\ upstream = "up"
    /\ TunnelDisconnect
    /\ UNCHANGED <<down, context, inTunnels, fromClient, inBuf, toServer, fromServer, upBuf,
                   toClient, asserted>>

Next ==
    \/ Accept \/ OnServerMessage \/ OnClientConnectionUp \/ OnClientMessage
    \/ OnClientConnectionDown \/ OnServerConnectionDown \/ OnHighWaterMark

Spec == Init /\ [][Next]_vars

-----------------------------------------------------------------------------
Counted(n) == [i \in 1..n |-> i]

(* Each direction is copied exactly: nothing is lost, repeated or reordered,   *)
(* including what the client wrote before the server answered, and nothing     *)
(* waits in a buffer while both connections are up.                            *)
RelayExact ==
    /\ toServer \o inBuf = Counted(fromClient)
    /\ toClient \o upBuf = Counted(fromServer)
    /\ upstream = "up" => inBuf = <<>>
    /\ down = "up" => upBuf = <<>>
    /\ ~asserted
=============================================================================
