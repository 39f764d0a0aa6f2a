--------------------------- MODULE MaxConnection ----------------------------
(***************************************************************************)
(* The echo server that serves at most kMaxConnections_ connections: its   *)
(* connection callback counts, and shuts down and then closes by force a   *)
(* connection it refuses.                                                  *)
(***************************************************************************)
EXTENDS Integers, FiniteSets

CONSTANTS Conns, Max     \* kMaxConnections_

VARIABLES
    conn,     \* "no", "up", "shut" (shutdown() was called), "gone"
    closing,  \* forceCloseInLoop() is queued for the connection
    num       \* numConnected_

vars == <<conn, closing, num>>

Init ==
    /\ conn = [c \in Conns |-> "no"]
    /\ closing = [c \in Conns |-> FALSE]
    /\ num = 0

(* Mutant: the limit is tested before the connection is counted.             *)
OnConnectionUpLate(c) ==
    /\ conn[c] = "no"
    /\ num' = num + 1
    /\ conn' = [conn EXCEPT ![c] = IF num > Max THEN "shut" ELSE "up"]
    /\ closing' = [closing EXCEPT ![c] = num > Max]

(* onConnection() up: one over the limit is shut down, and forceCloseWithDelay *)
(* queues its forceCloseInLoop() at once: it ignores the delay.              *)
OnConnectionUp(c) ==
    /\ conn[c] = "no"
    /\ num' = num + 1
    /\ conn' = [conn EXCEPT ![c] = IF num + 1 > Max THEN "shut" ELSE "up"]
    /\ closing' = [closing EXCEPT ![c] = num + 1 > Max]

(* The peer closes.                                                          *)
OnConnectionDown(c) ==
    /\ conn[c] \in {"up", "shut"}
    /\ conn' = [conn EXCEPT ![c] = "gone"]
    /\ num' = num - 1
    /\ UNCHANGED closing

(* forceCloseInLoop(): nothing when the connection is closed already.         *)
ForceCloseInLoop(c) ==
    /\ closing[c]
    /\ closing' = [closing EXCEPT ![c] = FALSE]
    /\ IF conn[c] = "gone" THEN UNCHANGED <<conn, num>>
       ELSE conn' = [conn EXCEPT ![c] = "gone"] /\ num' = num - 1

(* The peer's next attempt is a new connection. *)
Again(c) ==
    /\ conn[c] = "gone" /\ ~closing[c]
    /\ conn' = [conn EXCEPT ![c] = "no"]
    /\ UNCHANGED <<closing, num>>

Next == \E c \in Conns :
            OnConnectionUp(c) \/ OnConnectionDown(c) \/ ForceCloseInLoop(c) \/ Again(c)

Spec == Init /\ [][Next]_vars

-----------------------------------------------------------------------------
(* At most Max connections are served at any time, through refusals, closes   *)
(* and closes by force in any order, and the counter never drifts.            *)
ServedBounded ==
    /\ Cardinality({c \in Conns : conn[c] = "up"}) <= Max
    /\ num = Cardinality({c \in Conns : conn[c] \in {"up", "shut"}})
=============================================================================
