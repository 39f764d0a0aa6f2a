------------------------------ MODULE PingPong ------------------------------
(***************************************************************************)
(* The pingpong client: sessions that are spread over the loops of a pool, *)
(* echo what they get, are stopped by a timer in the main loop, and end    *)
(* the program when the last of them is disconnected.  Connecting is       *)
(* TcpClient's; here a session's TcpClient is the state of its connection. *)
(***************************************************************************)
EXTENDS Integers, FiniteSets, Functions

CONSTANTS Sessions,
          MaxReads      \* bound on the messages a session reads

VARIABLES
    session,       \* "no", "connecting", "up", "shut" (shutdown() called), "gone"
    messagesRead,  \* messagesRead_ of each session
    numConnected,  \* numConnected_
    timeout,       \* handleTimeout(): "no", "stopping" the sessions, "done"
    toStop,        \* sessions it has not stopped yet
    quit,          \* Client::quit: "no", "queued" in the session's loop or in
                   \* the main loop, "done"
    reported,      \* totalMessagesRead of the report, or -1
    together       \* history: all sessions were connected when the timer fired

vars == <<session, messagesRead, numConnected, timeout, toStop, quit, reported,
          together>>

Init ==
    /\ session = [s \in Sessions |-> "no"]
    /\ messagesRead = [s \in Sessions |-> 0]
    /\ numConnected = 0
    /\ timeout = "no" /\ toStop = {} /\ quit = "no"
    /\ reported = -1 /\ together = FALSE

(* The constructor starts the sessions before the main loop runs; a server   *)
(* that does not answer leaves one connecting.                               *)
Start(s) ==
    /\ session[s] = "no" /\ timeout = "no"
    /\ session' = [session EXCEPT ![s] = "connecting"]
    /\ UNCHANGED <<messagesRead, numConnected, timeout, toStop, quit, reported, together>>

(* onConnection() up and onConnect(): the first message is sent.             *)
OnConnect(s) ==
    /\ session[s] = "connecting"
    /\ session' = [session EXCEPT ![s] = "up"]
    /\ numConnected' = numConnected + 1
    /\ UNCHANGED <<messagesRead, timeout, toStop, quit, reported, together>>

(* onMessage(): what is read is counted and sent back.                       *)
OnMessage(s) ==
    /\ session[s] \in {"up", "shut"} /\ messagesRead[s] < MaxReads
    /\ messagesRead' = [messagesRead EXCEPT ![s] = @ + 1]
    /\ UNCHANGED <<session, numConnected, timeout, toStop, quit, reported, together>>

Total == SumFunction(messagesRead)

(* onConnection() down and onDisconnect(): the one that brings the counter   *)
(* to zero reports and asks its own loop to ask the main loop to quit.       *)
OnDisconnect(s) ==
    /\ session[s] \in {"up", "shut"}
    /\ session' = [session EXCEPT ![s] = "gone"]
    /\ numConnected' = numConnected - 1
    /\ IF numConnected = 1
       THEN reported' = Total /\ quit' = "queued"
       ELSE UNCHANGED <<reported, quit>>
    /\ UNCHANGED <<messagesRead, timeout, toStop, together>>

(* handleTimeout(), which runs once the main loop does.                      *)
HandleTimeout ==
    /\ timeout = "no" /\ \A s \in Sessions : session[s] # "no"
    /\ timeout' = "stopping" /\ toStop' = Sessions
    /\ together' = \A s \in Sessions : session[s] = "up"
    /\ UNCHANGED <<session, messagesRead, numConnected, quit, reported>>

(* stop() of one session: disconnect() of a TcpClient without a connection   *)
(* does not stop its Connector.                                              *)
StopSession(s) ==
    /\ s \in toStop /\ toStop' = toStop \ {s}
    /\ timeout' = IF toStop' = {} THEN "done" ELSE timeout
    /\ session' = [session EXCEPT ![s] = IF @ = "up" THEN "shut" ELSE @]
    /\ UNCHANGED <<messagesRead, numConnected, quit, reported, together>>

(* quit(): the main loop, once it runs and is not inside handleTimeout().    *)
Quit ==
    /\ quit = "queued" /\ timeout # "stopping" /\ \A s \in Sessions : session[s] # "no"
    /\ quit' = "done"
    /\ UNCHANGED <<session, messagesRead, numConnected, timeout, toStop, reported, together>>

(* After quit() the program ends. *)
Next ==
    /\ quit # "done"
    /\ \/ \E s \in Sessions : \/ Start(s) \/ OnConnect(s) \/ OnMessage(s)
                              \/ OnDisconnect(s) \/ StopSession(s)
       \/ HandleTimeout \/ Quit

Spec == Init /\ [][Next]_vars

(* Loops keep running, and the server closes a connection that the client    *)
(* has shut down.                                                            *)
Fairness ==
    /\ \A s \in Sessions : WF_vars(Next /\ StopSession(s))
    /\ \A s \in Sessions : WF_vars(Next /\ session[s] = "shut" /\ OnDisconnect(s))
    /\ WF_vars(Next /\ Quit)

-----------------------------------------------------------------------------
(* The counter is the number of connected sessions, although every loop of   *)
(* the pool changes it; and a report made when all sessions were up at the   *)
(* timeout counts every message.                                             *)
ReportComplete ==
    /\ numConnected = Cardinality({s \in Sessions : session[s] \in {"up", "shut"}})
    /\ together /\ reported # -1 => reported = Total

(* The timer ends a program whose sessions were all up when it fired.  (One  *)
(* still connecting then comes up later and is never stopped.)               *)
TimeoutEnds == (timeout = "stopping" /\ together) ~> quit = "done"
=============================================================================
