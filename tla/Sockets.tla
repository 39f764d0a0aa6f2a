------------------------------ MODULE Sockets -------------------------------
(***************************************************************************)
(* socketpair(), which Windows lacks and sockettool builds from a loopback *)
(* listener (tcp), a connector (tcp1) and an acceptor (tcp2).  Any of its  *)
(* system calls may fail, and another program may connect to the port      *)
(* while the listener is open.                                             *)
(***************************************************************************)
EXTENDS Integers, Sequences

CONSTANT MaxPairs     \* bound on the socketpair() calls

VARIABLES
    step,     \* the last system call that succeeded, "returned" or "failed"
    open,     \* which of its sockets are open
    queue,    \* connections that wait at the listener
    peer,     \* whom tcp2 is connected to
    calls     \* socketpair() calls so far

vars == <<step, open, queue, peer, calls>>

Init == step = "idle" /\ open = {} /\ queue = <<>> /\ peer = "none" /\ calls = 0

(* Mutant: clean: forgets the connector. *)
CleanHalf == step' = "failed" /\ open' = open \cap {"tcp1"} /\ queue' = <<>>

(* clean: closes what is open; -1 is returned. *)
Clean == step' = "failed" /\ open' = {} /\ queue' = <<>>

(* socket() *)
CreateListener ==
    /\ step = "idle" /\ calls < MaxPairs
    /\ calls' = calls + 1
    /\ \/ step' = "socket" /\ open' = {"tcp"} /\ UNCHANGED queue
       \/ Clean
    /\ UNCHANGED peer

(* bind(), listen(), and getsockname() for the port. *)
Listen ==
    /\ step = "socket"
    /\ \/ step' = "listen" /\ UNCHANGED <<open, queue>>
       \/ Clean
    /\ UNCHANGED <<peer, calls>>

(* connect(): the connection waits at the listener. *)
ConnectPair ==
    /\ step = "listen"
    /\ \/ step' = "connect" /\ open' = open \cup {"tcp1"} /\ queue' = Append(queue, "tcp1")
       \/ Clean
    /\ UNCHANGED <<peer, calls>>

AcceptPair ==
    /\ step = "connect"
    /\ \/ /\ step' = "accept" /\ open' = open \cup {"tcp2"}
          /\ peer' = Head(queue) /\ queue' = Tail(queue)
       \/ Clean /\ UNCHANGED peer
    /\ UNCHANGED calls

(* getsockname() of tcp1 must succeed; the address is not compared.  Then the  *)
(* listener is closed.                                                         *)
ReturnPair ==
    /\ step = "accept"
    /\ \/ step' = "returned" /\ open' = open \ {"tcp"} /\ queue' = <<>>
       \/ Clean
    /\ UNCHANGED <<peer, calls>>

(* Another program connects to the port. *)
Stranger ==
    /\ step \in {"listen", "connect"} /\ Len(queue) < 2
    /\ queue' = Append(queue, "stranger")
    /\ UNCHANGED <<step, open, peer, calls>>

(* The caller closes its pair and may ask for another one. *)
CallAgain ==
    /\ step \in {"returned", "failed"}
    /\ step' = "idle" /\ open' = {} /\ peer' = "none"
    /\ UNCHANGED <<queue, calls>>

Next ==
    \/ CreateListener \/ Listen \/ ConnectPair \/ AcceptPair \/ ReturnPair
    \/ Stranger \/ CallAgain

Spec == Init /\ [][Next]_vars

-----------------------------------------------------------------------------
(* Whichever call fails, socketpair() leaves no socket open; when it succeeds, *)
(* exactly the two of the pair.                                                *)
PairClean ==
    /\ step = "failed" => open = {}
    /\ step = "returned" => open = {"tcp1", "tcp2"}

=============================================================================
