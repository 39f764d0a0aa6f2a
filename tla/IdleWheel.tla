----------------------------- MODULE IdleWheel ------------------------------
(***************************************************************************)
(* The echo server that closes idle connections with a timing wheel of     *)
(* shared pointers: a connection's Entry is in every bucket of a circular  *)
(* buffer in which it was seen, and shuts the connection down when the     *)
(* last bucket that holds it is dropped.                                   *)
(***************************************************************************)
EXTENDS Integers, Sequences

CONSTANTS Conns, IdleSeconds

VARIABLES
    conn,      \* "no", "up", "shut" (shutdown() was called), "gone"
    buckets,   \* connectionBuckets_, back() last; an Entry is its connection
    idle       \* onTimer() calls since the connection was last heard

vars == <<conn, buckets, idle>>

(* EchoServer(): resize() makes all the buckets. *)
Init ==
    /\ conn = [c \in Conns |-> "no"]
    /\ buckets = [i \in 1..IdleSeconds |-> {}]
    /\ idle = [c \in Conns |-> 0]

(* The context, a weak pointer to the Entry, can be locked.                  *)
EntryAlive(c) == \E i \in 1..IdleSeconds : c \in buckets[i]

InsertBack(c) == [buckets EXCEPT ![IdleSeconds] = @ \cup {c}]

OnConnectionUp(c) ==
    /\ conn[c] = "no"
    /\ conn' = [conn EXCEPT ![c] = "up"]
    /\ buckets' = InsertBack(c)
    /\ UNCHANGED idle

(* The assert() on the context holds: it is set when the connection comes up. *)
OnConnectionDown(c) ==
    /\ conn[c] \in {"up", "shut"}
    /\ conn' = [conn EXCEPT ![c] = "gone"]
    /\ UNCHANGED <<buckets, idle>>

(* Mutant: the entry is looked for, but not put into the current bucket.       *)
OnMessageNoInsert(c) ==
    /\ conn[c] \in {"up", "shut"}
    /\ idle' = [idle EXCEPT ![c] = IF conn[c] = "up" THEN 0 ELSE @]
    /\ UNCHANGED <<conn, buckets>>

(* onMessage(): the echo is sent, and the entry, if there is one, is put into  *)
(* the current bucket.                                                         *)
OnMessage(c) ==
    /\ conn[c] \in {"up", "shut"}
    /\ buckets' = IF EntryAlive(c) THEN InsertBack(c) ELSE buckets
    /\ idle' = [idle EXCEPT ![c] = IF conn[c] = "up" THEN 0 ELSE @]
    /\ UNCHANGED conn

(* onTimer(): push_back() overwrites the oldest bucket; the destructor of an   *)
(* Entry in no other one shuts its connection down, if that is still alive.    *)
OnTimer ==
    /\ buckets' = Append(Tail(buckets), {})
    /\ conn' = [c \in Conns |->
                   IF /\ conn[c] = "up" /\ c \in buckets[1]
                      /\ \A i \in 2..IdleSeconds : c \notin buckets[i]
                   THEN "shut" ELSE conn[c]]
    /\ idle' = [c \in Conns |-> IF conn[c] = "up" THEN idle[c] + 1 ELSE idle[c]]

Next ==
    \/ OnTimer
    \/ \E c \in Conns : OnConnectionUp(c) \/ OnConnectionDown(c) \/ OnMessage(c)

Spec == Init /\ [][Next]_vars

-----------------------------------------------------------------------------
(* A connection is shut down at the IdleSeconds-th tick after it was last      *)
(* heard, not earlier and not later, however often it was heard before.        *)
IdleExact ==
    \A c \in Conns :
        /\ conn[c] = "up" => idle[c] < IdleSeconds /\ EntryAlive(c)
        /\ conn[c] = "shut" => idle[c] = IdleSeconds
=============================================================================
