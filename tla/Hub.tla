-------------------------------- MODULE Hub ---------------------------------
(***************************************************************************)
(* The publish/subscribe hub and its clients.  Clients send commands over  *)
(* FIFO connections, the hub carries out those it has read (one or more    *)
(* per message callback) and sends messages to the audience of a topic;    *)
(* connections come up and go down at any time.  Contents are numbered in  *)
(* the order of publication.  Parsing is in PubSubCodec.                   *)
(***************************************************************************)
EXTENDS Integers, Sequences, FiniteSets

CONSTANTS Clients, Topics,
          MaxCommands       \* bound on the commands a client sends

VARIABLES
    conn,        \* state of a client's connection: "no", "up", "down"
    toHub,       \* commands sent and not read
    toClient,    \* messages sent and not read
    count,       \* commands a client sent
    subs,        \* ConnectionSubscription, the connection's context
    audiences,   \* audiences_ of each topic
    content,     \* content_ of each topic, 0 while lastPubTime_ is not valid
    published,   \* how many contents were published so far
    got,         \* what subscribeCallback_ was called with
    due          \* what each client must be sent, by the promise of the hub

vars == <<conn, toHub, toClient, count, subs, audiences, content, published, got, due>>

Init ==
    /\ conn = [c \in Clients |-> "no"]
    /\ toHub = [c \in Clients |-> <<>>] /\ toClient = [c \in Clients |-> <<>>]
    /\ count = [c \in Clients |-> 0]
    /\ subs = [c \in Clients |-> {}]
    /\ audiences = [t \in Topics |-> {}]
    /\ content = [t \in Topics |-> 0]
    /\ published = 0
    /\ got = [c \in Clients |-> <<>>] /\ due = [c \in Clients |-> <<>>]

(* onConnection() of the hub and of the client: an empty context.            *)
Connect(c) ==
    /\ conn[c] = "no"
    /\ conn' = [conn EXCEPT ![c] = "up"]
    /\ subs' = [subs EXCEPT ![c] = {}]
    /\ UNCHANGED <<toHub, toClient, count, audiences, content, published, got, due>>

(* PubSubClient::subscribe(), unsubscribe() and publish(): send() is refused  *)
(* without a connection.                                                      *)
SendCommand(c, cmd, t) ==
    /\ conn[c] = "up" /\ count[c] < MaxCommands
    /\ count' = [count EXCEPT ![c] = @ + 1]
    /\ toHub' = [toHub EXCEPT ![c] = Append(@, <<cmd, t>>)]
    /\ UNCHANGED <<conn, toClient, subs, audiences, content, published, got, due>>

(* doPublish(): publish() sends to the audience of the topic.                 *)
DoPublish(t) ==
    /\ published' = published + 1
    /\ content' = [content EXCEPT ![t] = published + 1]
    /\ toClient' = [c \in Clients |-> IF c \in audiences[t] /\ conn[c] = "up"
                                      THEN Append(toClient[c], <<t, published + 1>>)
                                      ELSE toClient[c]]
    /\ due' = [c \in Clients |-> IF t \in subs[c] /\ conn[c] = "up"
                                 THEN Append(due[c], <<t, published + 1>>) ELSE due[c]]
    /\ UNCHANGED <<subs, audiences>>

(* doSubscribe(): the last content of the topic is sent at once.              *)
DoSubscribe(c, t) ==
    /\ subs' = [subs EXCEPT ![c] = @ \cup {t}]
    /\ audiences' = [audiences EXCEPT ![t] = @ \cup {c}]
    /\ LET last == IF content[t] # 0 THEN << <<t, content[t]>> >> ELSE <<>> IN
        /\ toClient' = [toClient EXCEPT ![c] = @ \o last]
        /\ due' = [due EXCEPT ![c] = @ \o last]
    /\ UNCHANGED <<content, published>>

(* Mutant: the audience of the topic keeps the connection.                    *)
DoUnsubscribeHalf(c, t) ==
    /\ subs' = [subs EXCEPT ![c] = @ \ {t}]
    /\ UNCHANGED <<audiences, toClient, due, content, published>>

DoUnsubscribe(c, t) ==
    /\ audiences' = [audiences EXCEPT ![t] = @ \ {c}]
    /\ subs' = [subs EXCEPT ![c] = @ \ {t}]
    /\ UNCHANGED <<toClient, due, content, published>>

(* The hub reads the next command of a connection.                            *)
HubReads(c) ==
    /\ conn[c] = "up" /\ toHub[c] # <<>>
    /\ toHub' = [toHub EXCEPT ![c] = Tail(@)]
    /\ LET cmd == Head(toHub[c])[1]
           t   == Head(toHub[c])[2]
       IN  \/ cmd = "pub" /\ DoPublish(t)
           \/ cmd = "sub" /\ DoSubscribe(c, t)
           \/ cmd = "unsub" /\ DoUnsubscribe(c, t)
    /\ UNCHANGED <<conn, count, got>>

(* The connection goes down at any time; what is under way is lost, and       *)
(* onConnection() takes the client out of the topics of its context.          *)
Disconnect(c) ==
    /\ conn[c] = "up"
    /\ conn' = [conn EXCEPT ![c] = "down"]
    /\ toHub' = [toHub EXCEPT ![c] = <<>>] /\ toClient' = [toClient EXCEPT ![c] = <<>>]
    /\ audiences' = [t \in Topics |-> IF t \in subs[c] THEN audiences[t] \ {c}
                                      ELSE audiences[t]]
    /\ subs' = [subs EXCEPT ![c] = {}]
    /\ UNCHANGED <<count, content, published, got, due>>

(* PubSubClient::onMessage() *)
ClientReads(c) ==
    /\ conn[c] = "up" /\ toClient[c] # <<>>
    /\ got' = [got EXCEPT ![c] = Append(@, Head(toClient[c]))]
    /\ toClient' = [toClient EXCEPT ![c] = Tail(@)]
    /\ UNCHANGED <<conn, toHub, count, subs, audiences, content, published, due>>

Next ==
    \E c \in Clients :
        \/ Connect(c) \/ HubReads(c) \/ Disconnect(c) \/ ClientReads(c)
        \/ \E t \in Topics, cmd \in {"pub", "sub", "unsub"} : SendCommand(c, cmd, t)

Spec == Init /\ [][Next]_vars

-----------------------------------------------------------------------------
(* A client gets exactly what is published on the topics it is subscribed to, *)
(* in that order and from the last content before its subscription on; and a  *)
(* connection that is gone is in no audience.                                 *)
HubDelivers ==
    \A c \in Clients :
        /\ conn[c] = "up" => got[c] \o toClient[c] = due[c]
        /\ \A t \in Topics : c \in audiences[t] <=> (conn[c] = "up" /\ t \in subs[c])
=============================================================================
