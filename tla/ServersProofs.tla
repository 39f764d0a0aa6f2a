---------------------------- MODULE ServersProofs ----------------------------
(* What holds of the servers and clients above TcpConnection for every value  *)
(* of their constants.  Every step of ServersNext is a step of one part and   *)
(* leaves the others alone, so each part has an inductive invariant of its    *)
(* own, over its own variables.                                               *)
EXTENDS MCServers, FiniteSetTheorems, TLAPS

(* A step of the whole is, for each part, a step of that part or nothing.     *)
LEMMA PartSteps ==
    ASSUME [ServersNext]_allVars
    PROVE  /\ [Tunnel!Next]_relayVars
           /\ [PubSub!Next]_hubVars
           /\ [Limit!Next]_limitVars
           /\ [Ping!Next]_pingVars
           /\ [Server!Next]_serverVars
           /\ [Client!Next]_clientVars
  BY DEF ServersNext, allVars

-----------------------------------------------------------------------------
(* Relay *)

Peer == {"no", "up", "shut", "gone"}

RelayType ==
    /\ down \in Peer /\ upstream \in Peer \cup {"connecting"}
    /\ context \in BOOLEAN /\ inTunnels \in BOOLEAN /\ asserted \in BOOLEAN
    /\ fromClient \in Nat /\ inBuf \in Seq(Nat) /\ toServer \in Seq(Nat)
    /\ fromServer \in Nat /\ upBuf \in Seq(Nat) /\ toClient \in Seq(Nat)

(* An open upstream connection is the context of the client's; the tunnel is  *)
(* in g_tunnels for as long as the client's connection is there; and before   *)
(* that one came nothing has happened.                                        *)
RelayLinks ==
    /\ upstream = "up" => context
    /\ down \in {"up", "shut"} => inTunnels
    /\ down = "no" => upstream = "no" /\ upBuf = <<>>

RelayInv == RelayType /\ RelayLinks /\ Tunnel!RelayExact

(* Concatenation, element by element.                                         *)
LEMMA ConcatAt ==
    ASSUME NEW S, NEW s \in Seq(S), NEW t \in Seq(S)
    PROVE  /\ s \o t \in Seq(S) /\ Len(s \o t) = Len(s) + Len(t)
           /\ \A i \in 1..(Len(s) + Len(t)) :
                (s \o t)[i] = IF i <= Len(s) THEN s[i] ELSE t[i - Len(s)]
  OBVIOUS

(* One more byte, queued behind the others.                                   *)
LEMMA CountedNext ==
    ASSUME NEW n \in Nat, NEW s \in Seq(Nat), NEW t \in Seq(Nat), s \o t = Tunnel!Counted(n)
    PROVE  /\ s \o Append(t, n + 1) = Tunnel!Counted(n + 1)
           /\ (s \o Append(t, n + 1)) \o <<>> = Tunnel!Counted(n + 1)
           /\ Append(t, n + 1) \in Seq(Nat) /\ s \o Append(t, n + 1) \in Seq(Nat)
  <1> DEFINE u == s \o Append(t, n + 1)
  <1>1. Append(t, n + 1) \in Seq(Nat) /\ u \in Seq(Nat) /\ Len(u) = Len(s) + Len(t) + 1
    OBVIOUS
  <1>2. Tunnel!Counted(n) \in Seq(Nat) /\ Len(Tunnel!Counted(n)) = n
    BY DEF Tunnel!Counted
  <1>3. Len(s) + Len(t) = n /\ Len(s) \in Nat /\ Len(t) \in Nat
    BY <1>2
  <1> DEFINE v == Append(t, n + 1)
             x == s \o t
  <1>a. /\ v \in Seq(Nat) /\ Len(v) = Len(t) + 1 /\ v[Len(t) + 1] = n + 1
        /\ \A i \in 1..Len(t) : v[i] = t[i]
    OBVIOUS
  <1>b. u = s \o v
    OBVIOUS
  <1>c. x \in Seq(Nat) /\ Len(x) = n /\ \A i \in 1..n : x[i] = i
    BY <1>2 DEF Tunnel!Counted
  <1>d. \A i \in 1..(Len(s) + Len(t)) : x[i] = IF i <= Len(s) THEN s[i] ELSE t[i - Len(s)]
    BY ConcatAt, Zenon
  <1> HIDE DEF v, u
  <1>4. \A i \in 1..(n + 1) : u[i] = i
    <2> TAKE i \in 1..(n + 1)
    <2> HIDE DEF x
    <2>1. u[i] = IF i <= Len(s) THEN s[i] ELSE v[i - Len(s)]
      BY <1>3, <1>a, <1>b
    <2>2. i \in 1..n => x[i] = IF i <= Len(s) THEN s[i] ELSE t[i - Len(s)]
      BY <1>3, <1>d
    <2>3. CASE i <= Len(s)
      BY <1>3, <1>c, <2>1, <2>2, <2>3
    <2>4. CASE i > Len(s) /\ i <= n
      <3>1. i - Len(s) \in 1..Len(t)
        BY <1>3, <2>4
      <3>2. i \in 1..n /\ ~(i <= Len(s))
        BY <1>3, <2>4
      <3>3. x[i] = t[i - Len(s)] /\ u[i] = v[i - Len(s)] /\ x[i] = i
        BY <1>c, <2>1, <2>2, <3>2
      <3> QED
        BY <1>a, <3>1, <3>3
    <2>5. CASE i = n + 1
      <3>1. i - Len(s) = Len(t) + 1 /\ ~(i <= Len(s))
        BY <1>3, <2>5
      <3> QED
        BY <1>a, <2>1, <2>5, <3>1
    <2> QED
      BY <1>3, <2>3, <2>4, <2>5
  <1>5. u = Tunnel!Counted(n + 1)
    <2>1. Len(u) = n + 1
      BY <1>1, <1>3
    <2>2. u = [i \in 1..Len(u) |-> u[i]]
      BY <1>1
    <2> QED
      BY <1>4, <2>1, <2>2 DEF Tunnel!Counted
  <1>6. u \o <<>> = u
    BY <1>1
  <1> QED
    BY <1>1, <1>5, <1>6 DEF u

(* The tunnel's invariant holds before the client comes                       *)
LEMMA RelayInit == Tunnel!Init => RelayInv
  <1> SUFFICES ASSUME Tunnel!Init
               PROVE  RelayInv
    OBVIOUS
  <1>1. /\ down = "no" /\ upstream = "no" /\ context = FALSE /\ inTunnels = FALSE
        /\ fromClient = 0 /\ inBuf = <<>> /\ toServer = <<>>
        /\ fromServer = 0 /\ upBuf = <<>> /\ toClient = <<>> /\ asserted = FALSE
    BY DEF Tunnel!Init
  <1>2. <<>> \o <<>> = Tunnel!Counted(0) /\ <<>> \in Seq(Nat)
    BY DEF Tunnel!Counted
  <1> QED
    BY <1>1, <1>2 DEF RelayInv, RelayType, RelayLinks, Tunnel!RelayExact, Peer

(* and every step of it keeps it: bytes are appended behind the others, and   *)
(* moved on all at once.                                                      *)
LEMMA RelayStep == RelayInv /\ [Tunnel!Next]_relayVars => RelayInv'
  <1> SUFFICES ASSUME RelayInv, [Tunnel!Next]_relayVars
               PROVE  RelayInv'
    OBVIOUS
  <1>0. RelayType /\ RelayLinks
        /\ toServer \o inBuf = Tunnel!Counted(fromClient)
        /\ toClient \o upBuf = Tunnel!Counted(fromServer)
        /\ (upstream = "up" => inBuf = <<>>) /\ (down = "up" => upBuf = <<>>) /\ ~asserted
    BY DEF RelayInv, Tunnel!RelayExact
  <1>t. /\ fromClient \in Nat /\ inBuf \in Seq(Nat) /\ toServer \in Seq(Nat)
        /\ fromServer \in Nat /\ upBuf \in Seq(Nat) /\ toClient \in Seq(Nat)
    BY <1>0 DEF RelayType
  <1>e. \A s \in Seq(Nat) : s \o <<>> = s
    OBVIOUS
  <1>1. CASE Tunnel!Accept
    BY <1>0, <1>1 DEF Tunnel!Accept, RelayInv, RelayType, RelayLinks, Tunnel!RelayExact, Peer
  <1>2. CASE Tunnel!OnServerMessage
    <2> DEFINE buf == Append(inBuf, fromClient + 1)
    <2>1. /\ toServer \o buf = Tunnel!Counted(fromClient + 1)
          /\ (toServer \o buf) \o <<>> = Tunnel!Counted(fromClient + 1)
          /\ buf \in Seq(Nat) /\ toServer \o buf \in Seq(Nat)
      BY <1>0, <1>t, CountedNext, Zenon
    <2>2. /\ fromClient' = fromClient + 1
          /\ IF context /\ upstream = "up" THEN toServer' = toServer \o buf /\ inBuf' = <<>>
             ELSE inBuf' = buf /\ toServer' = toServer
          /\ UNCHANGED <<down, upstream, context, inTunnels, fromServer, upBuf, toClient, asserted>>
      BY <1>2 DEF Tunnel!OnServerMessage
    <2> HIDE DEF buf
    <2>3. /\ toServer' \o inBuf' = Tunnel!Counted(fromClient') /\ fromClient' \in Nat
          /\ toServer' \in Seq(Nat) /\ inBuf' \in Seq(Nat)
      <3>1. fromClient' \in Nat /\ <<>> \in Seq(Nat)
        BY <1>t, <2>2
      <3> QED
        BY <1>t, <2>1, <2>2, <3>1, Zenon
    <2>4. upstream' = "up" => inBuf' = <<>>
      BY <1>0, <2>2 DEF RelayLinks
    <2>5. RelayType' /\ RelayLinks'
      BY <1>0, <2>2, <2>3 DEF RelayType, RelayLinks
    <2> QED
      BY <1>0, <2>2, <2>3, <2>4, <2>5 DEF RelayInv, Tunnel!RelayExact
  <1>3. CASE Tunnel!OnClientConnectionUp
    <2>1. /\ upstream = "connecting" /\ upstream' = "up" /\ context' = TRUE
          /\ toServer' = toServer \o inBuf /\ inBuf' = <<>>
          /\ UNCHANGED <<down, inTunnels, fromClient, fromServer, upBuf, toClient, asserted>>
      BY <1>3 DEF Tunnel!OnClientConnectionUp
    <2>2. toServer' \in Seq(Nat) /\ inBuf' \in Seq(Nat) /\ toServer' \o inBuf' = toServer \o inBuf
      BY <1>t, <2>1
    <2>3. RelayType' /\ RelayLinks'
      BY <1>0, <2>1, <2>2 DEF RelayType, RelayLinks, Peer
    <2> QED
      BY <1>0, <2>1, <2>2, <2>3 DEF RelayInv, Tunnel!RelayExact
  <1>4. CASE Tunnel!OnClientMessage
    <2> DEFINE buf == Append(upBuf, fromServer + 1)
    <2>1. /\ toClient \o buf = Tunnel!Counted(fromServer + 1)
          /\ (toClient \o buf) \o <<>> = Tunnel!Counted(fromServer + 1)
          /\ buf \in Seq(Nat) /\ toClient \o buf \in Seq(Nat)
      BY <1>0, <1>t, CountedNext, Zenon
    <2>2. /\ fromServer' = fromServer + 1 /\ upstream \in {"up", "shut"}
          /\ IF down = "up" THEN toClient' = toClient \o buf /\ upBuf' = <<>>
             ELSE upBuf' = buf /\ toClient' = toClient
          /\ UNCHANGED <<down, upstream, context, inTunnels, fromClient, inBuf, toServer, asserted>>
      BY <1>4 DEF Tunnel!OnClientMessage
    <2> HIDE DEF buf
    <2>3. /\ toClient' \o upBuf' = Tunnel!Counted(fromServer') /\ fromServer' \in Nat
          /\ toClient' \in Seq(Nat) /\ upBuf' \in Seq(Nat)
      <3>1. fromServer' \in Nat /\ <<>> \in Seq(Nat)
        BY <1>t, <2>2
      <3> QED
        BY <1>t, <2>1, <2>2, <3>1, Zenon
    <2>4. down' = "up" => upBuf' = <<>>
      BY <2>2
    <2>5. RelayType' /\ RelayLinks'
      BY <1>0, <2>2, <2>3 DEF RelayType, RelayLinks
    <2> QED
      BY <1>0, <2>2, <2>3, <2>4, <2>5 DEF RelayInv, Tunnel!RelayExact
  <1>5. CASE Tunnel!OnClientConnectionDown
    BY <1>0, <1>5 DEF Tunnel!OnClientConnectionDown, RelayInv, RelayType, RelayLinks,
                      Tunnel!RelayExact, Peer
  <1>6. CASE Tunnel!OnServerConnectionDown
    BY <1>0, <1>6 DEF Tunnel!OnServerConnectionDown, Tunnel!TunnelDisconnect, RelayInv, RelayType,
                      RelayLinks, Tunnel!RelayExact, Peer
  <1>7. CASE Tunnel!OnHighWaterMark
    BY <1>0, <1>7 DEF Tunnel!OnHighWaterMark, Tunnel!TunnelDisconnect, RelayInv, RelayType,
                      RelayLinks, Tunnel!RelayExact, Peer
  <1>8. CASE UNCHANGED relayVars
    BY <1>0, <1>8 DEF relayVars, RelayInv, RelayType, RelayLinks, Tunnel!RelayExact
  <1> QED
    BY <1>1, <1>2, <1>3, <1>4, <1>5, <1>6, <1>7, <1>8 DEF Tunnel!Next

(* Both directions of a tunnel are copied exactly, whatever the peers write   *)
(* and however their connections come and go.                                 *)
THEOREM RelayCopies == ServersSpec => []RelayExact
  <1>1. ServersInit => RelayInv
    BY RelayInit DEF ServersInit
  <1>2. RelayInv /\ [ServersNext]_allVars => RelayInv'
    BY PartSteps, RelayStep
  <1>3. RelayInv => RelayExact
    BY DEF RelayInv, RelayExact
  <1> QED
    BY <1>1, <1>2, <1>3, PTL DEF ServersSpec

-----------------------------------------------------------------------------
(* Hub *)

Commands == {"pub", "sub", "unsub"} \X Topics
Messages == Topics \X Nat

HubType ==
    /\ hubConn \in [Clients -> {"no", "up", "down"}]
    /\ toHub \in [Clients -> Seq(Commands)]
    /\ hubToClient \in [Clients -> Seq(Messages)]
    /\ got \in [Clients -> Seq(Messages)] /\ due \in [Clients -> Seq(Messages)]
    /\ subs \in [Clients -> SUBSET Topics] /\ audiences \in [Topics -> SUBSET Clients]
    /\ content \in [Topics -> Nat] /\ published \in Nat

(* What a connected client was promised it has, or is under way to it; before *)
(* it connects there is nothing.                                              *)
Promised ==
    \A c \in Clients :
        /\ hubConn[c] = "up" => got[c] \o hubToClient[c] = due[c]
        /\ hubConn[c] = "no" => got[c] = <<>> /\ due[c] = <<>> /\ hubToClient[c] = <<>>

(* The two tables of the hub agree: the audience of a topic and the           *)
(* connection's own subscriptions.                                            *)
Audience ==
    \A c \in Clients, t \in Topics :
        c \in audiences[t] <=> (hubConn[c] = "up" /\ t \in subs[c])

HubInv == HubType /\ Promised /\ Audience

(* A message behind those under way.                                          *)
LEMMA SendOne ==
    \A a, b \in Seq(Messages), m \in Messages :
        /\ a \o Append(b, m) = Append(a \o b, m)
        /\ Append(b, m) \in Seq(Messages)
  OBVIOUS

(* The last content of a topic, if there is one, behind them.                 *)
LEMMA SendLast ==
    \A a, b \in Seq(Messages), l \in Seq(Messages) :
        a \o (b \o l) = (a \o b) \o l /\ b \o l \in Seq(Messages)
  <1> TAKE a, b \in Seq(Messages), l \in Seq(Messages)
  <1>1. a \o (b \o l) \in Seq(Messages) /\ (a \o b) \o l \in Seq(Messages)
    OBVIOUS
  <1>2. Len(a \o (b \o l)) = Len((a \o b) \o l)
    OBVIOUS
  <1>3. \A i \in 1..Len(a \o (b \o l)) : (a \o (b \o l))[i] = ((a \o b) \o l)[i]
    OBVIOUS
  <1>4. \A x, y \in Seq(Messages) :
          Len(x) = Len(y) /\ (\A i \in 1..Len(x) : x[i] = y[i]) => x = y
    OBVIOUS
  <1> QED
    BY <1>1, <1>2, <1>3, <1>4

(* The next message is read.                                                  *)
LEMMA ReadOne ==
    \A a, b \in Seq(Messages) : b # <<>> =>
        /\ Head(b) \in Messages /\ Tail(b) \in Seq(Messages)
        /\ Append(a, Head(b)) \in Seq(Messages)
        /\ Append(a, Head(b)) \o Tail(b) = a \o b
  <1> TAKE a, b \in Seq(Messages)
  <1> HAVE b # <<>>
  <1> DEFINE x == Append(a, Head(b))
             y == Tail(b)
  <1>1. /\ Head(b) \in Messages /\ y \in Seq(Messages) /\ x \in Seq(Messages)
        /\ Len(x) = Len(a) + 1 /\ Len(y) = Len(b) - 1 /\ x[Len(a) + 1] = b[1]
        /\ Len(a) \in Nat /\ Len(b) \in Nat \ {0}
    OBVIOUS
  <1>2. \A i \in 1..Len(a) : x[i] = a[i]
    OBVIOUS
  <1>3. \A i \in 1..(Len(b) - 1) : y[i] = b[i + 1]
    OBVIOUS
  <1> HIDE DEF x, y
  <1>4. x \o y \in Seq(Messages) /\ a \o b \in Seq(Messages)
        /\ Len(x \o y) = Len(a) + Len(b) /\ Len(a \o b) = Len(a) + Len(b)
    BY <1>1
  <1>5. \A i \in 1..(Len(a) + Len(b)) : (x \o y)[i] = (a \o b)[i]
    <2> TAKE i \in 1..(Len(a) + Len(b))
    <2>1. (x \o y)[i] = IF i <= Len(a) + 1 THEN x[i] ELSE y[i - (Len(a) + 1)]
      BY <1>1
    <2>2. (a \o b)[i] = IF i <= Len(a) THEN a[i] ELSE b[i - Len(a)]
      BY <1>1
    <2>3. CASE i <= Len(a)
      BY <1>1, <1>2, <2>1, <2>2, <2>3
    <2>4. CASE i = Len(a) + 1
      <3>1. i - Len(a) = 1 /\ ~(i <= Len(a))
        BY <1>1, <2>4
      <3> QED
        BY <1>1, <2>1, <2>2, <2>4, <3>1
    <2>5. CASE i > Len(a) + 1
      <3>1. /\ i - (Len(a) + 1) \in 1..(Len(b) - 1) /\ (i - (Len(a) + 1)) + 1 = i - Len(a)
            /\ ~(i <= Len(a)) /\ ~(i <= Len(a) + 1)
        BY <1>1, <2>5
      <3> QED
        BY <1>3, <2>1, <2>2, <3>1
    <2> QED
      BY <1>1, <2>3, <2>4, <2>5
  <1>6. \A s, t \in Seq(Messages) :
          Len(s) = Len(t) /\ (\A i \in 1..Len(s) : s[i] = t[i]) => s = t
    OBVIOUS
  <1>7. x \o y = a \o b
    BY <1>4, <1>5, <1>6
  <1> QED
    BY <1>1, <1>7 DEF x, y

(* The hub's invariant holds at first                                         *)
LEMMA HubInit == PubSub!Init => HubInv
  BY DEF PubSub!Init, HubInv, HubType, Promised, Audience

(* and publishing a content keeps it,                                         *)
LEMMA HubPublish ==
    ASSUME HubInv, NEW t \in Topics, PubSub!DoPublish(t), UNCHANGED <<hubConn, got>>,
           toHub' \in [Clients -> Seq(Commands)]
    PROVE  HubInv'
  <1> DEFINE m == <<t, published + 1>>
  <1>0. HubType /\ Promised /\ Audience
    BY DEF HubInv
  <1>1. /\ published' = published + 1 /\ published' \in Nat
        /\ content' = [content EXCEPT ![t] = published + 1]
        /\ hubToClient' = [c \in Clients |-> IF c \in audiences[t] /\ hubConn[c] = "up"
                                             THEN Append(hubToClient[c], m) ELSE hubToClient[c]]
        /\ due' = [c \in Clients |-> IF t \in subs[c] /\ hubConn[c] = "up"
                                     THEN Append(due[c], m) ELSE due[c]]
        /\ UNCHANGED <<subs, audiences>>
    BY <1>0 DEF PubSub!DoPublish, HubType
  <1>2. m \in Messages
    BY <1>0 DEF HubType, Messages
  <1> HIDE DEF m
  <1>3. ASSUME NEW c \in Clients
        PROVE  /\ hubToClient'[c] \in Seq(Messages) /\ due'[c] \in Seq(Messages)
               /\ hubConn[c] = "up" => got[c] \o hubToClient'[c] = due'[c]
               /\ hubConn[c] = "no" =>
                    got[c] = <<>> /\ due'[c] = <<>> /\ hubToClient'[c] = <<>>
    <2>1. /\ hubToClient[c] \in Seq(Messages) /\ due[c] \in Seq(Messages) /\ got[c] \in Seq(Messages)
          /\ hubConn[c] = "up" => got[c] \o hubToClient[c] = due[c]
          /\ hubConn[c] = "no" => got[c] = <<>> /\ due[c] = <<>> /\ hubToClient[c] = <<>>
          /\ c \in audiences[t] <=> (hubConn[c] = "up" /\ t \in subs[c])
      BY <1>0 DEF HubType, Promised, Audience
    <2>2. CASE hubConn[c] = "up" /\ t \in subs[c]
      <3>1. hubToClient'[c] = Append(hubToClient[c], m) /\ due'[c] = Append(due[c], m)
        BY <1>1, <2>1, <2>2
      <3>2. /\ got[c] \o Append(hubToClient[c], m) = Append(got[c] \o hubToClient[c], m)
            /\ Append(hubToClient[c], m) \in Seq(Messages) /\ Append(due[c], m) \in Seq(Messages)
        BY <1>2, <2>1, SendOne, Zenon
      <3> QED
        BY <2>1, <2>2, <3>1, <3>2
    <2>3. CASE ~(hubConn[c] = "up" /\ t \in subs[c])
      <3>1. hubToClient'[c] = hubToClient[c] /\ due'[c] = due[c]
        BY <1>1, <2>1, <2>3
      <3> QED
        BY <2>1, <3>1
    <2> QED
      BY <2>2, <2>3
  <1>4. hubToClient' \in [Clients -> Seq(Messages)] /\ due' \in [Clients -> Seq(Messages)]
    BY <1>1, <1>3, Zenon
  <1>5. content' \in [Topics -> Nat]
    BY <1>0, <1>1 DEF HubType
  <1>6. HubType'
    BY <1>0, <1>1, <1>4, <1>5 DEF HubType
  <1>7. Promised' /\ Audience'
    BY <1>0, <1>1, <1>3 DEF Promised, Audience
  <1> QED
    BY <1>6, <1>7 DEF HubInv

(* as do subscribing, which sends the last content of the topic at once,      *)
LEMMA HubSubscribe ==
    ASSUME HubInv, NEW c \in Clients, hubConn[c] = "up", NEW t \in Topics,
           PubSub!DoSubscribe(c, t), UNCHANGED <<hubConn, got>>,
           toHub' \in [Clients -> Seq(Commands)]
    PROVE  HubInv'
  <1> DEFINE last == IF content[t] # 0 THEN << <<t, content[t]>> >> ELSE <<>>
  <1>0. HubType /\ Promised /\ Audience
    BY DEF HubInv
  <1>1. /\ subs' = [subs EXCEPT ![c] = @ \cup {t}]
        /\ audiences' = [audiences EXCEPT ![t] = @ \cup {c}]
        /\ hubToClient' = [hubToClient EXCEPT ![c] = @ \o last]
        /\ due' = [due EXCEPT ![c] = @ \o last]
        /\ UNCHANGED <<content, published>>
    BY DEF PubSub!DoSubscribe
  <1>2. last \in Seq(Messages)
    <2>1. <<t, content[t]>> \in Messages
      BY <1>0 DEF HubType, Messages
    <2>2. \A m \in Messages : <<m>> \in Seq(Messages)
      OBVIOUS
    <2>3. <<>> \in Seq(Messages)
      OBVIOUS
    <2> QED
      BY <2>1, <2>2, <2>3
  <1> HIDE DEF last
  <1>3. /\ hubToClient[c] \in Seq(Messages) /\ due[c] \in Seq(Messages) /\ got[c] \in Seq(Messages)
        /\ got[c] \o hubToClient[c] = due[c]
    BY <1>0 DEF HubType, Promised
  <1>4. /\ got[c] \o (hubToClient[c] \o last) = (got[c] \o hubToClient[c]) \o last
        /\ hubToClient[c] \o last \in Seq(Messages) /\ due[c] \o last \in Seq(Messages)
    <2>1. ASSUME NEW a \in Seq(Messages), NEW b \in Seq(Messages), NEW l \in Seq(Messages)
          PROVE  a \o (b \o l) = (a \o b) \o l /\ b \o l \in Seq(Messages)
      BY SendLast
    <2> QED
      BY <1>2, <1>3, <2>1, Zenon
  <1>a. hubToClient'[c] = hubToClient[c] \o last /\ due'[c] = due[c] \o last
    BY <1>0, <1>1 DEF HubType
  <1>b. \A d \in Clients : d # c => hubToClient'[d] = hubToClient[d] /\ due'[d] = due[d]
    BY <1>0, <1>1 DEF HubType
  <1>5. HubType'
    BY <1>0, <1>1, <1>4 DEF HubType
  <1>6. Promised'
    <2> SUFFICES ASSUME NEW d \in Clients
                 PROVE  /\ hubConn[d] = "up" => got[d] \o hubToClient'[d] = due'[d]
                        /\ hubConn[d] = "no" =>
                             got[d] = <<>> /\ due'[d] = <<>> /\ hubToClient'[d] = <<>>
      BY DEF Promised
    <2>1. CASE d = c
      BY <1>3, <1>4, <1>a, <2>1
    <2>2. CASE d # c
      BY <1>0, <1>b, <2>2 DEF Promised
    <2> QED
      BY <2>1, <2>2
  <1>7. Audience'
    BY <1>0, <1>1 DEF HubType, Audience
  <1> QED
    BY <1>5, <1>6, <1>7 DEF HubInv

(* and every other step.                                                      *)
LEMMA HubStep == HubInv /\ [PubSub!Next]_hubVars => HubInv'
  <1> SUFFICES ASSUME HubInv, [PubSub!Next]_hubVars
               PROVE  HubInv'
    OBVIOUS
  <1>0. HubType /\ Promised /\ Audience
    BY DEF HubInv
  <1>1. ASSUME NEW c \in Clients, PubSub!Connect(c)
        PROVE  HubInv'
    <2>1. /\ hubConn[c] = "no" /\ hubConn' = [hubConn EXCEPT ![c] = "up"]
          /\ subs' = [subs EXCEPT ![c] = {}]
          /\ UNCHANGED <<toHub, hubToClient, audiences, content, published, got, due>>
      BY <1>1 DEF PubSub!Connect
    <2>2. <<>> \o <<>> = <<>>
      OBVIOUS
    <2>3. HubType' /\ Audience'
      BY <1>0, <2>1 DEF HubType, Audience
    <2>4. Promised'
      BY <1>0, <2>1, <2>2 DEF HubType, Promised
    <2> QED
      BY <2>3, <2>4 DEF HubInv
  <1>2. ASSUME NEW c \in Clients, NEW cmd \in {"pub", "sub", "unsub"}, NEW t \in Topics,
               PubSub!SendCommand(c, cmd, t)
        PROVE  HubInv'
    <2>1. /\ toHub' = [toHub EXCEPT ![c] = Append(@, <<cmd, t>>)]
          /\ UNCHANGED <<hubConn, hubToClient, subs, audiences, content, published, got, due>>
      BY <1>2 DEF PubSub!SendCommand
    <2>2. \A q \in Seq(Commands) : Append(q, <<cmd, t>>) \in Seq(Commands)
      BY DEF Commands
    <2>3. toHub' \in [Clients -> Seq(Commands)]
      BY <1>0, <2>1, <2>2 DEF HubType
    <2> QED
      BY <1>0, <2>1, <2>3 DEF HubInv, HubType, Promised, Audience
  <1>3. ASSUME NEW c \in Clients, PubSub!HubReads(c)
        PROVE  HubInv'
    <2> DEFINE h == Head(toHub[c])
    <2>1. /\ hubConn[c] = "up" /\ toHub[c] # <<>> /\ toHub' = [toHub EXCEPT ![c] = Tail(@)]
          /\ UNCHANGED <<hubConn, got>>
          /\ \/ PubSub!DoPublish(h[2]) \/ PubSub!DoSubscribe(c, h[2]) \/ PubSub!DoUnsubscribe(c, h[2])
      BY <1>3 DEF PubSub!HubReads
    <2>2. toHub[c] \in Seq(Commands)
      BY <1>0 DEF HubType
    <2>3. h \in Commands /\ Tail(toHub[c]) \in Seq(Commands)
      BY <2>1, <2>2
    <2>4. h[2] \in Topics /\ toHub' \in [Clients -> Seq(Commands)]
      BY <1>0, <2>1, <2>3 DEF HubType, Commands
    <2> HIDE DEF h
    <2>5. CASE PubSub!DoUnsubscribe(c, h[2])
      <3>1. /\ audiences' = [audiences EXCEPT ![h[2]] = @ \ {c}]
            /\ subs' = [subs EXCEPT ![c] = @ \ {h[2]}]
            /\ UNCHANGED <<hubToClient, due, content, published>>
        BY <2>5 DEF PubSub!DoUnsubscribe
      <3>2. HubType'
        BY <1>0, <2>1, <2>4, <3>1 DEF HubType
      <3>3. Promised'
        BY <1>0, <2>1, <3>1 DEF Promised
      <3>4. Audience'
        BY <1>0, <2>1, <2>4, <3>1 DEF HubType, Audience
      <3> QED
        BY <3>2, <3>3, <3>4 DEF HubInv
    <2> QED
      BY <2>1, <2>4, <2>5, HubPublish, HubSubscribe
  <1>4. ASSUME NEW c \in Clients, PubSub!Disconnect(c)
        PROVE  HubInv'
    <2>1. /\ hubConn[c] = "up" /\ hubConn' = [hubConn EXCEPT ![c] = "down"]
          /\ toHub' = [toHub EXCEPT ![c] = <<>>] /\ hubToClient' = [hubToClient EXCEPT ![c] = <<>>]
          /\ audiences' = [t \in Topics |-> IF t \in subs[c] THEN audiences[t] \ {c}
                                            ELSE audiences[t]]
          /\ subs' = [subs EXCEPT ![c] = {}]
          /\ UNCHANGED <<content, published, got, due>>
      BY <1>4 DEF PubSub!Disconnect
    <2>2. <<>> \in Seq(Commands) /\ <<>> \in Seq(Messages)
      OBVIOUS
    <2>3. HubType'
      BY <1>0, <2>1, <2>2 DEF HubType
    <2>4. Promised'
      BY <1>0, <2>1 DEF HubType, Promised
    <2>5. Audience'
      BY <1>0, <2>1 DEF HubType, Audience
    <2> QED
      BY <2>3, <2>4, <2>5 DEF HubInv
  <1>5. ASSUME NEW c \in Clients, PubSub!ClientReads(c)
        PROVE  HubInv'
    <2>1. /\ hubConn[c] = "up" /\ hubToClient[c] # <<>>
          /\ got' = [got EXCEPT ![c] = Append(@, Head(hubToClient[c]))]
          /\ hubToClient' = [hubToClient EXCEPT ![c] = Tail(@)]
          /\ UNCHANGED <<hubConn, toHub, subs, audiences, content, published, due>>
      BY <1>5 DEF PubSub!ClientReads
    <2>2. /\ got[c] \in Seq(Messages) /\ hubToClient[c] \in Seq(Messages)
          /\ got[c] \o hubToClient[c] = due[c]
      BY <1>0, <2>1 DEF HubType, Promised
    <2>3. /\ Tail(hubToClient[c]) \in Seq(Messages)
          /\ Append(got[c], Head(hubToClient[c])) \in Seq(Messages)
          /\ Append(got[c], Head(hubToClient[c])) \o Tail(hubToClient[c]) = due[c]
      BY <2>1, <2>2, ReadOne
    <2>4. HubType'
      BY <1>0, <2>1, <2>3 DEF HubType
    <2>5. Promised'
      BY <1>0, <2>1, <2>3 DEF HubType, Promised
    <2>6. Audience'
      BY <1>0, <2>1 DEF Audience
    <2> QED
      BY <2>4, <2>5, <2>6 DEF HubInv
  <1>6. CASE UNCHANGED hubVars
    BY <1>0, <1>6 DEF hubVars, HubInv, HubType, Promised, Audience
  <1> QED
    BY <1>1, <1>2, <1>3, <1>4, <1>5, <1>6 DEF PubSub!Next

(* Every subscriber gets exactly what is published on its topics, in order,   *)
(* for any clients and topics and however connections come and go.            *)
THEOREM HubExact == ServersSpec => []HubDelivers
  <1>1. ServersInit => HubInv
    BY HubInit DEF ServersInit
  <1>2. HubInv /\ [ServersNext]_allVars => HubInv'
    BY PartSteps, HubStep
  <1>3. HubInv => HubDelivers
    BY DEF HubInv, HubDelivers, PubSub!HubDelivers, Promised, Audience
  <1> QED
    BY <1>1, <1>2, <1>3, PTL DEF ServersSpec

-----------------------------------------------------------------------------
(* MaxConnection and PingPong: counters. *)

(* The parts count with the Cardinality of the modules they extend.           *)
LEMMA SameCount ==
    \A S : /\ Limit!Cardinality(S) = Cardinality(S)
          /\ Ping!Cardinality(S) = Cardinality(S)
          /\ Server!Cardinality(S) = Cardinality(S)
  BY DEF Limit!Cardinality, Ping!Cardinality, Server!Cardinality, Cardinality

(* Counting one more, one less, and a part.                                   *)
LEMMA Counting ==
    ASSUME NEW S, IsFiniteSet(S)
    PROVE  /\ Cardinality(S) \in Nat
           /\ Cardinality(S) = 0 <=> S = {}
           /\ \A x : x \notin S => Cardinality(S \cup {x}) = Cardinality(S) + 1
           /\ \A x : x \in S => Cardinality(S \ {x}) = Cardinality(S) - 1
           /\ \A T : T \subseteq S => IsFiniteSet(T) /\ Cardinality(T) <= Cardinality(S)
  <1>1. \A x : x \notin S => Cardinality(S \cup {x}) = Cardinality(S) + 1
    BY FS_AddElement
  <1>2. \A x : x \in S => Cardinality(S \ {x}) = Cardinality(S) - 1
    BY FS_RemoveElement
  <1>3. \A T : T \subseteq S => IsFiniteSet(T) /\ Cardinality(T) <= Cardinality(S)
    BY FS_Subset
  <1> QED
    BY <1>1, <1>2, <1>3, FS_CardinalityType, FS_EmptySet

Served == {c \in LimitConns : limitConn[c] = "up"}
Counted == {c \in LimitConns : limitConn[c] \in {"up", "shut"}}

(* numConnected_ counts the connections that are there, refused ones too; of  *)
(* those at most Max are served; forceCloseInLoop() is queued only for a      *)
(* connection that was refused.                                               *)
LimitInv ==
    /\ limitConn \in [LimitConns -> Peer] /\ closing \in [LimitConns -> BOOLEAN]
    /\ num = Cardinality(Counted)
    /\ Cardinality(Served) <= Max
    /\ \A c \in LimitConns : closing[c] => limitConn[c] \in {"shut", "gone"}

(* Nobody is connected at first.                                              *)
LEMMA LimitInit == Limit!Init => LimitInv
  <1> SUFFICES ASSUME Limit!Init
               PROVE  LimitInv
    OBVIOUS
  <1>1. limitConn = [c \in LimitConns |-> "no"] /\ closing = [c \in LimitConns |-> FALSE] /\ num = 0
    BY DEF Limit!Init
  <1>2. Served = {} /\ Counted = {}
    BY <1>1 DEF Served, Counted
  <1>3. Cardinality({}) = 0
    BY FS_EmptySet
  <1>4. 0 <= Max
    BY ServersAssumption
  <1> QED
    BY <1>1, <1>2, <1>3, <1>4 DEF LimitInv, Peer

(* Every step keeps the counter right and the limit.                          *)
LEMMA LimitStep == LimitInv /\ [Limit!Next]_limitVars => LimitInv'
  <1> SUFFICES ASSUME LimitInv, [Limit!Next]_limitVars
               PROVE  LimitInv'
    OBVIOUS
  <1>0. /\ limitConn \in [LimitConns -> Peer] /\ closing \in [LimitConns -> BOOLEAN]
        /\ num = Cardinality(Counted) /\ Cardinality(Served) <= Max
        /\ \A c \in LimitConns : closing[c] => limitConn[c] \in {"shut", "gone"}
    BY DEF LimitInv
  <1>f. /\ IsFiniteSet(Counted) /\ IsFiniteSet(Served) /\ IsFiniteSet(Counted') /\ IsFiniteSet(Served')
        /\ Served' \subseteq Counted'
    <2>1. /\ Counted \subseteq LimitConns /\ Served \subseteq LimitConns
          /\ Counted' \subseteq LimitConns /\ Served' \subseteq LimitConns /\ Served' \subseteq Counted'
      BY DEF Counted, Served
    <2> QED
      BY <2>1, ServersAssumption, Counting
  <1>n. /\ num \in Nat /\ Max \in Nat /\ Cardinality(Served) \in Nat /\ Cardinality(Served') \in Nat
        /\ Cardinality(Served') <= Cardinality(Counted')
    BY <1>0, <1>f, ServersAssumption, Counting
  <1>k. ASSUME NEW c \in LimitConns, limitConn[c] \in {"up", "shut"},
               limitConn' = [limitConn EXCEPT ![c] = "gone"], num' = num - 1,
               closing' = closing \/ closing' = [closing EXCEPT ![c] = FALSE]
        PROVE  LimitInv'
    <2>1. Counted' = Counted \ {c} /\ c \in Counted /\ Served' \subseteq Served
      BY <1>0, <1>k DEF Counted, Served
    <2>2. num' = Cardinality(Counted')
      BY <1>0, <1>f, <1>k, <2>1, Counting
    <2>3. Cardinality(Served') <= Cardinality(Served)
      BY <1>f, <2>1, Counting
    <2>4. Cardinality(Served') <= Max
      BY <1>0, <1>n, <2>3
    <2>5. /\ limitConn' \in [LimitConns -> Peer] /\ closing' \in [LimitConns -> BOOLEAN]
          /\ \A d \in LimitConns : closing'[d] => limitConn'[d] \in {"shut", "gone"}
      BY <1>0, <1>k DEF Peer
    <2> QED
      BY <2>2, <2>4, <2>5 DEF LimitInv
  <1>1. ASSUME NEW c \in LimitConns, Limit!OnConnectionUp(c)
        PROVE  LimitInv'
    <2>1. /\ limitConn[c] = "no" /\ num' = num + 1
          /\ limitConn' = [limitConn EXCEPT ![c] = IF num + 1 > Max THEN "shut" ELSE "up"]
          /\ closing' = [closing EXCEPT ![c] = num + 1 > Max]
      BY <1>1 DEF Limit!OnConnectionUp
    <2>2. Counted' = Counted \cup {c} /\ c \notin Counted
      BY <1>0, <2>1 DEF Counted
    <2>3. num' = Cardinality(Counted')
      BY <1>0, <1>f, <2>1, <2>2, Counting
    <2>4. CASE num + 1 > Max
      <3>1. /\ limitConn' = [limitConn EXCEPT ![c] = "shut"] /\ closing' = [closing EXCEPT ![c] = TRUE]
        BY <2>1, <2>4
      <3>2. Served' = Served
        BY <1>0, <2>1, <3>1 DEF Served
      <3>3. /\ limitConn' \in [LimitConns -> Peer] /\ closing' \in [LimitConns -> BOOLEAN]
            /\ \A d \in LimitConns : closing'[d] => limitConn'[d] \in {"shut", "gone"}
        BY <1>0, <3>1 DEF Peer
      <3> QED
        BY <1>0, <2>3, <3>2, <3>3 DEF LimitInv
    <2>5. CASE ~(num + 1 > Max)
      <3>1. /\ limitConn' = [limitConn EXCEPT ![c] = "up"] /\ closing' = [closing EXCEPT ![c] = FALSE]
        <4>1. (num + 1 > Max) = FALSE
          BY <1>n, <2>5
        <4> QED
          BY <2>1, <2>5, <4>1, Zenon
      <3>2. Cardinality(Served') <= Max
        BY <1>n, <2>1, <2>3, <2>5
      <3>3. /\ limitConn' \in [LimitConns -> Peer] /\ closing' \in [LimitConns -> BOOLEAN]
            /\ \A d \in LimitConns : closing'[d] => limitConn'[d] \in {"shut", "gone"}
        BY <1>0, <3>1 DEF Peer
      <3> QED
        BY <2>3, <3>2, <3>3 DEF LimitInv
    <2> QED
      BY <2>4, <2>5
  <1>2. ASSUME NEW c \in LimitConns, Limit!OnConnectionDown(c)
        PROVE  LimitInv'
    BY <1>2, <1>k DEF Limit!OnConnectionDown
  <1>3. ASSUME NEW c \in LimitConns, Limit!ForceCloseInLoop(c)
        PROVE  LimitInv'
    <2>1. closing[c] /\ closing' = [closing EXCEPT ![c] = FALSE] /\ limitConn[c] \in {"shut", "gone"}
      BY <1>0, <1>3 DEF Limit!ForceCloseInLoop
    <2>2. CASE limitConn[c] = "gone"
      <3>1. UNCHANGED <<limitConn, num>>
        BY <1>3, <2>2 DEF Limit!ForceCloseInLoop
      <3>2. Counted' = Counted /\ Served' = Served
        BY <3>1 DEF Counted, Served
      <3> QED
        BY <1>0, <2>1, <3>1, <3>2 DEF LimitInv
    <2>3. CASE limitConn[c] = "shut"
      BY <1>3, <1>k, <2>1, <2>3 DEF Limit!ForceCloseInLoop
    <2> QED
      BY <2>1, <2>2, <2>3
  <1>4. ASSUME NEW c \in LimitConns, Limit!Again(c)
        PROVE  LimitInv'
    <2>1. /\ limitConn[c] = "gone" /\ ~closing[c] /\ limitConn' = [limitConn EXCEPT ![c] = "no"]
          /\ UNCHANGED <<closing, num>>
      BY <1>4 DEF Limit!Again
    <2>2. Counted' = Counted /\ Served' = Served
      BY <1>0, <2>1 DEF Counted, Served
    <2> QED
      BY <1>0, <2>1, <2>2 DEF LimitInv, Peer
  <1>5. CASE UNCHANGED limitVars
    <2>1. Counted' = Counted /\ Served' = Served
      BY <1>5 DEF limitVars, Counted, Served
    <2> QED
      BY <1>0, <1>5, <2>1 DEF limitVars, LimitInv
  <1> QED
    BY <1>1, <1>2, <1>3, <1>4, <1>5 DEF Limit!Next

Connected == {s \in Sessions : session[s] \in {"up", "shut"}}

(* numConnected_ counts the connected sessions.  A report means that some     *)
(* session is gone, so that sessions which are all up at the timeout have not *)
(* been reported on; after that none of them is before its connection, and    *)
(* the report is made when all of them are gone.                              *)
PingInv ==
    /\ session \in [Sessions -> Peer \cup {"connecting"}]
    /\ messagesRead \in [Sessions -> Nat]
    /\ numConnected = Cardinality(Connected)
    /\ reported # -1 => \E s \in Sessions : session[s] = "gone"
    /\ together => \A s \in Sessions : session[s] \in {"up", "shut", "gone"}
    /\ together /\ reported # -1 =>
         reported = Ping!Total /\ \A s \in Sessions : session[s] = "gone"

(* No session is connected at first.                                          *)
LEMMA PingInit == Ping!Init => PingInv
  <1> SUFFICES ASSUME Ping!Init
               PROVE  PingInv
    OBVIOUS
  <1>1. /\ session = [s \in Sessions |-> "no"] /\ messagesRead = [s \in Sessions |-> 0]
        /\ numConnected = 0 /\ reported = -1 /\ together = FALSE
    BY DEF Ping!Init
  <1>2. Connected = {}
    BY <1>1 DEF Connected
  <1>3. Cardinality({}) = 0
    BY FS_EmptySet
  <1> QED
    BY <1>1, <1>2, <1>3 DEF PingInv, Peer

(* Every step keeps the counter right and the report complete.                *)
LEMMA PingStep == PingInv /\ [Ping!Next]_pingVars => PingInv'
  <1> SUFFICES ASSUME PingInv, [Ping!Next]_pingVars
               PROVE  PingInv'
    OBVIOUS
  <1>0. /\ session \in [Sessions -> Peer \cup {"connecting"}] /\ messagesRead \in [Sessions -> Nat]
        /\ numConnected = Cardinality(Connected)
        /\ reported # -1 => \E s \in Sessions : session[s] = "gone"
        /\ together => \A s \in Sessions : session[s] \in {"up", "shut", "gone"}
        /\ together /\ reported # -1 =>
             reported = Ping!Total /\ \A s \in Sessions : session[s] = "gone"
    BY DEF PingInv
  <1>f. IsFiniteSet(Connected) /\ numConnected \in Nat
    <2>1. Connected \subseteq Sessions
      BY DEF Connected
    <2> QED
      BY <1>0, <2>1, ServersAssumption, Counting
  <1>m. messagesRead' = messagesRead => Ping!Total' = Ping!Total
    BY DEF Ping!Total
  <1>1. ASSUME NEW s \in Sessions, Ping!Start(s)
        PROVE  PingInv'
    <2>1. /\ session[s] = "no" /\ session' = [session EXCEPT ![s] = "connecting"]
          /\ UNCHANGED <<messagesRead, numConnected, reported, together>>
      BY <1>1 DEF Ping!Start
    <2>2. Connected' = Connected /\ Ping!Total' = Ping!Total
      BY <1>0, <1>m, <2>1 DEF Connected
    <2>3. ~together
      BY <1>0, <2>1
    <2>4. reported' # -1 => \E t \in Sessions : session'[t] = "gone"
      BY <1>0, <2>1
    <2> QED
      BY <1>0, <2>1, <2>2, <2>3, <2>4 DEF PingInv
  <1>2. ASSUME NEW s \in Sessions, Ping!OnConnect(s)
        PROVE  PingInv'
    <2>1. /\ session[s] = "connecting" /\ session' = [session EXCEPT ![s] = "up"]
          /\ numConnected' = numConnected + 1
          /\ UNCHANGED <<messagesRead, reported, together>>
      BY <1>2 DEF Ping!OnConnect
    <2>2. Connected' = Connected \cup {s} /\ s \notin Connected
      BY <1>0, <2>1 DEF Connected
    <2>3. numConnected' = Cardinality(Connected')
      BY <1>0, <1>f, <2>1, <2>2, Counting
    <2>4. ~together
      BY <1>0, <2>1
    <2>5. reported' # -1 => \E t \in Sessions : session'[t] = "gone"
      BY <1>0, <2>1
    <2> QED
      BY <1>0, <2>1, <2>3, <2>4, <2>5 DEF PingInv, Peer
  <1>3. ASSUME NEW s \in Sessions, Ping!OnMessage(s)
        PROVE  PingInv'
    <2>1. /\ session[s] \in {"up", "shut"} /\ messagesRead' = [messagesRead EXCEPT ![s] = @ + 1]
          /\ UNCHANGED <<session, numConnected, reported, together>>
      BY <1>3 DEF Ping!OnMessage
    <2>2. messagesRead' \in [Sessions -> Nat]
      BY <1>0, <2>1
    <2>3. Connected' = Connected
      BY <2>1 DEF Connected
    <2>4. ~(together /\ reported # -1)
      BY <1>0, <2>1
    <2> QED
      BY <1>0, <2>1, <2>2, <2>3, <2>4 DEF PingInv
  <1>4. ASSUME NEW s \in Sessions, Ping!OnDisconnect(s)
        PROVE  PingInv'
    <2>1. /\ session[s] \in {"up", "shut"} /\ session' = [session EXCEPT ![s] = "gone"]
          /\ numConnected' = numConnected - 1
          /\ IF numConnected = 1 THEN reported' = Ping!Total ELSE reported' = reported
          /\ UNCHANGED <<messagesRead, together>>
      BY <1>4 DEF Ping!OnDisconnect
    <2>2. Connected' = Connected \ {s} /\ s \in Connected
      BY <1>0, <2>1 DEF Connected
    <2>3. numConnected' = Cardinality(Connected')
      BY <1>0, <1>f, <2>1, <2>2, Counting
    <2>4. session'[s] = "gone" /\ session' \in [Sessions -> Peer \cup {"connecting"}]
      BY <1>0, <2>1 DEF Peer
    <2>5. together' => \A t \in Sessions : session'[t] \in {"up", "shut", "gone"}
      BY <1>0, <2>1
    <2>6. together' /\ reported' # -1 =>
            reported' = Ping!Total' /\ \A t \in Sessions : session'[t] = "gone"
      <3> SUFFICES ASSUME together', reported' # -1
                   PROVE  reported' = Ping!Total' /\ \A t \in Sessions : session'[t] = "gone"
        OBVIOUS
      <3>1. ~(together /\ reported # -1)
        BY <1>0, <2>1
      <3>2. numConnected = 1 /\ reported' = Ping!Total
        BY <2>1, <3>1
      <3>3. IsFiniteSet(Connected')
        BY <1>f, <2>2, Counting
      <3>4. Connected' = {}
        BY <2>1, <2>3, <3>2, <3>3, Counting
      <3>5. \A t \in Sessions : session'[t] = "gone"
        BY <2>5, <3>4 DEF Connected
      <3> QED
        BY <1>m, <2>1, <3>2, <3>5
    <2> QED
      BY <1>0, <2>1, <2>3, <2>4, <2>5, <2>6 DEF PingInv
  <1>5. CASE Ping!HandleTimeout
    <2>1. /\ together' = \A s \in Sessions : session[s] = "up"
          /\ UNCHANGED <<session, messagesRead, numConnected, reported>>
      BY <1>5 DEF Ping!HandleTimeout
    <2>2. Connected' = Connected /\ Ping!Total' = Ping!Total
      BY <1>m, <2>1 DEF Connected
    <2>3. together' => \A s \in Sessions : session[s] = "up"
      BY <2>1
    <2>4. ~(together' /\ reported' # -1)
      BY <1>0, <2>1, <2>3
    <2> QED
      BY <1>0, <2>1, <2>2, <2>3, <2>4 DEF PingInv
  <1>6. ASSUME NEW s \in Sessions, Ping!StopSession(s)
        PROVE  PingInv'
    <2>1. /\ session' = [session EXCEPT ![s] = IF @ = "up" THEN "shut" ELSE @]
          /\ UNCHANGED <<messagesRead, numConnected, reported, together>>
      BY <1>6 DEF Ping!StopSession
    <2>2. Connected' = Connected /\ Ping!Total' = Ping!Total
      BY <1>0, <1>m, <2>1 DEF Connected
    <2>3. \A t \in Sessions : session[t] = "gone" => session'[t] = "gone"
      BY <1>0, <2>1
    <2>4. together' => \A t \in Sessions : session'[t] \in {"up", "shut", "gone"}
      BY <1>0, <2>1
    <2>5. session' \in [Sessions -> Peer \cup {"connecting"}]
      BY <1>0, <2>1 DEF Peer
    <2> QED
      BY <1>0, <2>1, <2>2, <2>3, <2>4, <2>5 DEF PingInv
  <1>7. CASE Ping!Quit \/ UNCHANGED pingVars
    <2>1. UNCHANGED <<session, messagesRead, numConnected, reported, together>>
      BY <1>7 DEF Ping!Quit, pingVars
    <2>2. Connected' = Connected /\ Ping!Total' = Ping!Total
      BY <1>m, <2>1 DEF Connected
    <2> QED
      BY <1>0, <2>1, <2>2 DEF PingInv
  <1> QED
    BY <1>1, <1>2, <1>3, <1>4, <1>5, <1>6, <1>7 DEF Ping!Next

(* However connections, refusals, closes and closes by force interleave, at   *)
(* most Max connections are served and numConnected_ is their number with the *)
(* refused ones; the pingpong client's counter is exact too, and its report   *)
(* counts every message of sessions that were all up at the timeout.          *)
THEOREM CountersExact == ServersSpec => []ServedBounded
  <1>1. ServersInit => LimitInv /\ PingInv
    BY LimitInit, PingInit DEF ServersInit
  <1>2. LimitInv /\ PingInv /\ [ServersNext]_allVars => LimitInv' /\ PingInv'
    BY PartSteps, LimitStep, PingStep
  <1>3. LimitInv /\ PingInv => ServedBounded
    <2> SUFFICES ASSUME LimitInv, PingInv
                 PROVE  Limit!ServedBounded /\ Ping!ReportComplete
      BY DEF ServedBounded
    <2>1. Limit!ServedBounded
      BY SameCount DEF LimitInv, Served, Counted, Limit!ServedBounded
    <2>2. Ping!ReportComplete
      BY SameCount DEF PingInv, Connected, Ping!ReportComplete
    <2> QED
      BY <2>1, <2>2
  <1> QED
    BY <1>1, <1>2, <1>3, PTL DEF ServersSpec

-----------------------------------------------------------------------------
(* TcpServer: the pool threads. *)

Functor == {"connectEstablished", "connectDestroyed"} \X ServerConns
Pool == 1..NumThreads

(* The pool has not been started completely.                                  *)
Early == main \in {"constructed", "starting"}

ThreadType ==
    /\ main \in {"constructed", "starting", "running", "stopping", "quitting", "waking",
                 "joining", "stopped"}
    /\ k \in Nat
    /\ thread \in [Pool -> {"none", "created", "published", "testing", "polled", "returned"}]
    /\ loopPtr \in [Pool -> BOOLEAN]

(* A published loop_ means a thread that has made its EventLoop; start() has  *)
(* waited for that of every thread before the server accepts.                 *)
ThreadsUp ==
    /\ \A i \in Pool : loopPtr[i] => thread[i] \notin {"none", "created"}
    /\ main = "starting" => \A i \in Pool : i < k => thread[i] \notin {"none", "created"}
    /\ ~Early => \A i \in Pool : thread[i] \notin {"none", "created"}

ThreadInv == ThreadType /\ ThreadsUp

(* No thread has started.                                                     *)
LEMMA ThreadInit == Server!Init => ThreadInv
  BY DEF Server!Init, Server!Threads, Pool, ThreadInv, ThreadType, ThreadsUp, Early

(* Threads only go forward, and main only past a thread that is up.           *)
LEMMA ThreadStep == ThreadInv /\ [Server!Next]_serverVars => ThreadInv'
  <1> SUFFICES ASSUME ThreadInv, [Server!Next]_serverVars
               PROVE  ThreadInv'
    OBVIOUS
  <1> USE DEF Server!Threads, Pool
  <1>0. ThreadType /\ ThreadsUp /\ NumThreads \in Nat \ {0}
    BY ServersAssumption DEF ThreadInv
  <1>q. ASSUME UNCHANGED <<k, thread, loopPtr>>,
               \/ main' = main
               \/ ~Early /\ main' \in {"stopping", "quitting", "waking", "joining", "stopped"}
        PROVE  ThreadInv'
    BY <1>0, <1>q DEF ThreadInv, ThreadType, ThreadsUp, Early
  <1>1. CASE Server!Start
    BY <1>0, <1>1 DEF Server!Start, Server!poolVars, ThreadInv, ThreadType, ThreadsUp, Early
  <1>2. CASE Server!StartLoop
    BY <1>0, <1>2 DEF Server!StartLoop, ThreadInv, ThreadType, ThreadsUp, Early
  <1>3. CASE Server!LoopStarted
    <2>1. /\ main = "starting" /\ k <= NumThreads /\ loopPtr[k] /\ k' = k + 1
          /\ UNCHANGED <<main, thread, loopPtr>>
      BY <1>3 DEF Server!LoopStarted, Server!poolVars
    <2>2. \A i \in Pool : i < k + 1 => i < k \/ i = k
      BY <1>0 DEF ThreadType
    <2>3. \A i \in Pool : i < k + 1 => thread[i] \notin {"none", "created"}
      BY <1>0, <2>1, <2>2 DEF ThreadsUp
    <2> QED
      BY <1>0, <2>1, <2>3 DEF ThreadInv, ThreadType, ThreadsUp, Early
  <1>4. CASE Server!Listen
    <2>1. /\ main = "starting" /\ k > NumThreads /\ main' = "running"
          /\ UNCHANGED <<k, thread, loopPtr>>
      BY <1>4 DEF Server!Listen, Server!poolVars
    <2>2. \A i \in Pool : i < k
      BY <1>0, <2>1 DEF ThreadType
    <2> QED
      BY <1>0, <2>1, <2>2 DEF ThreadInv, ThreadType, ThreadsUp, Early
  <1>5. CASE Server!AcceptFails \/ Server!RemoveConnectionInLoop
    BY <1>5, <1>q DEF Server!AcceptFails, Server!RemoveConnectionInLoop, Server!poolVars
  <1>6. ASSUME NEW c \in ServerConns, Server!NewConnection(c) \/ Server!DestroyConnection(c)
        PROVE  ThreadInv'
    BY <1>6, <1>q DEF Server!NewConnection, Server!DestroyConnection
  <1>7. CASE Server!Stop \/ Server!WakeupLoop
    BY <1>7, <1>q DEF Server!Stop, Server!WakeupLoop, Server!poolVars, Early
  <1>8. CASE Server!StopPool \/ Server!Join \/ Server!Stopped \/ Server!QuitLoop
    <2>1. /\ ~Early /\ main' \in {"quitting", "waking", "stopped"} /\ UNCHANGED <<thread, loopPtr>>
          /\ k' = 1 \/ k' = k + 1 \/ k' = k
      BY <1>8 DEF Server!StopPool, Server!Join, Server!Stopped, Server!QuitLoop, Server!poolVars, Early
    <2>2. k' \in Nat
      BY <1>0, <2>1 DEF ThreadType
    <2> QED
      BY <1>0, <2>1, <2>2 DEF ThreadInv, ThreadType, ThreadsUp, Early
  <1>9. ASSUME NEW i \in Pool, Server!ThreadStep(i)
        PROVE  ThreadInv'
    <2>1. UNCHANGED <<main, k>>
      BY <1>9 DEF Server!ThreadStep, Server!ThreadFunc, Server!EnterLoop, Server!Poll,
                  Server!DoPendingFunctors, Server!CallFunctor, Server!ReturnLoop
    <2>2. CASE Server!ThreadFunc(i)
      BY <1>0, <2>1, <2>2 DEF Server!ThreadFunc, ThreadInv, ThreadType, ThreadsUp, Early
    <2>3. CASE Server!EnterLoop(i) \/ Server!Poll(i) \/ Server!DoPendingFunctors(i)
      <3>1. /\ thread' = [thread EXCEPT ![i] = "testing"] \/ thread' = [thread EXCEPT ![i] = "polled"]
            /\ loopPtr' = loopPtr
        BY <2>3 DEF Server!EnterLoop, Server!Poll, Server!DoPendingFunctors
      <3> QED
        BY <1>0, <2>1, <3>1 DEF ThreadInv, ThreadType, ThreadsUp, Early
    <2>4. CASE Server!CallFunctor(i)
      BY <1>q, <2>1, <2>4 DEF Server!CallFunctor
    <2>5. CASE Server!ReturnLoop(i)
      BY <1>0, <2>1, <2>5 DEF Server!ReturnLoop, ThreadInv, ThreadType, ThreadsUp, Early
    <2> QED
      BY <1>9, <2>2, <2>3, <2>4, <2>5 DEF Server!ThreadStep
  <1>10. CASE UNCHANGED serverVars
    BY <1>10, <1>q DEF serverVars
  <1> QED
    BY <1>1, <1>2, <1>3, <1>4, <1>5, <1>6, <1>7, <1>8, <1>9, <1>10
       DEF Server!Next, Server!MainStep

-----------------------------------------------------------------------------
(* TcpServer: the connections and the functors queued for them. *)

Live == {"connecting", "connected", "disconnected"}

ConnType ==
    /\ pending \in [Pool -> Seq(Functor)]
    /\ calling \in [Pool -> Nat] /\ \A i \in Pool : calling[i] <= Len(pending[i])
    /\ basePending \in Seq(ServerConns) /\ next \in Pool
    /\ ioLoop \in [ServerConns -> 0..NumThreads]
    /\ state \in [ServerConns -> Live \cup {"none", "gone"}]
    /\ connections \subseteq ServerConns

(* A functor fits: it is queued in the loop of its connection, which          *)
(* connectEstablished() will find connecting, and connectDestroyed() out of   *)
(* the map.                                                                   *)
Fits(i, f, io, st, cs) ==
    /\ io[f[2]] = i
    /\ f[1] = "connectEstablished" => st[f[2]] = "connecting"
    /\ f[1] = "connectDestroyed" => f[2] \notin cs /\ st[f[2]] \in Live

FunctorsFit ==
    \A i \in Pool : \A n \in 1..Len(pending[i]) : Fits(i, pending[i][n], ioLoop, state, connections)

(* A queue has a functor once, and connectDestroyed() after                   *)
(* connectEstablished().                                                      *)
Once(q) ==
    \A n, m \in 1..Len(q) :
      /\ q[n] = q[m] => n = m
      /\ q[n][1] = "connectEstablished" /\ q[m][1] = "connectDestroyed" /\ q[n][2] = q[m][2] => n < m

QueuedOnce == \A i \in Pool : Once(pending[i])

(* A connection that is connecting has its connectEstablished() before it.    *)
Awaits(q, c) == \E n \in 1..Len(q) : q[n] = <<"connectEstablished", c>>

Awaited == \A c \in ServerConns : state[c] = "connecting" => Awaits(pending[ioLoop[c]], c)

(* A connection that has come has a loop, and none comes before the pool is   *)
(* up; the map has every open connection while the server runs.               *)
InMap ==
    /\ \A c \in ServerConns : state[c] = "none" <=> ioLoop[c] = 0
    /\ Early => basePending = <<>> /\ \A c \in ServerConns : state[c] = "none"
    /\ \A c \in connections : state[c] \in Live
    /\ main = "running" =>
         \A c \in ServerConns : state[c] \in {"connecting", "connected"} => c \in connections

(* While the server runs, a removal is queued once for a connection, which    *)
(* the map still has.                                                         *)
Removals ==
    main = "running" =>
      /\ \A n \in 1..Len(basePending) :
           basePending[n] \in connections /\ state[basePending[n]] = "disconnected"
      /\ \A n, m \in 1..Len(basePending) : basePending[n] = basePending[m] => n = m

ConnInv ==
    /\ ConnType /\ FunctorsFit /\ QueuedOnce /\ Awaited /\ InMap /\ Removals
    /\ fault \notin {"state", "erase"}

(* A functor queued, and the front one called.                                *)
LEMMA PushAt ==
    ASSUME NEW q \in Seq(Functor), NEW f \in Functor
    PROVE  /\ Append(q, f) \in Seq(Functor) /\ Len(Append(q, f)) = Len(q) + 1 /\ Len(q) \in Nat
           /\ \A n \in 1..Len(q) : Append(q, f)[n] = q[n]
           /\ Append(q, f)[Len(q) + 1] = f
  OBVIOUS

(* The rest of a queue.                                                       *)
LEMMA PopAt ==
    ASSUME NEW q \in Seq(Functor), q # <<>>
    PROVE  /\ Tail(q) \in Seq(Functor) /\ Len(Tail(q)) = Len(q) - 1 /\ Len(q) \in Nat \ {0}
           /\ \A n \in 1..(Len(q) - 1) : Tail(q)[n] = q[n + 1]
           /\ Head(q) = q[1] /\ q[1] \in Functor
  OBVIOUS

(* A queue keeps its order when a functor that it does not have is queued,    *)
LEMMA OncePush ==
    ASSUME NEW q \in Seq(Functor), NEW f \in Functor, Once(q), \A n \in 1..Len(q) : q[n] # f,
           f[1] = "connectEstablished" => \A n \in 1..Len(q) : q[n][2] # f[2]
    PROVE  Once(Append(q, f))
  <1> DEFINE r == Append(q, f)
  <1>1. /\ Len(r) = Len(q) + 1 /\ Len(q) \in Nat
        /\ \A n \in 1..Len(q) : r[n] = q[n]
        /\ r[Len(q) + 1] = f
    BY PushAt
  <1> HIDE DEF r
  <1>2. ASSUME NEW n \in 1..Len(r), NEW m \in 1..Len(r)
        PROVE  /\ r[n] = r[m] => n = m
               /\ r[n][1] = "connectEstablished" /\ r[m][1] = "connectDestroyed" /\ r[n][2] = r[m][2]
                    => n < m
    <2>1. CASE n \in 1..Len(q) /\ m \in 1..Len(q)
      BY <1>1, <2>1 DEF Once
    <2>2. CASE n = Len(q) + 1 /\ m \in 1..Len(q)
      BY <1>1, <2>2
    <2>3. CASE n \in 1..Len(q) /\ m = Len(q) + 1
      BY <1>1, <2>3
    <2>4. CASE n = Len(q) + 1 /\ m = Len(q) + 1
      BY <1>1, <2>4
    <2> QED
      BY <1>1, <2>1, <2>2, <2>3, <2>4
  <1> QED
    BY <1>2 DEF Once, r

(* and when the one at its front is called.                                   *)
LEMMA OncePop ==
    ASSUME NEW q \in Seq(Functor), q # <<>>, Once(q)
    PROVE  Once(Tail(q))
  <1> DEFINE r == Tail(q)
  <1>1. /\ Len(r) = Len(q) - 1 /\ Len(q) \in Nat \ {0}
        /\ \A n \in 1..(Len(q) - 1) : r[n] = q[n + 1]
    BY PopAt
  <1> HIDE DEF r
  <1>2. ASSUME NEW n \in 1..Len(r), NEW m \in 1..Len(r)
        PROVE  /\ r[n] = r[m] => n = m
               /\ r[n][1] = "connectEstablished" /\ r[m][1] = "connectDestroyed" /\ r[n][2] = r[m][2]
                    => n < m
    <2>1. n + 1 \in 1..Len(q) /\ m + 1 \in 1..Len(q) /\ r[n] = q[n + 1] /\ r[m] = q[m + 1]
      BY <1>1
    <2>2. /\ q[n + 1] = q[m + 1] => n + 1 = m + 1
          /\ q[n + 1][1] = "connectEstablished" /\ q[m + 1][1] = "connectDestroyed"
             /\ q[n + 1][2] = q[m + 1][2] => n + 1 < m + 1
      BY <2>1 DEF Once
    <2> QED
      BY <2>1, <2>2
  <1> QED
    BY <1>2 DEF Once, r

(* A functor queued behind the others fits if all of them do.                 *)
LEMMA FitsPush ==
    ASSUME ConnType, NEW j \in Pool, NEW f \in Functor,
           pending' = [pending EXCEPT ![j] = Append(@, f)],
           \A i \in Pool : \A n \in 1..Len(pending[i]) :
             Fits(i, pending[i][n], ioLoop', state', connections'),
           Fits(j, f, ioLoop', state', connections')
    PROVE  FunctorsFit'
  <1>1. /\ \A i \in Pool : i # j => pending'[i] = pending[i]
        /\ pending'[j] = Append(pending[j], f) /\ pending[j] \in Seq(Functor)
    BY DEF ConnType
  <1>2. /\ Len(pending'[j]) = Len(pending[j]) + 1 /\ Len(pending[j]) \in Nat
        /\ \A n \in 1..Len(pending[j]) : pending'[j][n] = pending[j][n]
        /\ pending'[j][Len(pending[j]) + 1] = f
    BY <1>1, PushAt
  <1>3. ASSUME NEW i \in Pool, NEW n \in 1..Len(pending'[i])
        PROVE  Fits(i, pending'[i][n], ioLoop', state', connections')
    <2>1. CASE i # j
      BY <1>1, <1>3, <2>1
    <2>2. CASE i = j /\ n \in 1..Len(pending[j])
      BY <1>2, <2>2
    <2>3. CASE i = j /\ n = Len(pending[j]) + 1
      BY <1>2, <2>3
    <2> QED
      BY <1>2, <1>3, <2>1, <2>2, <2>3
  <1> QED
    BY <1>3 DEF FunctorsFit

(* Nobody's connectEstablished() is lost by that.                             *)
LEMMA AwaitsPush ==
    ASSUME ConnType, NEW j \in Pool, NEW f \in Functor,
           pending' = [pending EXCEPT ![j] = Append(@, f)],
           NEW i \in Pool, NEW c, Awaits(pending[i], c)
    PROVE  Awaits(pending'[i], c)
  <1>1. /\ i # j => pending'[i] = pending[i]
        /\ pending'[j] = Append(pending[j], f) /\ pending[j] \in Seq(Functor)
    BY DEF ConnType
  <1>2. CASE i # j
    BY <1>1, <1>2
  <1>3. CASE i = j
    <2>1. /\ Len(pending'[j]) = Len(pending[j]) + 1 /\ Len(pending[j]) \in Nat
          /\ \A n \in 1..Len(pending[j]) : pending'[j][n] = pending[j][n]
      BY <1>1, PushAt
    <2> QED
      BY <1>3, <2>1 DEF Awaits
  <1> QED
    BY <1>2, <1>3

(* No connection has come.                                                    *)
LEMMA ConnInit == Server!Init => ConnInv
  <1> SUFFICES ASSUME Server!Init
               PROVE  ConnInv
    OBVIOUS
  <1> USE DEF Server!Threads, Pool
  <1>1. /\ main = "constructed" /\ pending = [i \in Pool |-> <<>>] /\ calling = [i \in Pool |-> 0]
        /\ basePending = <<>> /\ next = 1 /\ ioLoop = [c \in ServerConns |-> 0]
        /\ state = [c \in ServerConns |-> "none"] /\ connections = {} /\ fault = "none"
    BY DEF Server!Init
  <1>2. NumThreads \in Nat \ {0} /\ <<>> \in Seq(Functor) /\ Len(<<>>) = 0 /\ <<>> \in Seq(ServerConns)
    BY ServersAssumption
  <1>3. ConnType
    BY <1>1, <1>2 DEF ConnType
  <1>4. FunctorsFit /\ QueuedOnce
    BY <1>1, <1>2 DEF FunctorsFit, QueuedOnce, Once
  <1>5. Awaited /\ InMap /\ Removals
    BY <1>1 DEF Awaited, InMap, Removals
  <1> QED
    BY <1>1, <1>3, <1>4, <1>5 DEF ConnInv

(* Steps that leave connections, their functors and their removals alone.     *)
LEMMA ConnQuiet ==
    ASSUME ConnInv, UNCHANGED <<pending, basePending, next, ioLoop, state, connections>>,
           calling' \in [Pool -> Nat], \A i \in Pool : calling'[i] <= Len(pending[i]),
           main' = "running" => main = "running" \/ Early, Early' => Early,
           fault' \notin {"state", "erase"}
    PROVE  ConnInv'
  <1>0. ConnType /\ FunctorsFit /\ QueuedOnce /\ Awaited /\ InMap /\ Removals
    BY DEF ConnInv
  <1>1. ConnType'
    BY <1>0 DEF ConnType
  <1>2. FunctorsFit' /\ QueuedOnce' /\ Awaited'
    BY <1>0 DEF FunctorsFit, QueuedOnce, Awaited
  <1>3. InMap'
    BY <1>0 DEF InMap
  <1>4. Removals'
    <2>1. CASE main = "running"
      BY <1>0, <2>1 DEF Removals
    <2>2. CASE Early
      <3>1. basePending' = <<>>
        BY <1>0, <2>2 DEF InMap
      <3> QED
        BY <3>1 DEF Removals
    <2> QED
      BY <2>1, <2>2 DEF Removals
  <1> QED
    BY <1>1, <1>2, <1>3, <1>4 DEF ConnInv

(* newConnection(): the connection is in no queue yet.                        *)
LEMMA ConnNew ==
    ASSUME ConnInv, NEW c \in ServerConns, Server!NewConnection(c), fault = "none"
    PROVE  ConnInv'
  <1> DEFINE f == <<"connectEstablished", c>>
  <1>0. ConnType /\ FunctorsFit /\ QueuedOnce /\ Awaited /\ InMap /\ Removals
    BY DEF ConnInv
  <1>1. /\ main = "running" /\ state[c] = "none" /\ main' = main
        /\ ioLoop' = [ioLoop EXCEPT ![c] = next]
        /\ next' = IF next >= NumThreads THEN 1 ELSE next + 1
        /\ state' = [state EXCEPT ![c] = "connecting"]
        /\ connections' = connections \cup {c}
        /\ pending' = [pending EXCEPT ![next] = Append(@, f)]
        /\ UNCHANGED <<calling, basePending, fault>>
    BY DEF Server!NewConnection, Server!GetNextLoop, Server!Queue
  <1>2. f \in Functor /\ f[1] = "connectEstablished" /\ f[2] = c /\ next \in Pool
        /\ NumThreads \in Nat \ {0}
    BY <1>0, ServersAssumption DEF Functor, ConnType
  <1> HIDE DEF f
  <1>3. \A i \in Pool : \A n \in 1..Len(pending[i]) :
          pending[i][n] \in Functor /\ pending[i][n][2] # c
    <2>1. ASSUME NEW i \in Pool, NEW n \in 1..Len(pending[i])
          PROVE  pending[i][n] \in Functor /\ pending[i][n][2] # c
      <3>1. pending[i][n] \in Functor
        BY <1>0 DEF ConnType
      <3>2. pending[i][n][1] \in {"connectEstablished", "connectDestroyed"}
        BY <3>1 DEF Functor
      <3>3. Fits(i, pending[i][n], ioLoop, state, connections)
        BY <1>0 DEF FunctorsFit
      <3> QED
        BY <1>1, <3>1, <3>2, <3>3 DEF Fits, Live
    <2> QED
      BY <2>1
  <1>4. \A i \in Pool : \A n \in 1..Len(pending[i]) :
          Fits(i, pending[i][n], ioLoop', state', connections')
    <2>1. ASSUME NEW i \in Pool, NEW n \in 1..Len(pending[i])
          PROVE  Fits(i, pending[i][n], ioLoop', state', connections')
      <3>1. pending[i][n][2] \in ServerConns /\ pending[i][n][2] # c
        BY <1>3 DEF Functor
      <3>2. Fits(i, pending[i][n], ioLoop, state, connections)
        BY <1>0 DEF FunctorsFit
      <3> QED
        BY <1>0, <1>1, <3>1, <3>2 DEF Fits, ConnType
    <2> QED
      BY <2>1
  <1>5. Fits(next, f, ioLoop', state', connections')
    BY <1>0, <1>1, <1>2 DEF Fits, ConnType
  <1>6. FunctorsFit'
    BY <1>0, <1>1, <1>2, <1>4, <1>5, FitsPush
  <1>7. QueuedOnce'
    <2>1. Once(Append(pending[next], f))
      BY <1>0, <1>2, <1>3, OncePush DEF QueuedOnce, ConnType
    <2> QED
      BY <1>0, <1>1, <2>1 DEF QueuedOnce, ConnType
  <1>8. Awaited'
    <2> SUFFICES ASSUME NEW d \in ServerConns, state'[d] = "connecting"
                 PROVE  Awaits(pending'[ioLoop'[d]], d)
      BY DEF Awaited
    <2>1. CASE d = c
      <3>1. ioLoop'[d] = next /\ pending'[next] = Append(pending[next], f)
        BY <1>0, <1>1, <1>2, <2>1 DEF ConnType
      <3>2. /\ Len(pending'[next]) = Len(pending[next]) + 1 /\ Len(pending[next]) \in Nat
            /\ pending'[next][Len(pending[next]) + 1] = f
        BY <1>0, <1>2, <3>1, PushAt DEF ConnType
      <3>3. Len(pending[next]) + 1 \in 1..Len(pending'[next])
        BY <3>2
      <3> QED
        BY <2>1, <3>1, <3>2, <3>3 DEF Awaits, f
    <2>2. CASE d # c
      <3>1. ioLoop'[d] = ioLoop[d] /\ state[d] = "connecting"
        BY <1>0, <1>1, <2>2 DEF ConnType
      <3>2. ioLoop[d] \in Pool
        BY <1>0, <3>1, ServersAssumption DEF InMap, ConnType, Pool
      <3>3. Awaits(pending[ioLoop[d]], d)
        BY <1>0, <3>1 DEF Awaited
      <3> QED
        BY <1>0, <1>1, <1>2, <3>1, <3>2, <3>3, AwaitsPush
    <2> QED
      BY <2>1, <2>2
  <1>9. ConnType'
    <2>1. pending' \in [Pool -> Seq(Functor)]
      BY <1>0, <1>1, <1>2 DEF ConnType
    <2>2. \A i \in Pool : Len(pending[i]) <= Len(pending'[i]) /\ Len(pending[i]) \in Nat
      BY <1>0, <1>1, <1>2, PushAt DEF ConnType
    <2>3. \A i \in Pool : calling'[i] <= Len(pending'[i])
      <3> TAKE i \in Pool
      <3>1. calling[i] \in Nat /\ calling[i] <= Len(pending[i]) /\ Len(pending'[i]) \in Nat
        BY <1>0, <2>1 DEF ConnType
      <3> QED
        BY <1>1, <2>2, <3>1
    <2>4. next' \in Pool /\ next \in 0..NumThreads
      BY <1>1, <1>2 DEF Pool
    <2>5. ioLoop' \in [ServerConns -> 0..NumThreads]
      BY <1>0, <1>1, <2>4 DEF ConnType
    <2> QED
      BY <1>0, <1>1, <2>1, <2>3, <2>4, <2>5 DEF ConnType, Live
  <1>10. InMap'
    <2>1. next # 0
      BY <1>2 DEF Pool
    <2> QED
      BY <1>0, <1>1, <2>1 DEF InMap, ConnType, Live, Early
  <1>11. Removals'
    BY <1>0, <1>1 DEF Removals, ConnType
  <1> QED
    BY <1>1, <1>6, <1>7, <1>8, <1>9, <1>10, <1>11 DEF ConnInv

(* A connection that is taken out of the map, by its removal or by            *)
(* ~TcpServer: its connectDestroyed() is queued for the first time.           *)
LEMMA ConnTakenOut ==
    ASSUME ConnInv, NEW c \in connections, connections' = connections \ {c},
           pending' = [pending EXCEPT ![ioLoop[c]] = Append(@, <<"connectDestroyed", c>>)],
           UNCHANGED <<main, calling, next, ioLoop, state>>, fault' \notin {"state", "erase"},
           main # "running" \/ state[c] = "disconnected",
           ~Early, basePending' \in Seq(ServerConns), Removals'
    PROVE  ConnInv'
  <1> DEFINE f == <<"connectDestroyed", c>>
  <1>0. ConnType /\ FunctorsFit /\ QueuedOnce /\ Awaited /\ InMap
    BY DEF ConnInv
  <1>1. c \in ServerConns /\ state[c] \in Live
    BY <1>0 DEF ConnType, InMap
  <1>2. /\ f \in Functor /\ f[1] = "connectDestroyed" /\ f[2] = c /\ ioLoop[c] \in Pool
        /\ pending' = [pending EXCEPT ![ioLoop[c]] = Append(@, f)]
    BY <1>0, <1>1, ServersAssumption DEF Functor, InMap, ConnType, Pool, Live
  <1> HIDE DEF f
  <1>3. ASSUME NEW i \in Pool, NEW n \in 1..Len(pending[i])
        PROVE  /\ pending[i][n] \in Functor /\ pending[i][n] # f
               /\ Fits(i, pending[i][n], ioLoop', state', connections')
    <2>1. pending[i][n] \in Functor /\ Fits(i, pending[i][n], ioLoop, state, connections)
      BY <1>0 DEF ConnType, FunctorsFit
    <2> QED
      BY <1>2, <2>1 DEF Fits
  <1>4. Fits(ioLoop[c], f, ioLoop', state', connections')
    BY <1>1, <1>2 DEF Fits
  <1>5. FunctorsFit'
    BY <1>0, <1>2, <1>3, <1>4, FitsPush
  <1>6. QueuedOnce'
    <2> DEFINE q == pending[ioLoop[c]]
    <2>0. q \in Seq(Functor) /\ Once(q) /\ \A n \in 1..Len(q) : q[n] # f
      BY <1>0, <1>2, <1>3 DEF QueuedOnce, ConnType
    <2>1. Once(Append(q, f))
      <3> HIDE DEF q
      <3> QED
        BY <1>2, <2>0, OncePush
    <2> QED
      BY <1>0, <1>2, <2>1 DEF QueuedOnce, ConnType
  <1>7. Awaited'
    <2> SUFFICES ASSUME NEW d \in ServerConns, state[d] = "connecting"
                 PROVE  Awaits(pending'[ioLoop[d]], d)
      BY DEF Awaited
    <2>1. ioLoop[d] \in Pool
      BY <1>0, ServersAssumption DEF InMap, ConnType, Pool
    <2>2. Awaits(pending[ioLoop[d]], d)
      BY <1>0 DEF Awaited
    <2> QED
      BY <1>0, <1>2, <2>1, <2>2, AwaitsPush
  <1>8. ConnType'
    <2>0. pending \in [Pool -> Seq(Functor)] /\ Append(pending[ioLoop[c]], f) \in Seq(Functor)
      BY <1>0, <1>2, PushAt DEF ConnType
    <2>1. pending' \in [Pool -> Seq(Functor)]
      BY <1>2, <2>0
    <2>2. \A i \in Pool : Len(pending[i]) <= Len(pending'[i]) /\ Len(pending[i]) \in Nat
      BY <1>0, <1>2, PushAt DEF ConnType
    <2>3. \A i \in Pool : calling'[i] <= Len(pending'[i])
      <3> TAKE i \in Pool
      <3>1. calling[i] \in Nat /\ calling[i] <= Len(pending[i]) /\ Len(pending'[i]) \in Nat
        BY <1>0, <2>1 DEF ConnType
      <3> QED
        BY <2>2, <3>1
    <2> QED
      BY <1>0, <2>1, <2>3 DEF ConnType
  <1>9. InMap'
    BY <1>0 DEF InMap, Early
  <1> QED
    BY <1>5, <1>6, <1>7, <1>8, <1>9 DEF ConnInv

(* removeConnectionInLoop(): the map still has the connection, whose peer     *)
(* has closed, and no other removal of it is queued.                          *)
LEMMA ConnRemove ==
    ASSUME ConnInv, Server!RemoveConnectionInLoop, fault = "none"
    PROVE  ConnInv'
  <1> DEFINE c == Head(basePending)
  <1>0. ConnType /\ Removals
    BY DEF ConnInv
  <1>1. /\ main = "running" /\ basePending # <<>> /\ basePending' = Tail(basePending)
        /\ fault' = IF c \in connections THEN fault ELSE "erase"
        /\ connections' = connections \ {c}
        /\ pending' = [pending EXCEPT ![ioLoop[c]] = Append(@, <<"connectDestroyed", c>>)]
        /\ UNCHANGED <<main, calling, next, ioLoop, state>>
    BY DEF Server!RemoveConnectionInLoop, Server!Queue
  <1>2. /\ basePending \in Seq(ServerConns) /\ Len(basePending) \in Nat \ {0} /\ c = basePending[1]
        /\ basePending' \in Seq(ServerConns) /\ Len(basePending') = Len(basePending) - 1
        /\ \A n \in 1..(Len(basePending) - 1) : basePending'[n] = basePending[n + 1]
    BY <1>0, <1>1 DEF ConnType
  <1> HIDE DEF c
  <1>3. c \in connections /\ state[c] = "disconnected"
    BY <1>0, <1>1, <1>2 DEF Removals
  <1>4. ASSUME NEW n \in 1..Len(basePending')
        PROVE  /\ n + 1 \in 1..Len(basePending) /\ n + 1 # 1 /\ n \in Nat
               /\ basePending'[n] = basePending[n + 1]
    BY <1>2
  <1>5. Removals'
    <2>1. ASSUME NEW n \in 1..Len(basePending')
          PROVE  basePending'[n] \in connections' /\ state'[basePending'[n]] = "disconnected"
      <3>1. basePending[n + 1] # basePending[1]
        BY <1>0, <1>1, <1>2, <1>4 DEF Removals
      <3> QED
        BY <1>0, <1>1, <1>2, <1>4, <3>1 DEF Removals
    <2>2. ASSUME NEW n \in 1..Len(basePending'), NEW m \in 1..Len(basePending'),
                 basePending'[n] = basePending'[m]
          PROVE  n = m
      <3>1. n + 1 = m + 1
        BY <1>0, <1>1, <1>4, <2>2 DEF Removals
      <3> QED
        BY <1>4, <3>1
    <2> QED
      BY <2>1, <2>2 DEF Removals
  <1>6. ~Early /\ fault' \notin {"state", "erase"}
    BY <1>1, <1>3 DEF Early
  <1> QED
    BY <1>1, <1>2, <1>3, <1>5, <1>6, ConnTakenOut

(* ~TcpServer takes every connection out of the map, whatever its state.      *)
LEMMA ConnDestroy ==
    ASSUME ConnInv, NEW c \in ServerConns, Server!DestroyConnection(c), fault = "none"
    PROVE  ConnInv'
  <1>1. /\ main = "stopping" /\ c \in connections /\ connections' = connections \ {c}
        /\ pending' = [pending EXCEPT ![ioLoop[c]] = Append(@, <<"connectDestroyed", c>>)]
        /\ UNCHANGED <<main, calling, next, ioLoop, state, basePending, fault>>
    BY DEF Server!DestroyConnection, Server!Queue
  <1>2. basePending' \in Seq(ServerConns)
    BY <1>1 DEF ConnInv, ConnType
  <1>3. Removals' /\ ~Early /\ main # "running" /\ fault' \notin {"state", "erase"}
    BY <1>1 DEF Removals, Early
  <1> QED
    BY <1>1, <1>2, <1>3, ConnTakenOut

(* The peer has closed: handleClose() in the loop of the connection.  No      *)
(* connectEstablished() waits for it, and its removal is queued only now.     *)
LEMMA ConnClose ==
    ASSUME ConnInv, NEW c \in ServerConns, state[c] = "connected",
           state' = [state EXCEPT ![c] = "disconnected"],
           basePending' = Append(basePending, c),
           UNCHANGED <<main, pending, calling, next, ioLoop, connections, fault>>
    PROVE  ConnInv'
  <1>0. ConnType /\ FunctorsFit /\ QueuedOnce /\ Awaited /\ InMap /\ Removals
        /\ fault \notin {"state", "erase"}
    BY DEF ConnInv
  <1>1. /\ state'[c] = "disconnected" /\ \A d \in ServerConns : d # c => state'[d] = state[d]
        /\ state' \in [ServerConns -> Live \cup {"none", "gone"}]
    BY <1>0 DEF ConnType, Live
  <1>2. /\ basePending \in Seq(ServerConns) /\ Len(basePending) \in Nat
        /\ basePending' \in Seq(ServerConns) /\ Len(basePending') = Len(basePending) + 1
        /\ \A n \in 1..Len(basePending) : basePending'[n] = basePending[n]
        /\ basePending'[Len(basePending) + 1] = c
    BY <1>0 DEF ConnType
  <1>3. ConnType'
    BY <1>0, <1>1, <1>2 DEF ConnType
  <1>4. FunctorsFit'
    <2>1. ASSUME NEW i \in Pool, NEW n \in 1..Len(pending[i])
          PROVE  Fits(i, pending[i][n], ioLoop', state', connections')
      <3>1. pending[i][n] \in Functor /\ Fits(i, pending[i][n], ioLoop, state, connections)
        BY <1>0 DEF ConnType, FunctorsFit
      <3>2. pending[i][n][2] \in ServerConns
        BY <3>1 DEF Functor
      <3>3. CASE pending[i][n][2] # c
        BY <1>1, <3>1, <3>2, <3>3 DEF Fits
      <3>4. CASE pending[i][n][2] = c
        BY <1>1, <3>1, <3>4 DEF Fits, Live
      <3> QED
        BY <3>3, <3>4
    <2> QED
      BY <2>1 DEF FunctorsFit
  <1>5. QueuedOnce' /\ Awaited'
    BY <1>0, <1>1 DEF QueuedOnce, Awaited
  <1>6. ~Early
    BY <1>0 DEF InMap
  <1>7. InMap'
    <2>1. ~Early'
      BY <1>6 DEF Early
    <2> QED
      BY <1>0, <1>1, <2>1 DEF InMap, ConnType, Live
  <1>8. Removals'
    <2> SUFFICES ASSUME main = "running"
                 PROVE  Removals'
      BY DEF Removals
    <2>1. c \in connections /\ \A n \in 1..Len(basePending) : basePending[n] # c
      BY <1>0 DEF InMap, Removals
    <2>2. ASSUME NEW n \in 1..Len(basePending')
          PROVE  basePending'[n] \in connections' /\ state'[basePending'[n]] = "disconnected"
      <3>1. CASE n \in 1..Len(basePending)
        BY <1>0, <1>1, <1>2, <2>1, <3>1 DEF Removals, ConnType
      <3>2. CASE n = Len(basePending) + 1
        BY <1>1, <1>2, <2>1, <3>2
      <3> QED
        BY <1>2, <3>1, <3>2
    <2>3. ASSUME NEW n \in 1..Len(basePending'), NEW m \in 1..Len(basePending'),
                 basePending'[n] = basePending'[m]
          PROVE  n = m
      <3>1. CASE n \in 1..Len(basePending) /\ m \in 1..Len(basePending)
        BY <1>0, <1>2, <2>3, <3>1 DEF Removals
      <3>2. CASE n = Len(basePending) + 1 /\ m \in 1..Len(basePending)
        BY <1>2, <2>1, <2>3, <3>2
      <3>3. CASE n \in 1..Len(basePending) /\ m = Len(basePending) + 1
        BY <1>2, <2>1, <2>3, <3>3
      <3> QED
        BY <1>2, <3>1, <3>2, <3>3
    <2> QED
      BY <2>2, <2>3 DEF Removals
  <1> QED
    BY <1>0, <1>3, <1>4, <1>5, <1>7, <1>8 DEF ConnInv


(* A functor is called: it finds its connection as it expects, because a      *)
(* connectDestroyed() is never ahead of the connectEstablished() it undoes.   *)
LEMMA ConnCall ==
    ASSUME ConnInv, NEW i \in Pool, Server!CallFunctor(i), fault = "none"
    PROVE  ConnInv'
  <1> DEFINE q == pending[i]
             f == Head(q)
             c == f[2]
             s == IF f[1] = "connectEstablished" THEN "connected" ELSE "gone"
  <1>0. ConnType /\ FunctorsFit /\ QueuedOnce /\ Awaited /\ InMap /\ Removals
    BY DEF ConnInv
  <1>1. /\ calling[i] > 0
        /\ state' = [state EXCEPT ![c] = s]
        /\ fault' = IF state[c] \in Server!Expects(f[1]) THEN fault ELSE "state"
        /\ pending' = [pending EXCEPT ![i] = Tail(@)]
        /\ calling' = [calling EXCEPT ![i] = @ - 1]
        /\ UNCHANGED <<main, next, ioLoop, connections, basePending>>
    BY DEF Server!CallFunctor, Server!After
  <1>2. /\ q \in Seq(Functor) /\ calling[i] \in Nat /\ calling[i] <= Len(q) /\ Once(q)
        /\ pending \in [Pool -> Seq(Functor)] /\ calling \in [Pool -> Nat]
    BY <1>0 DEF ConnType, QueuedOnce
  <1>3. q # <<>>
    <2>1. Len(q) \in Nat /\ Len(q) > 0
      BY <1>1, <1>2
    <2> QED
      BY <2>1
  <1>4. /\ Tail(q) \in Seq(Functor) /\ Len(Tail(q)) = Len(q) - 1 /\ Len(q) \in Nat \ {0}
        /\ \A n \in 1..(Len(q) - 1) : Tail(q)[n] = q[n + 1]
        /\ f = q[1] /\ f \in Functor /\ 1 \in 1..Len(q)
    BY <1>2, <1>3, PopAt
  <1>5. /\ c \in ServerConns /\ f[1] \in {"connectEstablished", "connectDestroyed"}
        /\ f = <<f[1], c>>
    BY <1>4 DEF Functor
  <1>6. Fits(i, f, ioLoop, state, connections)
    BY <1>0, <1>4 DEF FunctorsFit
  <1>7. pending'[i] = Tail(q) /\ \A j \in Pool : j # i => pending'[j] = pending[j]
    BY <1>1, <1>2
  <1> HIDE DEF q, f, c, s
  <1>8. ioLoop[c] = i /\ state[c] \in Server!Expects(f[1])
    <2>1. ioLoop[c] = i
      BY <1>6 DEF Fits, c
    <2>2. CASE f[1] = "connectEstablished"
      BY <1>6, <2>2 DEF Fits, c, Server!Expects
    <2>3. CASE f[1] = "connectDestroyed"
      <3>1. state[c] \in Live
        BY <1>6, <2>3 DEF Fits, c
      <3>2. state[c] # "connecting"
        <4> SUFFICES ASSUME state[c] = "connecting"
                     PROVE  FALSE
          OBVIOUS
        <4>1. PICK n \in 1..Len(q) : q[n] = <<"connectEstablished", c>>
          BY <1>0, <1>5, <2>1 DEF Awaited, Awaits, q
        <4>2. /\ q[n][1] = "connectEstablished" /\ q[n][2] = c
              /\ q[1][1] = "connectDestroyed" /\ q[1][2] = c
          BY <1>4, <2>3, <4>1 DEF c
        <4>3. n < 1
          BY <1>2, <1>4, <4>2 DEF Once
        <4> QED
          BY <1>4, <4>3
      <3>3. Server!Expects(f[1]) = {"connected", "disconnected"}
        BY <2>3 DEF Server!Expects
      <3> QED
        BY <2>1, <3>1, <3>2, <3>3 DEF Live
    <2> QED
      BY <1>5, <2>1, <2>2, <2>3
  <1>9. /\ fault' = "none" /\ s \in {"connected", "gone"}
        /\ state'[c] = s /\ \A d \in ServerConns : d # c => state'[d] = state[d]
        /\ state' \in [ServerConns -> Live \cup {"none", "gone"}]
        /\ state[c] \in Live
    BY <1>0, <1>1, <1>5, <1>8 DEF ConnType, Live, s, Server!Expects
  <1>10. ConnType'
    <2>1. pending' \in [Pool -> Seq(Functor)]
      BY <1>1, <1>2, <1>4 DEF q
    <2>2. calling' \in [Pool -> Nat] /\ calling'[i] <= Len(pending'[i])
      BY <1>1, <1>2, <1>4, <1>7
    <2>3. \A j \in Pool : calling'[j] <= Len(pending'[j])
      <3> TAKE j \in Pool
      <3>1. CASE j = i
        BY <2>2, <3>1
      <3>2. CASE j # i
        BY <1>0, <1>1, <1>7, <3>2 DEF ConnType
      <3> QED
        BY <3>1, <3>2
    <2> QED
      BY <1>0, <1>1, <1>9, <2>1, <2>2, <2>3 DEF ConnType
  (* What is left in a queue was there, and is not f. *)
  <1>11. ASSUME NEW j \in Pool, NEW n \in 1..Len(pending'[j])
         PROVE  /\ \E m \in 1..Len(pending[j]) : pending[j][m] = pending'[j][n]
                /\ pending'[j][n] # f \/ j # i
    <2>1. CASE j # i
      BY <1>7, <1>11, <2>1
    <2>2. CASE j = i
      <3>1. n + 1 \in 1..Len(q) /\ pending'[j][n] = q[n + 1] /\ n + 1 # 1
        BY <1>4, <1>7, <1>11, <2>2
      <3>2. q[n + 1] # q[1]
        BY <1>2, <1>4, <3>1 DEF Once
      <3> QED
        BY <1>4, <2>2, <3>1, <3>2 DEF q
    <2> QED
      BY <2>1, <2>2
  <1>12. FunctorsFit'
    <2> SUFFICES ASSUME NEW j \in Pool, NEW n \in 1..Len(pending'[j])
                 PROVE  Fits(j, pending'[j][n], ioLoop', state', connections')
      BY DEF FunctorsFit
    <2> DEFINE g == pending'[j][n]
    <2> SUFFICES Fits(j, g, ioLoop', state', connections')
      OBVIOUS
    <2>1. PICK m \in 1..Len(pending[j]) : pending[j][m] = g
      BY <1>11
    <2>2. g \in Functor /\ Fits(j, g, ioLoop, state, connections) /\ (g # f \/ j # i)
      BY <1>0, <1>11, <2>1 DEF ConnType, FunctorsFit
    <2> HIDE DEF g
    <2>3. /\ g[2] \in ServerConns /\ g[1] \in {"connectEstablished", "connectDestroyed"}
          /\ g = <<g[1], g[2]>>
      BY <2>2 DEF Functor
    <2>e. ioLoop' = ioLoop /\ connections' = connections
      BY <1>1
    <2>4. CASE g[2] # c
      <3>1. state'[g[2]] = state[g[2]]
        BY <1>9, <2>3, <2>4
      <3> QED
        BY <2>2, <2>e, <3>1 DEF Fits
    <2>5. CASE g[2] = c
      <3>1. j = i /\ g[1] # f[1]
        BY <1>5, <1>8, <2>2, <2>3, <2>5 DEF Fits
      <3>2. CASE f[1] = "connectEstablished"
        <4>1. g[1] = "connectDestroyed" /\ s = "connected"
          BY <2>3, <3>1, <3>2 DEF s
        <4> QED
          BY <1>9, <2>2, <2>5, <2>e, <4>1 DEF Fits, Live
      <3>3. CASE f[1] = "connectDestroyed"
        <4>1. g[1] = "connectEstablished"
          BY <2>3, <3>1, <3>3
        <4>2. state[c] = "connecting"
          BY <2>2, <2>5, <4>1 DEF Fits
        <4> QED
          BY <1>8, <3>3, <4>2 DEF Server!Expects
      <3> QED
        BY <1>5, <3>2, <3>3
    <2> QED
      BY <2>4, <2>5
  <1>13. QueuedOnce'
    <2>1. Once(Tail(q))
      BY <1>2, <1>3, OncePop
    <2> QED
      BY <1>0, <1>7, <2>1 DEF QueuedOnce
  <1>14. Awaited'
    <2> SUFFICES ASSUME NEW d \in ServerConns, state'[d] = "connecting"
                 PROVE  Awaits(pending'[ioLoop[d]], d)
      BY <1>1 DEF Awaited
    <2>1. d # c /\ state[d] = "connecting"
      BY <1>9
    <2>2. Awaits(pending[ioLoop[d]], d) /\ ioLoop[d] # 0 /\ ioLoop[d] \in 0..NumThreads
      BY <1>0, <2>1 DEF Awaited, InMap, ConnType
    <2>3. ioLoop[d] \in Pool
      BY <2>2, ServersAssumption DEF Pool
    <2>4. CASE ioLoop[d] # i
      BY <1>7, <2>2, <2>3, <2>4
    <2>5. CASE ioLoop[d] = i
      <3>1. PICK n \in 1..Len(q) : q[n] = <<"connectEstablished", d>>
        BY <2>2, <2>5 DEF Awaits, q
      <3>2. n # 1
        BY <1>4, <1>5, <2>1, <3>1
      <3>3. n - 1 \in 1..(Len(q) - 1) /\ (n - 1) + 1 = n
        BY <1>4, <3>2
      <3>4. Tail(q)[n - 1] = <<"connectEstablished", d>> /\ n - 1 \in 1..Len(Tail(q))
        BY <1>4, <3>1, <3>3
      <3> QED
        BY <1>7, <2>5, <3>4 DEF Awaits
    <2> QED
      BY <2>4, <2>5
  <1>15. InMap'
    <2>1. ~Early' /\ ioLoop[c] # 0
      BY <1>0, <1>1, <1>5, <1>9 DEF InMap, Early, Live
    <2>2. c \in connections => s = "connected"
      BY <1>5, <1>6 DEF Fits, c, s
    <2>3. \A d \in connections : state'[d] \in Live
      BY <1>0, <1>9, <2>2 DEF InMap, ConnType, Live
    <2>4. main' = "running" =>
            \A d \in ServerConns : state'[d] \in {"connecting", "connected"} => d \in connections
      <3>1. s = "connected" => state[c] = "connecting"
        BY <1>5, <1>8 DEF s, Server!Expects
      <3> QED
        BY <1>0, <1>1, <1>5, <1>9, <3>1 DEF InMap
    <2>5. \A d \in ServerConns : state'[d] = "none" <=> ioLoop[d] = 0
      BY <1>0, <1>9, <2>1 DEF InMap
    <2> QED
      BY <1>1, <2>1, <2>3, <2>4, <2>5 DEF InMap
  <1>16. Removals'
    <2>1. main = "running" => \A n \in 1..Len(basePending) : basePending[n] # c
      <3>1. CASE f[1] = "connectEstablished"
        BY <1>0, <1>8, <3>1 DEF Removals, Server!Expects
      <3>2. CASE f[1] = "connectDestroyed"
        BY <1>0, <1>6, <3>2 DEF Removals, Fits, c
      <3> QED
        BY <1>5, <3>1, <3>2
    <2> QED
      BY <1>0, <1>1, <1>9, <2>1 DEF Removals, ConnType
  <1> QED
    BY <1>9, <1>10, <1>12, <1>13, <1>14, <1>15, <1>16 DEF ConnInv


(* One case for each action.  Those that only move main or a thread leave     *)
(* the connections alone.                                                     *)
LEMMA ConnStep == ConnInv /\ [Server!Next]_serverVars => ConnInv'
  <1> SUFFICES ASSUME ConnInv, [Server!Next]_serverVars
               PROVE  ConnInv'
    OBVIOUS
  <1> DEFINE same == <<pending, basePending, next, ioLoop, state, connections>>
  <1>0. /\ calling \in [Pool -> Nat] /\ \A i \in Pool : calling[i] <= Len(pending[i])
        /\ pending \in [Pool -> Seq(Functor)] /\ fault \notin {"state", "erase"}
    BY DEF ConnInv, ConnType
  <1>1. CASE UNCHANGED serverVars
    BY <1>0, <1>1, ConnQuiet DEF serverVars, Early
  <1>2. CASE Server!Next
    <2>0. fault = "none"
      BY <1>2 DEF Server!Next
    <2>1. CASE Server!Start \/ Server!StartLoop \/ Server!LoopStarted \/ Server!Listen
               \/ Server!AcceptFails \/ Server!Stop \/ Server!StopPool \/ Server!QuitLoop
               \/ Server!WakeupLoop \/ Server!Join \/ Server!Stopped
      <3>1. UNCHANGED same /\ calling' = calling
        BY <2>1 DEF Server!Start, Server!StartLoop, Server!LoopStarted, Server!Listen,
                    Server!AcceptFails, Server!Stop, Server!StopPool, Server!QuitLoop,
                    Server!WakeupLoop, Server!Join, Server!Stopped, Server!poolVars,
                    Server!connVars
      <3>2. fault' \in {fault, "abort", "deadLoop"}
        BY <2>1 DEF Server!Start, Server!StartLoop, Server!LoopStarted, Server!Listen,
                    Server!AcceptFails, Server!Stop, Server!StopPool, Server!QuitLoop,
                    Server!WakeupLoop, Server!Join, Server!Stopped
      <3>3. (main' = "running" => main = "running" \/ Early) /\ (Early' => Early)
        BY <2>1 DEF Server!Start, Server!StartLoop, Server!LoopStarted, Server!Listen,
                    Server!AcceptFails, Server!Stop, Server!StopPool, Server!QuitLoop,
                    Server!WakeupLoop, Server!Join, Server!Stopped, Early
      <3> QED
        BY <1>0, <2>0, <3>1, <3>2, <3>3, ConnQuiet
    <2>2. CASE Server!RemoveConnectionInLoop
      BY <2>0, <2>2, ConnRemove
    <2>3. ASSUME NEW c \in ServerConns, Server!NewConnection(c) \/ Server!DestroyConnection(c)
          PROVE  ConnInv'
      BY <2>0, <2>3, ConnNew, ConnDestroy
    <2>4. ASSUME NEW i \in Pool, Server!ThreadStep(i)
          PROVE  ConnInv'
      <3>1. CASE Server!ThreadFunc(i) \/ Server!EnterLoop(i) \/ Server!ReturnLoop(i)
        <4>1. UNCHANGED same /\ calling' = calling /\ main' = main
          BY <3>1 DEF Server!ThreadFunc, Server!EnterLoop, Server!ReturnLoop, Server!connVars
        <4>2. fault' \in {fault, "lostFunctor"}
          BY <3>1 DEF Server!ThreadFunc, Server!EnterLoop, Server!ReturnLoop
        <4> QED
          BY <1>0, <2>0, <4>1, <4>2, ConnQuiet DEF Early
      <3>2. CASE Server!DoPendingFunctors(i)
        <4>1. UNCHANGED same /\ main' = main /\ fault' = fault
              /\ calling' = [calling EXCEPT ![i] = Len(pending[i])]
          BY <3>2 DEF Server!DoPendingFunctors, Server!connVars
        <4>2. Len(pending[i]) \in Nat
          BY <1>0
        <4>3. calling' \in [Pool -> Nat] /\ \A j \in Pool : calling'[j] <= Len(pending[j])
          BY <1>0, <4>1, <4>2
        <4> QED
          BY <1>0, <4>1, <4>3, ConnQuiet DEF Early
      <3>3. CASE Server!Poll(i)
        <4>1. /\ UNCHANGED <<main, pending, calling, next, ioLoop, connections, fault>>
              /\ \/ UNCHANGED <<state, basePending>>
                 \/ \E c \in ServerConns :
                      /\ state[c] = "connected" /\ state' = [state EXCEPT ![c] = "disconnected"]
                      /\ basePending' = Append(basePending, c)
          BY <3>3 DEF Server!Poll
        <4>2. CASE UNCHANGED <<state, basePending>>
          BY <1>0, <4>1, <4>2, ConnQuiet DEF Early
        <4> QED
          BY <4>1, <4>2, ConnClose
      <3>4. CASE Server!CallFunctor(i)
        BY <2>0, <3>4, ConnCall
      <3> QED
        BY <2>4, <3>1, <3>2, <3>3, <3>4 DEF Server!ThreadStep
    <2> QED
      BY <1>2, <2>1, <2>2, <2>3, <2>4 DEF Server!Next, Server!MainStep, Server!Threads, Pool
  <1> QED
    BY <1>1, <1>2

-----------------------------------------------------------------------------
(* TcpServer: round robin. *)

Given(io, i) == {c \in ServerConns : io[c] = i}

(* The loops before next_ have one connection more than the others.           *)
EvenInv ==
    \E m \in Nat : \A i \in Pool :
      Cardinality(Given(ioLoop, i)) = IF i < next THEN m + 1 ELSE m

(* No loop has a connection.                                                  *)
LEMMA EvenInit == Server!Init => EvenInv
  <1> SUFFICES ASSUME Server!Init
               PROVE  EvenInv
    OBVIOUS
  <1>1. next = 1 /\ ioLoop = [c \in ServerConns |-> 0]
    BY DEF Server!Init
  <1>2. \A i \in Pool : Given(ioLoop, i) = {} /\ ~(i < next)
    BY <1>1, ServersAssumption DEF Given, Pool
  <1>3. Cardinality({}) = 0
    BY FS_EmptySet
  <1> QED
    BY <1>2, <1>3 DEF EvenInv

(* A connection that comes is given to next_.                                 *)
LEMMA EvenStep == ConnInv /\ EvenInv /\ [Server!Next]_serverVars => EvenInv'
  <1> SUFFICES ASSUME ConnInv, EvenInv, [Server!Next]_serverVars
               PROVE  EvenInv'
    OBVIOUS
  <1>1. CASE \E c \in ServerConns : Server!NewConnection(c)
    <2>0. PICK c \in ServerConns : Server!NewConnection(c)
      BY <1>1
    <2>1. /\ state[c] = "none" /\ ioLoop' = [ioLoop EXCEPT ![c] = next]
          /\ next' = IF next >= NumThreads THEN 1 ELSE next + 1
      BY <2>0 DEF Server!NewConnection, Server!GetNextLoop
    <2>2. /\ ioLoop[c] = 0 /\ ioLoop \in [ServerConns -> 0..NumThreads] /\ next \in Pool
      BY <2>1 DEF ConnInv, InMap, ConnType
    <2>3. /\ c \notin Given(ioLoop, next) /\ Given(ioLoop', next) = Given(ioLoop, next) \cup {c}
          /\ \A i \in Pool : i # next => Given(ioLoop', i) = Given(ioLoop, i)
      BY <2>1, <2>2, ServersAssumption DEF Given, Pool
    <2>4. IsFiniteSet(Given(ioLoop, next))
      BY ServersAssumption, FS_Subset DEF Given
    <2>5. Cardinality(Given(ioLoop', next)) = Cardinality(Given(ioLoop, next)) + 1
      BY <2>3, <2>4, Counting
    <2>6. PICK m \in Nat : \A i \in Pool :
                 Cardinality(Given(ioLoop, i)) = IF i < next THEN m + 1 ELSE m
      BY DEF EvenInv
    <2>7. \A i \in Pool : Cardinality(Given(ioLoop', i)) = IF i < next + 1 THEN m + 1 ELSE m
      <3> TAKE i \in Pool
      <3>1. i \in Int /\ next \in Int
        BY <2>2 DEF Pool
      <3>2. CASE i = next
        <4>1. Cardinality(Given(ioLoop, next)) = m
          BY <2>2, <2>6, <3>1
        <4> QED
          BY <2>5, <3>1, <3>2, <4>1
      <3>3. CASE i # next
        <4>1. Cardinality(Given(ioLoop', i)) = IF i < next THEN m + 1 ELSE m
          BY <2>3, <2>6, <3>3
        <4>2. i < next + 1 <=> i < next
          BY <3>1, <3>3
        <4> QED
          BY <4>1, <4>2
      <3> QED
        BY <3>2, <3>3
    <2>8. CASE next >= NumThreads
      <3>1. \A i \in Pool : i < next + 1 /\ ~(i < 1)
        BY <2>2, <2>8, ServersAssumption DEF Pool
      <3>2. \A i \in Pool : Cardinality(Given(ioLoop', i)) = IF i < next' THEN (m + 1) + 1 ELSE m + 1
        BY <2>1, <2>7, <2>8, <3>1
      <3> QED
        BY <3>2 DEF EvenInv
    <2>9. CASE ~(next >= NumThreads)
      <3>1. next' = next + 1
        BY <2>1, <2>9
      <3> QED
        BY <2>7, <3>1 DEF EvenInv
    <2> QED
      BY <2>8, <2>9
  <1>2. CASE UNCHANGED <<ioLoop, next>>
    BY <1>2 DEF EvenInv
  <1>3. UNCHANGED <<ioLoop, next>> \/ \E c \in ServerConns : Server!NewConnection(c)
    BY DEF Server!Next, Server!MainStep, Server!ThreadStep, Server!Start, Server!StartLoop,
           Server!LoopStarted, Server!Listen, Server!AcceptFails, Server!Stop, Server!StopPool,
           Server!QuitLoop, Server!WakeupLoop, Server!Join, Server!Stopped,
           Server!RemoveConnectionInLoop, Server!DestroyConnection, Server!ThreadFunc,
           Server!EnterLoop, Server!Poll, Server!DoPendingFunctors, Server!CallFunctor,
           Server!ReturnLoop, Server!poolVars, Server!connVars, serverVars
  <1> QED
    BY <1>1, <1>2, <1>3

(* For every pool size and every number of connections, whatever the order in *)
(* which accept, close, removal, the functors of the pool loops and           *)
(* ~TcpServer come: each connection is given to a running loop, established   *)
(* there once, before it is destroyed once, and erased from the map once;     *)
(* and no loop ever has two connections more than another.                    *)
THEOREM ServerLifecycle == ServersSpec => []LifecycleAsserts
  <1> DEFINE I == ThreadInv /\ ConnInv /\ EvenInv
  <1>1. ServersInit => I
    BY ThreadInit, ConnInit, EvenInit DEF ServersInit
  <1>2. I /\ [ServersNext]_allVars => I'
    <2> SUFFICES ASSUME I, [ServersNext]_allVars
                 PROVE  I'
      OBVIOUS
    <2>1. [Server!Next]_serverVars
      BY PartSteps
    <2> QED
      BY <2>1, ThreadStep, ConnStep, EvenStep
  <1>3. I => LifecycleAsserts
    <2> SUFFICES ASSUME I
                 PROVE  Server!LifecycleAsserts /\ Server!EvenlySpread
      BY DEF LifecycleAsserts
    <2>1. ASSUME NEW c \in ServerConns, state[c] \in {"connecting", "connected"}, main = "running"
          PROVE  c \in connections /\ thread[ioLoop[c]] \notin {"none", "created"}
      <3>1. c \in connections /\ ioLoop[c] # 0 /\ ioLoop[c] \in 0..NumThreads
        BY <2>1 DEF ConnInv, InMap, ConnType
      <3>2. ioLoop[c] \in Pool
        BY <3>1, ServersAssumption DEF Pool
      <3> QED
        BY <2>1, <3>1, <3>2 DEF ThreadInv, ThreadsUp, Early
    <2>2. Server!LifecycleAsserts
      BY <2>1 DEF Server!LifecycleAsserts, ConnInv
    <2>3. PICK m \in Nat : \A i \in Pool :
                 Cardinality(Given(ioLoop, i)) = IF i < next THEN m + 1 ELSE m
      BY DEF EvenInv
    <2>4. \A i \in Pool : Cardinality(Given(ioLoop, i)) \in {m, m + 1}
      BY <2>3
    <2>5. \A i, j \in Pool :
            Cardinality(Given(ioLoop, i)) <= Cardinality(Given(ioLoop, j)) + 1
      BY <2>4
    <2>6. Server!EvenlySpread
      BY <2>5, SameCount DEF Server!EvenlySpread, Server!Threads, Pool, Given
    <2> QED
      BY <2>2, <2>6
  <1> QED
    BY <1>1, <1>2, <1>3, PTL DEF ServersSpec

-----------------------------------------------------------------------------
(* TcpClient and its Connector. *)

Calls == {"startInLoop", "stopInLoop", "resetChannel"}

Has(q, f) == \E n \in 1..Len(q) : q[n] = f
Unique(q, f) == \A n, m \in 1..Len(q) : q[n] = f /\ q[m] = f => n = m

(* A functor is to be called, in this batch or in the next; and only once.    *)
Waits(b, p, f) == Has(b, f) \/ Has(p, f)
Single(b, p, f) == Unique(b, f) /\ Unique(p, f) /\ ~(Has(b, f) /\ Has(p, f))

ClientType ==
    /\ user \in {"idle", "started", "stopping", "stopped"}
    /\ clientState \in {"kDisconnected", "kConnecting", "kConnected"}
    /\ channel \in {"none", "polled", "removed"}
    /\ timers \in Seq(Nat) /\ now \in Nat /\ hold \in Nat \cup {-1}
    /\ connect \in BOOLEAN /\ clientConnect \in BOOLEAN /\ connection \in BOOLEAN
    /\ restarting \in BOOLEAN /\ client \in BOOLEAN /\ connector \in BOOLEAN /\ gaveUp \in BOOLEAN

Functors(b, p) ==
    /\ b \in Seq(Calls) /\ p \in Seq(Calls)
    /\ Single(b, p, "startInLoop") /\ Single(b, p, "resetChannel")

(* What leads to an attempt, and the state_ that it needs: one excludes the   *)
(* others.                                                                    *)
Tokens ==
    /\ Waits(batch, clientPending, "startInLoop") =>
         timers = <<>> /\ channel = "none" /\ ~connection /\ ~restarting
         /\ clientState = "kDisconnected" /\ user # "idle"
    /\ timers # <<>> =>
         channel # "polled" /\ ~connection /\ ~restarting /\ clientState = "kDisconnected"
    /\ channel = "polled" <=> clientState = "kConnecting"
    /\ connection => ~restarting /\ clientState = "kConnected"
    /\ restarting => clientState = "kConnected" /\ batch = <<>> /\ channel = "none" /\ client
    /\ user = "idle" =>
         timers = <<>> /\ channel = "none" /\ ~connection /\ ~restarting
         /\ clientState = "kDisconnected"

(* resetChannel() is before a channel that was taken out of the poller.       *)
Resets == Waits(batch, clientPending, "resetChannel") <=> channel = "removed"

(* The retry timer goes off before the Connector is let go, and not before    *)
(* the channel of the last attempt has been reset.                            *)
Deadlines ==
    timers # <<>> =>
      /\ Len(timers) = 1 /\ timers[1] <= now + RetryDelay
      /\ hold # -1 => timers[1] < hold
      /\ channel = "removed" => now < timers[1]

(* The TcpClient goes first, and leaves a Connector that is not to connect.   *)
ClientLife ==
    /\ client => connector /\ hold = -1
    /\ ~client => ~restarting /\ user # "stopping"
    /\ ~client /\ connector => ~connect /\ hold # -1
    /\ ~connector => timers = <<>> /\ (clientFault = "none" => channel = "none")

Attempted ==
    connector /\ connect /\ clientState = "kDisconnected" /\ ~gaveUp =>
      timers # <<>> \/ restarting \/ Waits(batch, clientPending, "startInLoop")

ClientInv ==
    /\ ClientType /\ Functors(batch, clientPending) /\ Tokens /\ Resets /\ Deadlines
    /\ ClientLife /\ Attempted
    /\ clientFault \notin {"startInLoop", "connecting", "handleWrite", "timerFreed"}

(* A functor queued.                                                          *)
LEMMA PushCall ==
    ASSUME NEW q \in Seq(Calls), NEW g \in Calls, NEW f
    PROVE  /\ Append(q, g) \in Seq(Calls)
           /\ Has(Append(q, g), f) <=> Has(q, f) \/ g = f
           /\ Unique(q, f) /\ (g = f => ~Has(q, f)) => Unique(Append(q, g), f)
  <1> DEFINE r == Append(q, g)
  <1>1. /\ r \in Seq(Calls) /\ Len(r) = Len(q) + 1 /\ Len(q) \in Nat
        /\ \A n \in 1..Len(q) : r[n] = q[n]
        /\ r[Len(q) + 1] = g
    OBVIOUS
  <1> HIDE DEF r
  <1>2. \A n : n \in 1..Len(r) <=> n \in 1..Len(q) \/ n = Len(q) + 1
    BY <1>1
  <1>3. Has(r, f) <=> Has(q, f) \/ g = f
    BY <1>1, <1>2 DEF Has
  <1>4. ASSUME Unique(q, f), g = f => ~Has(q, f)
        PROVE  Unique(r, f)
    BY <1>1, <1>2, <1>4 DEF Unique, Has
  <1> QED
    BY <1>1, <1>3, <1>4 DEF r

(* The front functor called.                                                  *)
LEMMA PopCall ==
    ASSUME NEW q \in Seq(Calls), q # <<>>, NEW f, Unique(q, f)
    PROVE  /\ Tail(q) \in Seq(Calls) /\ Head(q) \in Calls /\ Unique(Tail(q), f)
           /\ Has(q, f) <=> Head(q) = f \/ Has(Tail(q), f)
           /\ Head(q) = f => ~Has(Tail(q), f)
  <1> DEFINE r == Tail(q)
  <1>1. /\ r \in Seq(Calls) /\ Len(r) = Len(q) - 1 /\ Len(q) \in Nat \ {0}
        /\ \A n \in 1..(Len(q) - 1) : r[n] = q[n + 1]
        /\ Head(q) = q[1] /\ q[1] \in Calls
    OBVIOUS
  <1> HIDE DEF r
  <1>2. \A n \in 1..Len(r) : n + 1 \in 1..Len(q) /\ r[n] = q[n + 1] /\ n + 1 # 1 /\ n \in Nat
    BY <1>1
  <1>3. Unique(r, f)
    <2> SUFFICES ASSUME NEW n \in 1..Len(r), NEW m \in 1..Len(r), r[n] = f, r[m] = f
                 PROVE  n = m
      BY DEF Unique
    <2>1. n + 1 = m + 1
      BY <1>2 DEF Unique
    <2> QED
      BY <1>2, <2>1
  <1>4. Has(r, f) => Has(q, f)
    BY <1>2 DEF Has
  <1>5. Head(q) = f => Has(q, f) /\ ~Has(r, f)
    BY <1>1, <1>2 DEF Has, Unique
  <1>6. ASSUME Has(q, f), Head(q) # f
        PROVE  Has(r, f)
    <2>1. PICK n \in 1..Len(q) : q[n] = f
      BY <1>6 DEF Has
    <2>2. n # 1
      BY <1>1, <1>6, <2>1
    <2>3. n - 1 \in 1..Len(r) /\ n - 1 \in 1..(Len(q) - 1) /\ (n - 1) + 1 = n
      BY <1>1, <2>2
    <2>4. r[n - 1] = f
      BY <1>1, <2>1, <2>3
    <2> QED
      BY <2>3, <2>4 DEF Has
  <1> QED
    BY <1>1, <1>3, <1>4, <1>5, <1>6 DEF r

(* The same for the two queues.                                               *)
LEMMA Queueing ==
    ASSUME NEW b, NEW p, NEW g \in Calls, Functors(b, p),
           g # "stopInLoop" => ~Waits(b, p, g)
    PROVE  /\ Functors(b, Append(p, g))
           /\ \A f : Waits(b, Append(p, g), f) <=> Waits(b, p, f) \/ g = f
  <1>1. b \in Seq(Calls) /\ p \in Seq(Calls)
    BY DEF Functors
  <1>2. Append(p, g) \in Seq(Calls) /\ \A f : Has(Append(p, g), f) <=> Has(p, f) \/ g = f
    BY <1>1, PushCall
  <1>3. ASSUME NEW f \in {"startInLoop", "resetChannel"}
        PROVE  Single(b, Append(p, g), f)
    <2>1. Single(b, p, f) /\ (g = f => ~Waits(b, p, f))
      BY DEF Functors
    <2>2. Unique(Append(p, g), f)
      BY <1>1, <2>1, PushCall DEF Single, Waits
    <2> QED
      BY <1>2, <2>1, <2>2 DEF Single, Waits
  <1> QED
    BY <1>1, <1>2, <1>3 DEF Functors, Waits

(* The swap.                                                                  *)
LEMMA Swapping ==
    ASSUME NEW p, Functors(<<>>, p)
    PROVE  Functors(p, <<>>) /\ \A f : Waits(p, <<>>, f) <=> Waits(<<>>, p, f)
  <1>1. <<>> \in Seq(Calls) /\ \A f : ~Has(<<>>, f) /\ Unique(<<>>, f)
    BY DEF Has, Unique
  <1> QED
    BY <1>1 DEF Functors, Waits, Single

(* A functor of the batch called.                                             *)
LEMMA Calling ==
    ASSUME NEW b, NEW p, Functors(b, p), b # <<>>
    PROVE  /\ Functors(Tail(b), p) /\ Head(b) \in Calls
           /\ \A f \in {"startInLoop", "resetChannel"} :
                /\ Waits(b, p, f) <=> Head(b) = f \/ Waits(Tail(b), p, f)
                /\ Head(b) = f => ~Waits(Tail(b), p, f)
  <1>1. b \in Seq(Calls) /\ p \in Seq(Calls)
    BY DEF Functors
  <1>2. ASSUME NEW f \in {"startInLoop", "resetChannel"}
        PROVE  /\ Single(Tail(b), p, f) /\ Tail(b) \in Seq(Calls) /\ Head(b) \in Calls
               /\ Waits(b, p, f) <=> Head(b) = f \/ Waits(Tail(b), p, f)
               /\ Head(b) = f => ~Waits(Tail(b), p, f)
    <2>1. Single(b, p, f)
      BY DEF Functors
    <2>2. /\ Tail(b) \in Seq(Calls) /\ Head(b) \in Calls /\ Unique(Tail(b), f)
          /\ Has(b, f) <=> Head(b) = f \/ Has(Tail(b), f)
          /\ Head(b) = f => ~Has(Tail(b), f)
      BY <1>1, <2>1, PopCall DEF Single
    <2> QED
      BY <2>1, <2>2 DEF Single, Waits
  <1> QED
    BY <1>1, <1>2 DEF Functors
(* One timer, set now.                                                        *)
LEMMA RetryTimer ==
    ClientType =>
      LET t == Append(<<>>, now + RetryDelay) IN
        t \in Seq(Nat) /\ t # <<>> /\ Len(t) = 1 /\ t[1] = now + RetryDelay /\ now < t[1]
  BY ServersAssumption DEF ClientType

(* Connector::connect() was called, or connect_ was found to be false: one of *)
(* four ends.                                                                 *)
LEMMA Outcome ==
    ASSUME ClientInv, clientFault' = "none", connector, ~connection, user # "idle",
           UNCHANGED <<user, now, hold, connection, client, connector, clientConnect>>,
           restarting' = FALSE, connect' \in BOOLEAN, connect' => client,
           Functors(batch', clientPending'),
           ~Waits(batch', clientPending', "startInLoop"),
           ~Waits(batch', clientPending', "resetChannel"),
           \/ /\ clientState' = "kConnecting" /\ channel' = "polled"
              /\ timers' = <<>> /\ gaveUp' = gaveUp
           \/ /\ clientState' = "kDisconnected" /\ channel' = "none"
              /\ timers' = Append(<<>>, now + RetryDelay) /\ gaveUp' = gaveUp /\ connect'
           \/ /\ clientState' = "kDisconnected" /\ channel' = "none"
              /\ timers' = <<>> /\ gaveUp' = TRUE
           \/ /\ clientState' = "kDisconnected" /\ channel' = "none"
              /\ timers' = <<>> /\ gaveUp' = gaveUp /\ ~connect'
    PROVE  ClientInv'
  <1>0. ClientType /\ ClientLife
    BY DEF ClientInv
  <1>1. /\ <<>> \in Seq(Nat) /\ Append(<<>>, now + RetryDelay) \in Seq(Nat)
        /\ timers' = <<>> \/ timers' = Append(<<>>, now + RetryDelay)
        /\ timers' # <<>> => timers' = Append(<<>>, now + RetryDelay) /\ client
    BY <1>0, RetryTimer
  <1>2. ClientType'
    BY <1>0, <1>1 DEF ClientType
  <1>3. Tokens' /\ Resets'
    BY <1>0 DEF Tokens, Resets
  <1>4. Deadlines'
    <2> SUFFICES ASSUME timers' # <<>>
                 PROVE  Deadlines'
      BY DEF Deadlines
    <2>1. Len(timers') = 1 /\ timers'[1] = now + RetryDelay /\ now < timers'[1]
      BY <1>0, <1>1, RetryTimer
    <2>2. hold' = -1 /\ now' = now
      BY <1>0, <1>1 DEF ClientLife
    <2>3. timers'[1] <= now' + RetryDelay
      BY <1>0, <2>1, <2>2, ServersAssumption DEF ClientType
    <2> QED
      BY <2>1, <2>2, <2>3 DEF Deadlines
  <1>5. ClientLife'
    BY <1>0 DEF ClientLife
  <1>6. Attempted'
    <2>1. Append(<<>>, now + RetryDelay) # <<>>
      BY <1>0, RetryTimer
    <2> QED
      BY <2>1 DEF Attempted
  <1> QED
    BY <1>2, <1>3, <1>4, <1>5, <1>6 DEF ClientInv

(* Nobody has called connect().                                               *)
LEMMA ClientInit == Client!Init => ClientInv
  <1> SUFFICES ASSUME Client!Init
               PROVE  ClientInv
    OBVIOUS
  <1>1. /\ user = "idle" /\ clientConnect = TRUE /\ connect = FALSE
        /\ clientState = "kDisconnected" /\ channel = "none"
        /\ clientPending = <<>> /\ batch = <<>> /\ timers = <<>> /\ hold = -1 /\ now = 0
        /\ connection = FALSE /\ restarting = FALSE /\ client = TRUE /\ connector = TRUE
        /\ gaveUp = FALSE /\ clientFault = "none"
    BY DEF Client!Init
  <1>2. Functors(<<>>, <<>>) /\ \A f : ~Waits(<<>>, <<>>, f)
    BY DEF Functors, Waits, Single, Has, Unique
  <1>3. ClientType
    <2>1. <<>> \in Seq(Nat) /\ 0 \in Nat /\ -1 \in Nat \cup {-1}
      OBVIOUS
    <2> QED
      BY <1>1, <2>1, Zenon DEF ClientType
  <1>4. Tokens /\ Resets /\ Deadlines /\ ClientLife /\ Attempted
    BY <1>1, <1>2 DEF Tokens, Resets, Deadlines, ClientLife, Attempted
  <1> QED
    BY <1>1, <1>2, <1>3, <1>4 DEF ClientInv

(* connect(): the first attempt.                                              *)
LEMMA ClientStart ==
    ASSUME ClientInv, clientFault = "none", Client!Start
    PROVE  ClientInv'
  <1>0. /\ ClientType /\ Functors(batch, clientPending) /\ Tokens /\ Resets /\ Deadlines
        /\ ClientLife /\ Attempted
    BY DEF ClientInv
  <1>1. /\ user = "idle" /\ client /\ user' = "started" /\ clientConnect' = TRUE /\ connect' = TRUE
        /\ clientPending' = Append(clientPending, "startInLoop")
        /\ UNCHANGED <<batch, now, connection, restarting, clientState, channel, timers, gaveUp,
                       clientFault, client, connector, hold>>
    BY DEF Client!Start, Client!attemptVars, Client!lifeVars
  <1>2. /\ Functors(batch', clientPending')
        /\ \A f : Waits(batch', clientPending', f) <=> Waits(batch, clientPending, f) \/ f = "startInLoop"
    <2>1. ~Waits(batch, clientPending, "startInLoop")
      BY <1>0, <1>1 DEF Tokens
    <2> QED
      BY <1>0, <1>1, <2>1, Queueing DEF Calls
  <1>3. ClientType'
    BY <1>0, <1>1 DEF ClientType
  <1>4. Tokens' /\ Resets' /\ ClientLife' /\ Attempted'
    BY <1>0, <1>1, <1>2 DEF Tokens, Resets, ClientLife, Attempted
  <1>5. Deadlines'
    BY <1>0, <1>1 DEF Deadlines
  <1> QED
    BY <1>0, <1>1, <1>2, <1>3, <1>4, <1>5 DEF ClientInv

(* stop(), by halves, and disconnect().                                       *)
LEMMA ClientStop ==
    ASSUME ClientInv, clientFault = "none",
           Client!BeginStop \/ Client!Stop \/ Client!Disconnect
    PROVE  ClientInv'
  <1>0. /\ ClientType /\ Functors(batch, clientPending) /\ Tokens /\ Resets /\ Deadlines
        /\ ClientLife /\ Attempted
    BY DEF ClientInv
  <1>1. UNCHANGED <<batch, now, connection, restarting, clientState, channel, timers, gaveUp,
                    clientFault, client, connector, hold>>
    BY DEF Client!BeginStop, Client!Stop, Client!Disconnect, Client!attemptVars,
           Client!lifeVars, Client!clientVars
  <1>2. \/ user = "started" /\ client /\ user' = "stopping" /\ clientConnect' = FALSE
           /\ UNCHANGED <<connect, clientPending>>
        \/ user = "stopping" /\ user' = "stopped" /\ connect' = FALSE
           /\ clientPending' = Append(clientPending, "stopInLoop") /\ UNCHANGED clientConnect
        \/ clientConnect' = FALSE /\ UNCHANGED <<user, connect, clientPending>>
    BY DEF Client!BeginStop, Client!Stop, Client!Disconnect, Client!clientVars
  <1>3. /\ Functors(batch', clientPending')
        /\ \A f : Waits(batch', clientPending', f) <=> Waits(batch, clientPending, f) \/
                    (f = "stopInLoop" /\ clientPending' # clientPending)
    <2>1. /\ Functors(batch, Append(clientPending, "stopInLoop"))
          /\ \A f : Waits(batch, Append(clientPending, "stopInLoop"), f) <=>
                      Waits(batch, clientPending, f) \/ f = "stopInLoop"
      BY <1>0, Queueing DEF Calls
    <2>2. Append(clientPending, "stopInLoop") # clientPending
      <3>1. clientPending \in Seq(Calls) /\ "stopInLoop" \in Calls
        BY <1>0 DEF Functors, Calls
      <3>2. Len(Append(clientPending, "stopInLoop")) = Len(clientPending) + 1 /\ Len(clientPending) \in Nat
        BY <3>1
      <3> QED
        BY <3>2
    <2> QED
      BY <1>0, <1>1, <1>2, <2>1, <2>2
  <1>4. ClientType'
    BY <1>0, <1>1, <1>2 DEF ClientType
  <1>5. Tokens' /\ Resets' /\ ClientLife' /\ Attempted'
    BY <1>0, <1>1, <1>2, <1>3 DEF Tokens, Resets, ClientLife, Attempted
  <1>6. Deadlines'
    BY <1>0, <1>1 DEF Deadlines
  <1> QED
    BY <1>0, <1>1, <1>3, <1>4, <1>5, <1>6 DEF ClientInv

(* handleWrite() and handleError(): the channel leaves the poller.            *)
LEMMA ClientEvent ==
    ASSUME ClientInv, clientFault = "none", Client!HandleEvent
    PROVE  ClientInv'
  <1>0. /\ ClientType /\ Functors(batch, clientPending) /\ Tokens /\ Resets /\ Deadlines
        /\ ClientLife /\ Attempted
    BY DEF ClientInv
  <1>1. /\ channel = "polled" /\ channel' = "removed"
        /\ clientPending' = Append(clientPending, "resetChannel")
        /\ clientFault' = IF clientState # "kConnecting" THEN "handleWrite"
                          ELSE IF connector THEN clientFault ELSE "functorFreed"
        /\ UNCHANGED <<user, clientConnect, connect, batch, now, restarting, client, connector,
                       hold, gaveUp>>
    BY DEF Client!HandleEvent, Client!lifeVars
  <1>2. /\ timers = <<>> /\ ~connection /\ ~restarting /\ clientState = "kConnecting"
        /\ user # "idle" /\ ~Waits(batch, clientPending, "startInLoop")
        /\ ~Waits(batch, clientPending, "resetChannel") /\ connector
    BY <1>0, <1>1 DEF Tokens, Resets, ClientLife
  <1>3. clientFault' = "none"
    BY <1>1, <1>2
  <1>4. \/ /\ clientState' = "kDisconnected" /\ connection' = connection
           /\ timers' = IF connect THEN Append(<<>>, now + RetryDelay) ELSE <<>>
        \/ /\ clientState' = "kConnected" /\ timers' = <<>>
           /\ connection' = TRUE \/ connection' = connection
    BY <1>2 DEF Client!HandleEvent, Client!Retry, Client!NewConnection
  <1>5. /\ Functors(batch', clientPending')
        /\ \A f : Waits(batch', clientPending', f) <=>
                    Waits(batch, clientPending, f) \/ f = "resetChannel"
    BY <1>0, <1>1, <1>2, Queueing DEF Calls
  <1>6. connect => client /\ hold = -1
    BY <1>0, <1>2 DEF ClientLife
  <1>7. /\ timers' # <<>> => timers' = Append(<<>>, now + RetryDelay) /\ hold' = -1
                             /\ clientState' = "kDisconnected" /\ connection' = connection
        /\ timers' \in Seq(Nat) /\ Append(<<>>, now + RetryDelay) # <<>>
    <2>1. <<>> \in Seq(Nat) /\ Append(<<>>, now + RetryDelay) \in Seq(Nat)
          /\ Append(<<>>, now + RetryDelay) # <<>>
      BY <1>0, RetryTimer
    <2>2. timers' = <<>> \/ timers' = Append(<<>>, now + RetryDelay)
      BY <1>4
    <2>3. timers' # <<>> => connect /\ clientState' = "kDisconnected" /\ connection' = connection
      BY <1>4
    <2>4. hold' = hold
      BY <1>1
    <2> QED
      BY <1>6, <2>1, <2>2, <2>3, <2>4
  <1>8. connection' \in BOOLEAN /\ clientState' \in {"kDisconnected", "kConnected"}
        /\ (connection' => clientState' = "kConnected")
    <2>1. connection = FALSE
      BY <1>0, <1>2 DEF ClientType
    <2> QED
      BY <1>4, <2>1
  <1>9. ClientType'
    BY <1>0, <1>1, <1>7, <1>8 DEF ClientType
  <1>10. Tokens'
    BY <1>1, <1>2, <1>5, <1>7, <1>8 DEF Tokens
  <1>11. Resets' /\ ClientLife'
    BY <1>0, <1>1, <1>2, <1>5 DEF Resets, ClientLife
  <1>12. Attempted'
    <2>1. clientState' = "kDisconnected" /\ connect => timers' = Append(<<>>, now + RetryDelay)
      BY <1>4
    <2> QED
      BY <1>1, <1>7, <2>1 DEF Attempted
  <1>13. Deadlines'
    <2> SUFFICES ASSUME timers' # <<>>
                 PROVE  Deadlines'
      BY DEF Deadlines
    <2>1. Len(timers') = 1 /\ timers'[1] = now + RetryDelay /\ now < timers'[1]
      BY <1>0, <1>7, RetryTimer
    <2>2. hold' = -1 /\ now' = now
      BY <1>1, <1>7
    <2>3. timers'[1] <= now' + RetryDelay
      BY <1>0, <2>1, <2>2, ServersAssumption DEF ClientType
    <2> QED
      BY <2>1, <2>2, <2>3 DEF Deadlines
  <1> QED
    BY <1>3, <1>5, <1>9, <1>10, <1>11, <1>12, <1>13 DEF ClientInv

(* The connection closes: nothing else is under way.                          *)
LEMMA ClientClosed ==
    ASSUME ClientInv, clientFault = "none", Client!RemoveConnection
    PROVE  ClientInv'
  <1>0. /\ ClientType /\ Functors(batch, clientPending) /\ Tokens /\ Resets /\ Deadlines
        /\ ClientLife /\ Attempted
    BY DEF ClientInv
  <1>1. /\ batch = <<>> /\ ~Client!Queued("resetChannel") /\ client /\ connection
        /\ connection' = FALSE /\ restarting' = clientConnect
        /\ UNCHANGED <<user, clientConnect, connect, clientPending, batch, now, clientState,
                       channel, timers, gaveUp, clientFault, client, connector, hold>>
    BY DEF Client!RemoveConnection, Client!attemptVars, Client!lifeVars
  <1>2. ~Waits(batch, clientPending, "resetChannel")
    <2>1. clientPending \in Seq(Calls)
      BY <1>0 DEF Functors
    <2>2. \A n \in 1..Len(clientPending) : clientPending[n] # "resetChannel"
      BY <1>1, <2>1 DEF Client!Queued
    <2>3. ~Has(<<>>, "resetChannel")
      BY DEF Has
    <2> QED
      BY <1>1, <2>2, <2>3 DEF Waits, Has
  <1>3. /\ clientState = "kConnected" /\ timers = <<>> /\ channel = "none"
        /\ ~Waits(batch, clientPending, "startInLoop") /\ user # "idle"
    BY <1>0, <1>1, <1>2 DEF Tokens, Resets, ClientType
  <1>4. ClientType'
    BY <1>0, <1>1 DEF ClientType
  <1>5. Tokens'
    BY <1>0, <1>1, <1>3 DEF Tokens
  <1>6. Resets' /\ ClientLife' /\ Attempted'
    BY <1>0, <1>1, <1>3 DEF Resets, ClientLife, Attempted
  <1>7. Deadlines'
    BY <1>1, <1>3 DEF Deadlines
  <1> QED
    BY <1>0, <1>1, <1>4, <1>5, <1>6, <1>7 DEF ClientInv

(* restart(): the channel of the last attempt has been reset.                 *)
LEMMA ClientRestart ==
    ASSUME ClientInv, clientFault = "none", Client!Restart
    PROVE  ClientInv'
  <1>0. /\ ClientType /\ Functors(batch, clientPending) /\ Tokens /\ Resets /\ ClientLife
    BY DEF ClientInv
  <1>1. /\ restarting /\ restarting' = FALSE /\ connect' = TRUE
        /\ UNCHANGED <<user, clientConnect, clientPending, batch, now, connection,
                       client, connector, hold>>
    BY DEF Client!Restart, Client!lifeVars
  <1>2. /\ channel = "none" /\ client /\ connector /\ ~connection /\ timers = <<>> /\ user # "idle"
        /\ ~Waits(batch, clientPending, "startInLoop")
        /\ ~Waits(batch, clientPending, "resetChannel")
    BY <1>0, <1>1 DEF Tokens, Resets, ClientLife
  <1>3. /\ clientFault' = "none"
        /\ \/ /\ clientState' = "kConnecting" /\ channel' = "polled"
              /\ timers' = <<>> /\ gaveUp' = gaveUp
           \/ /\ clientState' = "kDisconnected" /\ channel' = "none"
              /\ timers' = Append(<<>>, now + RetryDelay) /\ gaveUp' = gaveUp
           \/ /\ clientState' = "kDisconnected" /\ channel' = "none"
              /\ timers' = <<>> /\ gaveUp' = TRUE
    BY <1>2 DEF Client!Restart, Client!Connecting, Client!Retry
  <1> QED
    BY <1>0, <1>1, <1>2, <1>3, Outcome

(* startInLoop(), from a functor or from a timer.                             *)
LEMMA ClientAttempt ==
    ASSUME ClientInv, clientFault = "none", Client!StartInLoop(<<>>), connector,
           clientState = "kDisconnected", channel = "none", ~connection, ~restarting,
           user # "idle", Functors(batch', clientPending'),
           ~Waits(batch', clientPending', "startInLoop"),
           ~Waits(batch', clientPending', "resetChannel"),
           UNCHANGED <<user, now, hold, connection, restarting, client, connector,
                       clientConnect, connect>>
    PROVE  ClientInv'
  <1>0. /\ connect' \in BOOLEAN /\ restarting' = FALSE /\ (connect' => client)
    BY DEF ClientInv, ClientType, ClientLife
  <1>1. /\ clientFault' = "none"
        /\ \/ /\ clientState' = "kConnecting" /\ channel' = "polled"
              /\ timers' = <<>> /\ gaveUp' = gaveUp
           \/ /\ clientState' = "kDisconnected" /\ channel' = "none"
              /\ timers' = Append(<<>>, now + RetryDelay) /\ gaveUp' = gaveUp /\ connect'
           \/ /\ clientState' = "kDisconnected" /\ channel' = "none"
              /\ timers' = <<>> /\ gaveUp' = TRUE
           \/ /\ clientState' = "kDisconnected" /\ channel' = "none"
              /\ timers' = <<>> /\ gaveUp' = gaveUp /\ ~connect'
    BY DEF Client!StartInLoop, Client!Connect, Client!Connecting, Client!Retry
  <1> QED
    BY <1>0, <1>1, Outcome

(* A retry timer: what it finds is the Connector, with its channel reset.     *)
LEMMA ClientRetry ==
    ASSUME ClientInv, clientFault = "none", Client!FireRetry
    PROVE  ClientInv'
  <1>0. /\ ClientType /\ Functors(batch, clientPending) /\ Tokens /\ Resets /\ Deadlines
        /\ ClientLife
    BY DEF ClientInv
  <1>1. /\ timers # <<>> /\ Head(timers) <= now
        /\ IF connector
           THEN Client!StartInLoop(Tail(timers))
           ELSE clientFault' = "timerFreed" /\ UNCHANGED <<clientState, channel, timers, gaveUp>>
        /\ UNCHANGED <<user, clientConnect, connection, restarting, connect, clientPending, batch,
                       now, client, connector, hold>>
    BY DEF Client!FireRetry, Client!clientVars, Client!lifeVars
  <1>2. connector /\ Client!StartInLoop(Tail(timers))
    BY <1>0, <1>1 DEF ClientLife
  <1>3. Len(timers) = 1 /\ timers \in Seq(Nat) /\ now \in Nat
    BY <1>0, <1>1 DEF Deadlines, ClientType
  <1>4. Tail(timers) = <<>> /\ Head(timers) = timers[1] /\ timers[1] \in Nat
    <2>1. Tail(timers) \in Seq(Nat) /\ Len(Tail(timers)) = 0
      BY <1>1, <1>3
    <2>2. \A s \in Seq(Nat) : Len(s) = 0 => s = <<>>
      OBVIOUS
    <2>3. Head(timers) = timers[1] /\ timers[1] \in Nat
      BY <1>1, <1>3
    <2> QED
      BY <2>1, <2>2, <2>3
  <1>5. channel # "removed"
    <2>1. ~(now < timers[1])
      BY <1>1, <1>3, <1>4
    <2> QED
      BY <1>0, <1>1, <2>1 DEF Deadlines
  <1>6. /\ channel = "none" /\ ~connection /\ ~restarting /\ clientState = "kDisconnected"
        /\ user # "idle" /\ ~Waits(batch, clientPending, "startInLoop")
        /\ ~Waits(batch, clientPending, "resetChannel")
    BY <1>0, <1>1, <1>5 DEF Tokens, Resets, ClientType
  <1> QED
    BY <1>0, <1>1, <1>2, <1>4, <1>6, ClientAttempt

(* ~TcpClient: with a connection there is no timer; without one the           *)
(* Connector outlives the timer there may be.                                 *)
LEMMA ClientDestroy ==
    ASSUME ClientInv, clientFault = "none", Client!Destroy
    PROVE  ClientInv'
  <1>0. /\ ClientType /\ Functors(batch, clientPending) /\ Tokens /\ Resets /\ Deadlines
        /\ ClientLife /\ Attempted
    BY DEF ClientInv
  <1>1. /\ client /\ ~restarting /\ user # "stopping" /\ client' = FALSE
        /\ UNCHANGED <<user, clientConnect, connection, restarting, batch, timers, now,
                       clientState, channel, gaveUp>>
    BY DEF Client!Destroy, Client!clientVars
  <1>2. CASE connection
    <2>1. /\ connector' = FALSE
          /\ clientFault' = IF channel = "none" THEN clientFault ELSE "~Connector"
          /\ UNCHANGED <<connect, clientPending, hold>>
      BY <1>2 DEF Client!Destroy
    <2>2. timers = <<>> /\ ~Waits(batch, clientPending, "startInLoop")
      BY <1>0, <1>2 DEF Tokens
    <2>3. ClientType'
      BY <1>0, <1>1, <2>1 DEF ClientType
    <2>4. Tokens' /\ Resets' /\ Attempted'
      BY <1>0, <1>1, <2>1 DEF Tokens, Resets, Attempted
    <2>5. ClientLife'
      BY <1>0, <1>1, <2>1, <2>2 DEF ClientLife
    <2>6. Deadlines'
      BY <1>1, <2>2 DEF Deadlines
    <2>7. clientFault' \in {"none", "~Connector"} /\ Functors(batch', clientPending')
      BY <1>0, <1>1, <2>1
    <2> QED
      BY <2>3, <2>4, <2>5, <2>6, <2>7 DEF ClientInv
  <1>3. CASE ~connection
    <2>1. /\ connect' = FALSE /\ clientPending' = Append(clientPending, "stopInLoop")
          /\ hold' = now + HoldDelay /\ UNCHANGED <<connector, clientFault>>
      BY <1>3 DEF Client!Destroy
    <2>2. /\ Functors(batch', clientPending')
          /\ \A f : Waits(batch', clientPending', f) <=>
                      Waits(batch, clientPending, f) \/ f = "stopInLoop"
      BY <1>0, <1>1, <2>1, Queueing DEF Calls
    <2>3. hold' \in Nat /\ hold' # -1 /\ connector
      BY <1>0, <1>1, <2>1, ServersAssumption DEF ClientType, ClientLife
    <2>4. ClientType'
      BY <1>0, <1>1, <2>1, <2>3 DEF ClientType
    <2>5. Tokens' /\ Resets' /\ Attempted'
      BY <1>0, <1>1, <2>1, <2>2 DEF Tokens, Resets, Attempted
    <2>6. ClientLife'
      BY <1>1, <2>1, <2>3 DEF ClientLife
    <2>7. Deadlines'
      <3> SUFFICES ASSUME timers # <<>>
                   PROVE  Deadlines'
        BY <1>1 DEF Deadlines
      <3>1. /\ Len(timers) = 1 /\ timers[1] <= now + RetryDelay
            /\ channel = "removed" => now < timers[1]
        BY <1>0 DEF Deadlines
      <3>2. timers[1] \in Nat
        BY <1>0, <3>1 DEF ClientType
      <3>3. timers[1] < hold'
        BY <1>0, <2>1, <3>1, <3>2, ServersAssumption DEF ClientType
      <3> QED
        BY <1>1, <3>1, <3>3 DEF Deadlines
    <2> QED
      BY <2>1, <2>2, <2>4, <2>5, <2>6, <2>7 DEF ClientInv
  <1> QED
    BY <1>2, <1>3

(* The Connector is let go: no timer is left.                                 *)
LEMMA ClientHold ==
    ASSUME ClientInv, clientFault = "none", Client!FireHold
    PROVE  ClientInv'
  <1>0. /\ ClientType /\ Functors(batch, clientPending) /\ Tokens /\ Resets /\ Deadlines
        /\ ClientLife /\ Attempted
    BY DEF ClientInv
  <1>1. /\ hold # -1 /\ Client!IsNext(hold) /\ hold' = -1 /\ connector' = FALSE
        /\ clientFault' = IF channel = "none" THEN clientFault ELSE "~Connector"
        /\ UNCHANGED <<user, clientConnect, connection, restarting, connect, clientPending, batch,
                       timers, now, clientState, channel, client, gaveUp>>
    BY DEF Client!FireHold, Client!clientVars
  <1>2. timers = <<>>
    <2> SUFFICES ASSUME timers # <<>>
                 PROVE  FALSE
      OBVIOUS
    <2>1. Len(timers) = 1 /\ timers[1] < hold /\ timers \in Seq(Nat) /\ hold \in Nat
      BY <1>0, <1>1 DEF Deadlines, ClientType
    <2>2. 1 \in DOMAIN timers /\ timers[1] \in Nat
      BY <2>1
    <2>3. hold <= timers[1]
      BY <1>1, <2>2 DEF Client!IsNext
    <2> QED
      BY <2>1, <2>2, <2>3
  <1>3. ~client
    BY <1>0, <1>1 DEF ClientLife
  <1>4. ClientType'
    <2>1. hold' \in Nat \cup {-1} /\ connector' \in BOOLEAN
      BY <1>1
    <2> QED
      BY <1>0, <1>1, <2>1 DEF ClientType
  <1>5. Tokens' /\ Resets' /\ Attempted'
    BY <1>0, <1>1 DEF Tokens, Resets, Attempted
  <1>6. ClientLife'
    BY <1>0, <1>1, <1>2, <1>3 DEF ClientLife
  <1>7. Deadlines'
    BY <1>1, <1>2 DEF Deadlines
  <1>8. clientFault' \in {"none", "~Connector"} /\ Functors(batch', clientPending')
    BY <1>0, <1>1
  <1> QED
    BY <1>4, <1>5, <1>6, <1>7, <1>8 DEF ClientInv

(* Time passes only when no functor waits, so when the channel was reset.     *)
LEMMA ClientTick ==
    ASSUME ClientInv, clientFault = "none", Client!Tick
    PROVE  ClientInv'
  <1>0. /\ ClientType /\ Functors(batch, clientPending) /\ Tokens /\ Resets /\ Deadlines
        /\ ClientLife /\ Attempted
    BY DEF ClientInv
  <1>1. /\ batch = <<>> /\ clientPending = <<>> /\ now' = now + 1
        /\ UNCHANGED <<user, clientConnect, connection, restarting, connect, clientPending, batch,
                       clientState, channel, timers, gaveUp, clientFault, client, connector, hold>>
    BY DEF Client!Tick, Client!clientVars, Client!attemptVars, Client!lifeVars
  <1>2. channel # "removed"
    <2>1. ~Waits(<<>>, <<>>, "resetChannel")
      BY DEF Waits, Has
    <2> QED
      BY <1>0, <1>1, <2>1 DEF Resets
  <1>3. ClientType'
    <2>1. now' \in Nat
      BY <1>0, <1>1 DEF ClientType
    <2> QED
      BY <1>0, <1>1, <2>1 DEF ClientType
  <1>4. Tokens' /\ Resets' /\ Attempted' /\ ClientLife'
    BY <1>0, <1>1 DEF Tokens, Resets, Attempted, ClientLife
  <1>5. Deadlines'
    <2> SUFFICES ASSUME timers # <<>>
                 PROVE  Deadlines'
      BY <1>1 DEF Deadlines
    <2>1. /\ Len(timers) = 1 /\ timers[1] <= now + RetryDelay
          /\ hold # -1 => timers[1] < hold
      BY <1>0 DEF Deadlines
    <2>2. timers[1] \in Nat /\ now \in Nat
      BY <1>0, <2>1 DEF ClientType
    <2>3. timers[1] <= now' + RetryDelay
      BY <1>1, <2>1, <2>2, ServersAssumption
    <2> QED
      BY <1>1, <1>2, <2>1, <2>3 DEF Deadlines
  <1> QED
    BY <1>0, <1>1, <1>3, <1>4, <1>5 DEF ClientInv

(* The swap changes nothing of what waits.                                    *)
LEMMA ClientSwap ==
    ASSUME ClientInv, clientFault = "none", Client!SwapFunctors
    PROVE  ClientInv'
  <1>0. /\ ClientType /\ Functors(batch, clientPending) /\ Tokens /\ Resets /\ Deadlines
        /\ ClientLife /\ Attempted
    BY DEF ClientInv
  <1>1. /\ batch = <<>> /\ ~restarting /\ batch' = clientPending /\ clientPending' = <<>>
        /\ UNCHANGED <<user, clientConnect, connection, restarting, connect, now,
                       clientState, channel, timers, gaveUp, clientFault, client, connector, hold>>
    BY DEF Client!SwapFunctors, Client!clientVars, Client!attemptVars, Client!lifeVars
  <1>2. /\ Functors(batch', clientPending')
        /\ \A f : Waits(batch', clientPending', f) <=> Waits(batch, clientPending, f)
    BY <1>0, <1>1, Swapping
  <1>3. ClientType'
    BY <1>0, <1>1 DEF ClientType
  <1>4. Tokens' /\ Resets' /\ Attempted' /\ ClientLife'
    BY <1>0, <1>1, <1>2 DEF Tokens, Resets, Attempted, ClientLife
  <1>5. Deadlines'
    BY <1>0, <1>1 DEF Deadlines
  <1> QED
    BY <1>0, <1>1, <1>2, <1>3, <1>4, <1>5 DEF ClientInv

(* A functor: startInLoop(), stopInLoop() or resetChannel().                  *)
LEMMA ClientCall ==
    ASSUME ClientInv, clientFault = "none", Client!CallFunctor
    PROVE  ClientInv'
  <1>0. /\ ClientType /\ Functors(batch, clientPending) /\ Tokens /\ Resets /\ Deadlines
        /\ ClientLife /\ Attempted
    BY DEF ClientInv
  <1>1. /\ batch # <<>> /\ batch' = Tail(batch)
        /\ UNCHANGED <<user, clientConnect, connection, restarting, connect, now, client,
                       connector, hold>>
    BY DEF Client!CallFunctor, Client!clientVars, Client!lifeVars
  <1> DEFINE S(b, p) == Waits(b, p, "startInLoop")
             X(b, p) == Waits(b, p, "resetChannel")
  <1>2. /\ Functors(batch', clientPending) /\ Head(batch) \in Calls
        /\ S(batch, clientPending) <=> Head(batch) = "startInLoop" \/ S(batch', clientPending)
        /\ X(batch, clientPending) <=> Head(batch) = "resetChannel" \/ X(batch', clientPending)
        /\ Head(batch) = "startInLoop" => ~S(batch', clientPending)
        /\ Head(batch) = "resetChannel" => ~X(batch', clientPending)
    BY <1>0, <1>1, Calling
  <1> HIDE DEF S, X
  <1>3. ~restarting
    BY <1>0, <1>1 DEF Tokens
  <1>4. CASE ~connector
    <2>1. /\ clientFault' = "functorFreed"
          /\ UNCHANGED <<clientState, channel, timers, gaveUp, clientPending>>
      BY <1>4 DEF Client!CallFunctor
    <2>2. channel = "none" /\ timers = <<>> /\ ~client
      BY <1>0, <1>4 DEF ClientLife
    <2>3. ~X(batch', clientPending') /\ (S(batch', clientPending') => S(batch, clientPending))
      BY <1>0, <1>2, <2>1, <2>2 DEF Resets, X
    <2>4. ClientType'
      BY <1>0, <1>1, <2>1 DEF ClientType
    <2>5. Tokens' /\ Resets' /\ Attempted' /\ ClientLife'
      BY <1>0, <1>1, <1>3, <1>4, <2>1, <2>2, <2>3
         DEF Tokens, Resets, Attempted, ClientLife, S, X
    <2>6. Deadlines'
      BY <2>1, <2>2 DEF Deadlines
    <2> QED
      BY <1>2, <2>1, <2>4, <2>5, <2>6 DEF ClientInv
  <1>5. CASE connector /\ Head(batch) = "startInLoop"
    <2>1. Client!StartInLoop(timers) /\ clientPending' = clientPending
      BY <1>5 DEF Client!CallFunctor
    <2>2. /\ timers = <<>> /\ channel = "none" /\ ~connection /\ clientState = "kDisconnected"
          /\ user # "idle"
      BY <1>0, <1>2, <1>5 DEF Tokens, S
    <2>3. ~X(batch', clientPending') /\ ~S(batch', clientPending')
      BY <1>0, <1>2, <1>5, <2>1, <2>2 DEF Resets, X
    <2> QED
      BY <1>1, <1>2, <1>3, <1>5, <2>1, <2>2, <2>3, ClientAttempt DEF S, X
  <1>6. CASE connector /\ Head(batch) = "resetChannel"
    <2>1. /\ channel' = "none"
          /\ UNCHANGED <<clientState, timers, gaveUp, clientFault, clientPending>>
      BY <1>6 DEF Client!CallFunctor
    <2>2. channel = "removed"
      BY <1>0, <1>2, <1>6 DEF Resets, X
    <2>3. ~X(batch', clientPending') /\ ~S(batch', clientPending') /\ ~S(batch, clientPending)
      BY <1>0, <1>2, <1>6, <2>1, <2>2 DEF Tokens, S
    <2>4. ClientType'
      BY <1>0, <1>1, <2>1 DEF ClientType
    <2>5. Tokens' /\ Resets' /\ Attempted' /\ ClientLife'
      BY <1>0, <1>1, <1>3, <1>6, <2>1, <2>2, <2>3
         DEF Tokens, Resets, Attempted, ClientLife, S, X
    <2>6. Deadlines'
      BY <1>0, <1>1, <2>1 DEF Deadlines
    <2> QED
      BY <1>2, <2>1, <2>4, <2>5, <2>6 DEF ClientInv
  <1>7. CASE connector /\ Head(batch) = "stopInLoop" /\ clientState # "kConnecting"
    <2>1. UNCHANGED <<clientState, channel, timers, gaveUp, clientFault, clientPending>>
      BY <1>7 DEF Client!CallFunctor, Client!StopInLoop, Client!attemptVars
    <2>2. /\ S(batch', clientPending') <=> S(batch, clientPending)
          /\ X(batch', clientPending') <=> X(batch, clientPending)
      BY <1>2, <1>7, <2>1
    <2>3. ClientType'
      BY <1>0, <1>1, <2>1 DEF ClientType
    <2>4. Tokens' /\ Resets' /\ Attempted' /\ ClientLife'
      BY <1>0, <1>1, <1>3, <2>1, <2>2 DEF Tokens, Resets, Attempted, ClientLife, S, X
    <2>5. Deadlines'
      BY <1>0, <1>1, <2>1 DEF Deadlines
    <2> QED
      BY <1>2, <2>1, <2>3, <2>4, <2>5 DEF ClientInv
  <1>8. CASE connector /\ Head(batch) = "stopInLoop" /\ clientState = "kConnecting"
    <2>1. /\ channel' = "removed" /\ clientPending' = Append(clientPending, "resetChannel")
          /\ clientState' = "kDisconnected" /\ UNCHANGED <<gaveUp, clientFault>>
          /\ timers' = IF connect THEN Append(timers, now + RetryDelay) ELSE timers
      BY <1>8 DEF Client!CallFunctor, Client!StopInLoop, Client!Retry
    <2>2. /\ channel = "polled" /\ timers = <<>> /\ ~connection /\ user # "idle"
          /\ ~S(batch, clientPending) /\ ~X(batch, clientPending)
      BY <1>0, <1>8 DEF Tokens, Resets, S, X
    <2>3. ~S(batch', clientPending) /\ ~X(batch', clientPending)
      BY <1>2, <2>2
    <2>4. /\ Functors(batch', clientPending')
          /\ ~S(batch', clientPending') /\ X(batch', clientPending')
      BY <1>2, <2>1, <2>3, Queueing DEF S, X, Calls
    <2>5. connect => client /\ hold = -1
      BY <1>0, <1>8 DEF ClientLife
    <2>6. /\ Append(<<>>, now + RetryDelay) \in Seq(Nat) /\ Append(<<>>, now + RetryDelay) # <<>>
          /\ <<>> \in Seq(Nat)
      BY <1>0, RetryTimer
    <2>7. /\ connect => timers' = Append(<<>>, now + RetryDelay)
          /\ ~connect => timers' = <<>>
          /\ timers' \in Seq(Nat)
      BY <2>1, <2>2, <2>6
    <2>8. ClientType'
      BY <1>0, <1>1, <2>1, <2>7 DEF ClientType
    <2>9. Tokens' /\ Resets'
      BY <1>1, <1>3, <2>1, <2>2, <2>4 DEF Tokens, Resets, S, X
    <2>10. Attempted' /\ ClientLife'
      BY <1>0, <1>1, <1>8, <2>1, <2>6, <2>7 DEF Attempted, ClientLife
    <2>11. Deadlines'
      <3> SUFFICES ASSUME timers' # <<>>
                   PROVE  Deadlines'
        BY DEF Deadlines
      <3>1. connect /\ timers' = Append(<<>>, now + RetryDelay)
        BY <2>7
      <3>2. Len(timers') = 1 /\ timers'[1] = now + RetryDelay /\ now < timers'[1]
        BY <1>0, <3>1, RetryTimer
      <3>3. hold' = -1 /\ now' = now
        BY <1>1, <2>5, <3>1
      <3>4. timers'[1] <= now' + RetryDelay
        BY <1>0, <3>2, <3>3, ServersAssumption DEF ClientType
      <3> QED
        BY <3>2, <3>3, <3>4 DEF Deadlines
    <2> QED
      BY <2>1, <2>4, <2>8, <2>9, <2>10, <2>11 DEF ClientInv
  <1> QED
    BY <1>2, <1>4, <1>5, <1>6, <1>7, <1>8 DEF Calls

(* One case for each action.                                                  *)
LEMMA ClientStep == ClientInv /\ [Client!Next]_clientVars => ClientInv'
  <1> SUFFICES ASSUME ClientInv, [Client!Next]_clientVars
               PROVE  ClientInv'
    OBVIOUS
  <1>1. CASE UNCHANGED clientVars
    <2>1. UNCHANGED <<user, clientConnect, connect, clientState, channel, clientPending, batch,
                      timers, hold, now, connection, restarting, client, connector, gaveUp,
                      clientFault>>
      BY <1>1 DEF clientVars
    <2> QED
      BY <2>1 DEF ClientInv, ClientType, Tokens, Resets, Deadlines, ClientLife, Attempted
  <1>2. CASE Client!Next
    <2>1. clientFault = "none"
      BY <1>2 DEF Client!Next
    <2> QED
      BY <1>2, <2>1, ClientStart, ClientStop, ClientEvent, ClientClosed, ClientRestart,
         ClientDestroy, ClientRetry, ClientHold, ClientTick, ClientSwap, ClientCall
         DEF Client!Next
  <1> QED
    BY <1>1, <1>2

(* However connect(), stop(), disconnect(), retries, restarts and ~TcpClient  *)
(* interleave: a retry timer, an attempt under way and a connection exclude   *)
(* one another and the asserts of Connector hold; a Connector that is to      *)
(* connect has an attempt before it; and no retry timer finds it deleted, for *)
(* any delays of which the retry's is the shorter.                            *)
THEOREM SingleAttempt == ServersSpec => []OneAttempt
  <1>1. ServersInit => ClientInv
    BY ClientInit DEF ServersInit
  <1>2. ClientInv /\ [ServersNext]_allVars => ClientInv'
    BY PartSteps, ClientStep
  <1>3. ClientInv => OneAttempt
    <2> SUFFICES ASSUME ClientInv
                 PROVE  Client!OneAttempt /\ Client!AttemptPending /\ Client!TimerFindsConnector
      BY DEF OneAttempt
    <2>0. /\ ClientType /\ Functors(batch, clientPending) /\ Tokens /\ Deadlines /\ Attempted
          /\ clientFault \notin {"startInLoop", "connecting", "handleWrite", "timerFreed"}
      BY DEF ClientInv
    <2>1. Len(timers) + Client!Count(channel = "polled") + Client!Count(connection)
            + Client!Count(restarting) <= 1
      <3>1. CASE timers # <<>>
        <4>1. /\ Len(timers) = 1 /\ Client!Count(channel = "polled") = 0
              /\ Client!Count(connection) = 0 /\ Client!Count(restarting) = 0
          BY <2>0, <3>1 DEF Deadlines, Tokens, Client!Count
        <4> QED
          BY <4>1
      <3>2. CASE timers = <<>>
        <4>1. Len(timers) = 0
          BY <3>2
        <4>2. CASE channel = "polled"
          <5>1. /\ Client!Count(channel = "polled") = 1
                /\ Client!Count(connection) = 0 /\ Client!Count(restarting) = 0
            BY <2>0, <4>2 DEF Tokens, Client!Count
          <5> QED
            BY <4>1, <5>1
        <4>3. CASE channel # "polled" /\ connection
          <5>1. /\ Client!Count(channel = "polled") = 0
                /\ Client!Count(connection) = 1 /\ Client!Count(restarting) = 0
            BY <2>0, <4>3 DEF Tokens, Client!Count
          <5> QED
            BY <4>1, <5>1
        <4>4. CASE channel # "polled" /\ ~connection
          <5>1. /\ Client!Count(channel = "polled") = 0
                /\ Client!Count(connection) = 0 /\ Client!Count(restarting) \in {0, 1}
            BY <4>4 DEF Client!Count
          <5> QED
            BY <4>1, <5>1
        <4> QED
          BY <4>2, <4>3, <4>4
      <3> QED
        BY <3>1, <3>2
    <2>2. Client!OneAttempt
      BY <2>0, <2>1 DEF Client!OneAttempt
    <2>3. Waits(batch, clientPending, "startInLoop") =>
            \/ Client!Queued("startInLoop")
            \/ \E i \in DOMAIN batch : batch[i] = "startInLoop"
      BY <2>0 DEF Functors, Waits, Has, Client!Queued
    <2>4. Client!AttemptPending
      BY <2>0, <2>3 DEF Attempted, Client!AttemptPending
    <2>5. Client!TimerFindsConnector
      BY <2>0 DEF Client!TimerFindsConnector
    <2> QED
      BY <2>2, <2>4, <2>5
  <1> QED
    BY <1>1, <1>2, <1>3, PTL DEF ServersSpec
=============================================================================
