--------------------------- MODULE IdleWheelProofs ---------------------------
(* The timing wheel shuts a connection down exactly on time, for any number   *)
(* of buckets and any set of connections.                                     *)
EXTENDS IdleWheel, TLAPS

(* idleSeconds, 10 unless the command line gives another (main.cpp).          *)
SecondsAssumption == IdleSeconds \in Nat \ {0}

TypeInv ==
    /\ conn \in [Conns -> {"no", "up", "shut", "gone"}]
    /\ buckets \in Seq(SUBSET Conns)
    /\ Len(buckets) = IdleSeconds
    /\ idle \in [Conns -> Nat]

(* The last bucket that holds the entry of a connection that is up is as far  *)
(* from back() as the connection has been silent.                             *)
LastSeen(c) ==
    /\ idle[c] < IdleSeconds
    /\ c \in buckets[IdleSeconds - idle[c]]
    /\ \A i \in 1..IdleSeconds : i > IdleSeconds - idle[c] => c \notin buckets[i]

WheelInv ==
    \A c \in Conns :
        /\ conn[c] = "no" => idle[c] = 0
        /\ conn[c] = "up" => LastSeen(c)
        /\ conn[c] = "shut" => idle[c] = IdleSeconds

IInv == TypeInv /\ WheelInv

(* EchoServer() leaves empty buckets and no connection. *)
LEMMA Initially == ASSUME SecondsAssumption, Init PROVE IInv
<1>1. buckets \in Seq(SUBSET Conns) /\ Len(buckets) = IdleSeconds
  BY DEF SecondsAssumption, Init
<1>2. QED
  BY <1>1 DEF Init, IInv, TypeInv, WheelInv

(* InsertBack changes the last bucket only, and that by adding one entry. *)
LEMMA InsertBackFacts ==
  ASSUME SecondsAssumption, TypeInv, NEW c \in Conns
  PROVE  /\ InsertBack(c) \in Seq(SUBSET Conns)
         /\ Len(InsertBack(c)) = IdleSeconds
         /\ InsertBack(c)[IdleSeconds] = buckets[IdleSeconds] \cup {c}
         /\ \A i \in 1..IdleSeconds : i # IdleSeconds => InsertBack(c)[i] = buckets[i]
<1>1. IdleSeconds \in 1..Len(buckets) /\ buckets[IdleSeconds] \in SUBSET Conns
  BY DEF SecondsAssumption, TypeInv
<1>2. QED
  BY <1>1 DEF SecondsAssumption, TypeInv, InsertBack

(* An entry put into back() leaves the other connections where they were. *)
LEMMA InsertKeeps ==
  ASSUME SecondsAssumption, TypeInv, NEW c \in Conns, NEW d \in Conns, d # c,
         LastSeen(d), buckets' = InsertBack(c), idle'[d] = idle[d]
  PROVE  LastSeen(d)'
<1>1. \A i \in 1..IdleSeconds : d \in buckets'[i] <=> d \in buckets[i]
  BY InsertBackFacts
<1>2. IdleSeconds - idle[d] \in 1..IdleSeconds
  BY DEF SecondsAssumption, TypeInv, LastSeen
<1>3. QED
  BY <1>1, <1>2 DEF LastSeen

(* An entry put into back() was last seen now. *)
LEMMA InsertSees ==
  ASSUME SecondsAssumption, TypeInv, NEW c \in Conns,
         buckets' = InsertBack(c), idle'[c] = 0
  PROVE  LastSeen(c)'
<1>1. c \in buckets'[IdleSeconds]
  BY InsertBackFacts
<1>2. QED
  BY <1>1 DEF SecondsAssumption, LastSeen

(* A new connection starts in back(). *)
LEMMA UpStep ==
  ASSUME SecondsAssumption, IInv, NEW c \in Conns, OnConnectionUp(c)
  PROVE  IInv'
<1>1. TypeInv'
  BY InsertBackFacts DEF IInv, TypeInv, OnConnectionUp
<1>2. ASSUME NEW d \in Conns, conn'[d] = "up" PROVE LastSeen(d)'
  <2>1. CASE d = c
    BY <2>1, InsertSees DEF IInv, WheelInv, OnConnectionUp
  <2>2. CASE d # c
    BY <1>2, <2>2, InsertKeeps DEF IInv, TypeInv, WheelInv, OnConnectionUp
  <2>3. QED
    BY <2>1, <2>2
<1>3. QED
  BY <1>1, <1>2 DEF IInv, TypeInv, WheelInv, OnConnectionUp

(* A connection that goes leaves its entry in the wheel. *)
LEMMA DownStep ==
  ASSUME SecondsAssumption, IInv, NEW c \in Conns, OnConnectionDown(c)
  PROVE  IInv'
<1>1. TypeInv'
  BY DEF IInv, TypeInv, OnConnectionDown
<1>2. \A d \in Conns : LastSeen(d)' <=> LastSeen(d)
  BY DEF OnConnectionDown, LastSeen
<1>3. QED
  BY <1>1, <1>2 DEF IInv, TypeInv, WheelInv, OnConnectionDown

(* A message puts the entry of a connection that is up into back(). *)
LEMMA MessageStep ==
  ASSUME SecondsAssumption, IInv, NEW c \in Conns, OnMessage(c)
  PROVE  IInv'
<1>1. TypeInv'
  BY InsertBackFacts DEF IInv, TypeInv, OnMessage
<1>2. ASSUME NEW d \in Conns, conn'[d] = "up" PROVE LastSeen(d)'
  <2>1. LastSeen(d)
    BY <1>2 DEF IInv, WheelInv, OnMessage
  <2>2. CASE d = c
    <3>1. EntryAlive(c)
      BY <2>1, <2>2 DEF SecondsAssumption, IInv, TypeInv, LastSeen, EntryAlive
    <3>2. buckets' = InsertBack(c) /\ idle'[c] = 0
      BY <1>2, <2>2, <3>1 DEF IInv, TypeInv, OnMessage
    <3>3. QED
      BY <2>2, <3>2, InsertSees DEF IInv
  <2>3. CASE d # c
    <3>1. idle'[d] = idle[d]
      BY <2>3 DEF IInv, TypeInv, OnMessage
    <3>2. CASE buckets' = InsertBack(c)
      BY <2>1, <2>3, <3>1, <3>2, InsertKeeps DEF IInv
    <3>3. CASE buckets' = buckets
      BY <2>1, <3>1, <3>3 DEF LastSeen
    <3>4. QED
      BY <3>2, <3>3 DEF OnMessage
  <2>4. QED
    BY <2>2, <2>3
<1>3. QED
  BY <1>1, <1>2 DEF IInv, TypeInv, WheelInv, OnMessage

(* push_back() moves every bucket one place and empties the last. *)
LEMMA Turn ==
  ASSUME SecondsAssumption, TypeInv, OnTimer
  PROVE  /\ buckets' \in Seq(SUBSET Conns)
         /\ Len(buckets') = IdleSeconds
         /\ buckets'[IdleSeconds] = {}
         /\ \A i \in 1..IdleSeconds : i < IdleSeconds => buckets'[i] = buckets[i + 1]
<1>1. Tail(buckets) \in Seq(SUBSET Conns) /\ Len(Tail(buckets)) = IdleSeconds - 1
  BY DEF SecondsAssumption, TypeInv
<1>2. \A i \in 1..(IdleSeconds - 1) : Tail(buckets)[i] = buckets[i + 1]
  BY DEF SecondsAssumption, TypeInv
<1>3. QED
  BY <1>1, <1>2 DEF SecondsAssumption, OnTimer

(* A tick shuts down exactly the connections last seen in the first bucket. *)
LEMMA TimerStep ==
  ASSUME SecondsAssumption, IInv, OnTimer
  PROVE  IInv'
<1>1. TypeInv'
  BY Turn DEF IInv, TypeInv, OnTimer
<1>2. ASSUME NEW c \in Conns
      PROVE  /\ conn'[c] = "no" => idle'[c] = 0
             /\ conn'[c] = "up" => LastSeen(c)'
             /\ conn'[c] = "shut" => idle'[c] = IdleSeconds
  <2>1. CASE conn[c] # "up"
    BY <2>1 DEF IInv, WheelInv, OnTimer
  <2>2. CASE conn[c] = "up"
    <3>1. LastSeen(c) /\ idle'[c] = idle[c] + 1 /\ idle[c] \in Nat
      BY <2>2 DEF IInv, TypeInv, WheelInv, OnTimer
    <3>2. CASE idle[c] = IdleSeconds - 1
      <4>1. c \in buckets[1] /\ \A i \in 2..IdleSeconds : c \notin buckets[i]
        BY <3>1, <3>2 DEF SecondsAssumption, LastSeen
      <4>2. conn'[c] = "shut"
        BY <2>2, <4>1 DEF OnTimer
      <4>3. QED
        BY <3>1, <3>2, <4>2 DEF SecondsAssumption
    <3>3. CASE idle[c] # IdleSeconds - 1
      <4>1. idle'[c] < IdleSeconds /\ IdleSeconds - idle[c] \in 2..IdleSeconds
        BY <3>1, <3>3 DEF SecondsAssumption, LastSeen
      <4>2. conn'[c] = "up"
        BY <2>2, <3>1, <4>1 DEF OnTimer, LastSeen
      <4>3. c \in buckets'[IdleSeconds - idle'[c]]
        BY <3>1, <4>1, Turn DEF SecondsAssumption, IInv, LastSeen
      <4>4. ASSUME NEW i \in 1..IdleSeconds, i > IdleSeconds - idle'[c]
            PROVE  c \notin buckets'[i]
        <5>1. CASE i = IdleSeconds
          BY <5>1, Turn DEF IInv
        <5>2. CASE i < IdleSeconds
          <6>1. i + 1 \in 1..IdleSeconds /\ i + 1 > IdleSeconds - idle[c]
            BY <3>1, <4>4, <5>2 DEF SecondsAssumption
          <6>2. QED
            BY <3>1, <5>2, <6>1, Turn DEF IInv, LastSeen
        <5>3. QED
          BY <5>1, <5>2 DEF SecondsAssumption
      <4>5. QED
        BY <4>1, <4>2, <4>3, <4>4 DEF LastSeen
    <3>4. QED
      BY <3>2, <3>3
  <2>3. QED
    BY <2>1, <2>2
<1>3. QED
  BY <1>1, <1>2 DEF IInv, WheelInv

(* A connection of the idle-connection server (idleconnection/echo.cpp:       *)
(* onTimer(), ~Entry()) is up while it was heard within the last IdleSeconds  *)
(* ticks, and is shut down at the IdleSeconds-th, for any positive number of  *)
(* buckets and any set of connections.                                        *)
THEOREM ShutOnTime == SecondsAssumption => (Spec => []IdleExact)
<1> SUFFICES ASSUME SecondsAssumption PROVE Spec => []IdleExact
  OBVIOUS
<1>1. Init => IInv
  BY Initially
<1>2. IInv /\ UNCHANGED vars => IInv'
  BY DEF IInv, TypeInv, WheelInv, LastSeen, vars
<1>3. IInv /\ [Next]_vars => IInv'
  BY <1>2, TimerStep, UpStep, DownStep, MessageStep DEF Next
<1>4. IInv => IdleExact
  <2>1. ASSUME IInv, NEW c \in Conns, conn[c] = "up"
        PROVE  idle[c] < IdleSeconds /\ EntryAlive(c)
    <3>1. LastSeen(c) /\ IdleSeconds - idle[c] \in 1..IdleSeconds
      BY <2>1 DEF SecondsAssumption, IInv, TypeInv, WheelInv, LastSeen
    <3>2. QED
      BY <3>1 DEF LastSeen, EntryAlive
  <2>2. QED
    BY <2>1 DEF IInv, WheelInv, IdleExact
<1>5. QED
  BY <1>1, <1>3, <1>4, PTL DEF Spec
=============================================================================
