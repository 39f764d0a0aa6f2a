------------------------- MODULE TcpConnectionProofs -------------------------
(* What holds of a connection for any number of application threads, any     *)
(* message length, any high water mark and any set of uses.                  *)
(*                                                                           *)
(* The inductive invariant has four parts: types; the life of the            *)
(* connection as far as any use keeps it (LifeInv); what orders the bytes,   *)
(* from send() through the queued functors to the socket (OrderInv); and     *)
(* the phases that a connection in orderly use goes through (PhaseInv).      *)
EXTENDS TcpConnection, TLAPS

States == {"kConnecting", "kConnected", "kDisconnecting", "kDisconnected"}
Open == {"kConnected", "kDisconnecting"}

Functor ==
    [op : {"connectEstablished", "sendInLoop", "shutdownInLoop", "forceCloseInLoop",
           "connectDestroyed", "writeComplete", "highWaterMark"},
     by : Senders, msg : Nat]

Byte == Senders \X Nat \X Nat

(* The types of the variables; the current batch is a prefix of the queue.    *)
TypeOK ==
    /\ use \in Use /\ sameLoop \in BOOLEAN /\ state_ \in States
    /\ reading \in BOOLEAN /\ writing \in BOOLEAN /\ registered \in BOOLEAN
    /\ pendingFunctors_ \in Seq(Functor)
    /\ batch \in 0..Len(pendingFunctors_) /\ batchHolds \in BOOLEAN
    /\ removals \in Nat /\ inMap \in BOOLEAN /\ serverAlive \in BOOLEAN
    /\ holds \subseteq Users
    /\ upc \in [Users -> {"out", "send", "shutdown", "forceClose", "shutdownQueue",
                          "forceCloseQueue"}]
    /\ sent \in [Senders -> Nat] /\ closes \in [Senders -> Nat]
    /\ wire \in Seq(Byte) /\ outputBuffer_ \in Seq(Byte) /\ accepted \in Seq(Byte)
    /\ writeShut \in BOOLEAN /\ downs \in Nat

(* In any use: connectEstablished() is queued only for a connection that is   *)
(* still kConnecting, and before anything else;                               *)
EstablishedFirst ==
    \A i \in 1..Len(pendingFunctors_) :
      pendingFunctors_[i].op = "connectEstablished" => i = 1 /\ state_ = "kConnecting"

(* until then nothing else but connectDestroyed() is queued,                  *)
FreshQueue ==
    state_ = "kConnecting" =>
      \A i \in 1..Len(pendingFunctors_) :
        pendingFunctors_[i].op \in {"connectEstablished", "connectDestroyed"}

(* and nobody has the connection;                                             *)
NobodyHas ==
    state_ = "kConnecting" =>
      /\ ~reading /\ ~writing /\ holds = {} /\ outputBuffer_ = <<>>
      /\ \A u \in Users : upc[u] = "out"

(* interest in events means an open connection;                               *)
InterestOpen == reading \/ writing => state_ \in Open

(* while the channel is read, bytes wait only under interest in writing;      *)
BytesWatched == reading => writing \/ outputBuffer_ = <<>>

(* and no assert on state_ has failed.                                        *)
NoStateFault == faults \cap {"established", "close"} = {}

LifeRest == NobodyHas /\ InterestOpen /\ BytesWatched /\ NoStateFault
LifeInv == EstablishedFirst /\ FreshQueue /\ LifeRest

IsSend(f) == f.op = "sendInLoop"

(* Position in the order in which its sender sent a byte.                     *)
Before(b, c) == b[2] < c[2] \/ (b[2] = c[2] /\ b[3] < c[3])

(* What was taken is on the wire or waits, whole;                             *)
Whole == wire \o outputBuffer_ = accepted

(* the bytes of a sender are in order;                                        *)
InOrder ==
    \A i, j \in 1..Len(accepted) :
      i < j /\ accepted[i][1] = accepted[j][1] => Before(accepted[i], accepted[j])

(* messages taken are among those sent, and before one that is not queued yet; *)
TakenSent ==
    \A i \in 1..Len(accepted) :
      /\ accepted[i][2] <= sent[accepted[i][1]]
      /\ accepted[i][1] \in Users /\ upc[accepted[i][1]] = "send"
           => accepted[i][2] < sent[accepted[i][1]]

(* messages queued are too, and come after those taken;                       *)
Later(f) ==
    /\ f.by \in Users /\ f.msg <= sent[f.by]
    /\ upc[f.by] = "send" => f.msg < sent[f.by]
    /\ \A j \in 1..Len(accepted) : accepted[j][1] = f.by => accepted[j][2] < f.msg

QueuedLater ==
    \A i \in 1..Len(pendingFunctors_) : IsSend(pendingFunctors_[i]) => Later(pendingFunctors_[i])

(* and the queue has them in order.                                           *)
QueuedInOrder ==
    \A i, j \in 1..Len(pendingFunctors_) :
      /\ i < j /\ IsSend(pendingFunctors_[i]) /\ IsSend(pendingFunctors_[j])
      /\ pendingFunctors_[i].by = pendingFunctors_[j].by
      => pendingFunctors_[i].msg < pendingFunctors_[j].msg

OrderInv == Whole /\ InOrder /\ TakenSent /\ QueuedLater /\ QueuedInOrder

(* connectDestroyed() is queued.                                              *)
Destroying == \E i \in 1..Len(pendingFunctors_) : pendingFunctors_[i].op = "connectDestroyed"

(* The phases of a connection in orderly use.                                 *)
Fresh == state_ = "kConnecting" /\ ~inMap /\ removals = 0 /\ downs = 0 /\ pendingFunctors_ = <<>>
Accepted ==
    /\ state_ = "kConnecting" /\ inMap /\ removals = 0 /\ downs = 0
    /\ \A i \in 1..Len(pendingFunctors_) : pendingFunctors_[i].op = "connectEstablished"
Established ==
    state_ \in Open /\ registered /\ inMap /\ removals = 0 /\ downs = 0 /\ ~Destroying
Closed ==
    state_ = "kDisconnected" /\ registered /\ inMap /\ removals = 1 /\ downs = 1 /\ ~Destroying
Removed ==
    state_ = "kDisconnected" /\ registered /\ ~inMap /\ removals = 0 /\ downs = 1 /\ Destroying
Gone ==
    state_ = "kDisconnected" /\ ~registered /\ ~inMap /\ removals = 0 /\ downs = 1 /\ ~Destroying

Phase == Fresh \/ Accepted \/ Established \/ Closed \/ Removed \/ Gone

(* In orderly use application threads do nothing but send, and hold their     *)
(* pointer while they do                                                      *)
OnlySend == \A u \in Users : upc[u] \in {"out", "send"} /\ (upc[u] = "send" => u \in holds)

(* and while a functor of theirs is queued;                                   *)
SendersHold ==
    \A i \in 1..Len(pendingFunctors_) :
      /\ pendingFunctors_[i].op /= "shutdownInLoop"
      /\ IsSend(pendingFunctors_[i]) => pendingFunctors_[i].by \in holds

(* connectDestroyed() is queued at most once.                                 *)
DestroyedOnce ==
    \A i, j \in 1..Len(pendingFunctors_) :
      pendingFunctors_[i].op = "connectDestroyed" /\ pendingFunctors_[j].op = "connectDestroyed"
        => i = j

Good == faults = {} /\ serverAlive /\ OnlySend /\ SendersHold /\ DestroyedOnce /\ Phase
PhaseInv == Orderly => Good

-----------------------------------------------------------------------------
(* What a step does to the queue: it takes d functors from the front and      *)
(* queues at most one, out of new, at the end.                                *)
Moves(d, new) ==
    /\ pendingFunctors_' \in Seq(Functor)
    /\ d \in {0, 1} /\ d <= Len(pendingFunctors_)
    /\ Len(pendingFunctors_') = Len(pendingFunctors_) - d + (IF new = {} THEN 0 ELSE 1)
    /\ \A i \in 1..(Len(pendingFunctors_) - d) : pendingFunctors_'[i] = pendingFunctors_[i + d]
    /\ new /= {} => pendingFunctors_'[Len(pendingFunctors_')] \in new

(* F(op) is a functor.                                                        *)
LEMMA FType ==
    ASSUME NEW op \in {"connectEstablished", "sendInLoop", "shutdownInLoop", "forceCloseInLoop",
                       "connectDestroyed", "writeComplete", "highWaterMark"}
    PROVE  F(op) \in Functor /\ F(op).op = op /\ F(op).by = IO
  BY DEF F, Functor, Senders

(* The queue is left alone.                                                   *)
LEMMA MovesNone ==
    ASSUME pendingFunctors_ \in Seq(Functor), pendingFunctors_' = pendingFunctors_
    PROVE  Moves(0, {})
  BY DEF Moves

(* queueInLoop()                                                              *)
LEMMA MovesPush ==
    ASSUME pendingFunctors_ \in Seq(Functor), NEW f \in Functor,
           pendingFunctors_' = Append(pendingFunctors_, f)
    PROVE  Moves(0, {f})
  BY DEF Moves

(* The functor at the front is called.                                        *)
LEMMA MovesPop ==
    ASSUME pendingFunctors_ \in Seq(Functor), pendingFunctors_ /= <<>>,
           pendingFunctors_' = Tail(pendingFunctors_)
    PROVE  Moves(1, {})
  BY DEF Moves

(* The functor at the front is called and queues another.                     *)
LEMMA MovesPopPush ==
    ASSUME pendingFunctors_ \in Seq(Functor), pendingFunctors_ /= <<>>, NEW f \in Functor,
           pendingFunctors_' = Append(Tail(pendingFunctors_), f)
    PROVE  Moves(1, {f})
  <1> DEFINE t == Tail(pendingFunctors_)
  <1>1. /\ t \in Seq(Functor) /\ Len(t) = Len(pendingFunctors_) - 1
        /\ \A i \in 1..Len(t) : t[i] = pendingFunctors_[i + 1]
        /\ Len(pendingFunctors_) \in Nat \ {0}
    OBVIOUS
  <1> HIDE DEF t
  <1>2. /\ Append(t, f) \in Seq(Functor) /\ Len(Append(t, f)) = Len(t) + 1
        /\ \A i \in 1..Len(t) : Append(t, f)[i] = t[i]
        /\ Append(t, f)[Len(t) + 1] = f
    BY <1>1
  <1>3. pendingFunctors_' = Append(t, f)
    BY DEF t
  <1> QED
    BY <1>1, <1>2, <1>3 DEF Moves

(* Queueing one functor, or none, by concatenation.                           *)
LEMMA ConcatOne ==
    ASSUME NEW S, NEW s \in Seq(S), NEW f \in S
    PROVE  s \o <<f>> = Append(s, f) /\ s \o <<>> = s
  OBVIOUS

-----------------------------------------------------------------------------
(* Two sequences that agree are equal.                                        *)
LEMMA SeqEqual ==
    ASSUME NEW S, NEW s \in Seq(S), NEW t \in Seq(S), Len(s) = Len(t),
           \A i \in 1..Len(s) : s[i] = t[i]
    PROVE  s = t
  OBVIOUS

(* Concatenation.                                                             *)
LEMMA Concat ==
    ASSUME NEW S, NEW s \in Seq(S), NEW t \in Seq(S)
    PROVE  /\ s \o t \in Seq(S) /\ Len(s \o t) = Len(s) + Len(t)
           /\ \A i \in 1..Len(s) : (s \o t)[i] = s[i]
           /\ \A i \in 1..Len(t) : (s \o t)[Len(s) + i] = t[i]
           /\ \A i \in 1..(Len(s) + Len(t)) :
                (s \o t)[i] = IF i <= Len(s) THEN s[i] ELSE t[i - Len(s)]
           /\ s \o <<>> = s /\ <<>> \o t = t
  OBVIOUS

(* Concatenation is associative.                                              *)
LEMMA Assoc ==
    ASSUME NEW S, NEW s \in Seq(S), NEW t \in Seq(S), NEW r \in Seq(S)
    PROVE  (s \o t) \o r = s \o (t \o r)
  <1>1. (s \o t) \o r \in Seq(S) /\ s \o (t \o r) \in Seq(S)
    OBVIOUS
  <1>2. Len((s \o t) \o r) = Len(s \o (t \o r))
    OBVIOUS
  <1>3. \A i \in 1..Len((s \o t) \o r) : ((s \o t) \o r)[i] = (s \o (t \o r))[i]
    OBVIOUS
  <1> QED
    BY <1>1, <1>2, <1>3, SeqEqual

(* What a write takes and what it leaves.                                     *)
LEMMA Split ==
    ASSUME NEW S, NEW s \in Seq(S), NEW n \in 0..Len(s)
    PROVE  /\ SubSeq(s, 1, n) \in Seq(S) /\ SubSeq(s, n + 1, Len(s)) \in Seq(S)
           /\ Len(SubSeq(s, n + 1, Len(s))) = Len(s) - n
           /\ SubSeq(s, 1, n) \o SubSeq(s, n + 1, Len(s)) = s
           /\ n = Len(s) => SubSeq(s, 1, n) = s /\ SubSeq(s, n + 1, Len(s)) = <<>>
  <1> DEFINE a == SubSeq(s, 1, n)
             b == SubSeq(s, n + 1, Len(s))
  <1>0. Len(s) \in Nat /\ n \in Nat
    OBVIOUS
  <1>1. a \in Seq(S) /\ Len(a) = n /\ \A i \in 1..n : a[i] = s[i]
    OBVIOUS
  <1>2. b \in Seq(S) /\ Len(b) = Len(s) - n /\ \A i \in 1..(Len(s) - n) : b[i] = s[n + i]
    OBVIOUS
  <1> HIDE DEF a, b
  <1>3. a \o b \in Seq(S) /\ Len(a \o b) = Len(s)
    BY <1>0, <1>1, <1>2
  <1>4. \A i \in 1..Len(s) : (a \o b)[i] = s[i]
    <2> TAKE i \in 1..Len(s)
    <2>1. (a \o b)[i] = IF i <= Len(a) THEN a[i] ELSE b[i - Len(a)]
      BY <1>1, <1>2
    <2>2. CASE i <= n
      BY <1>1, <2>1, <2>2
    <2>3. CASE i > n
      <3>1. i - n \in 1..(Len(s) - n) /\ n + (i - n) = i
        BY <2>3
      <3> QED
        BY <1>1, <1>2, <2>1, <2>3, <3>1
    <2> QED
      <3>1. i <= n \/ i > n
        BY <1>0
      <3> QED
        BY <2>2, <2>3, <3>1, Zenon
  <1>5. a \o b = s
    BY <1>3, <1>4, SeqEqual
  <1>6. n = Len(s) => a = s
    BY <1>1, SeqEqual
  <1>7. n = Len(s) => b = <<>>
    BY <1>2
  <1> QED
    BY <1>1, <1>2, <1>5, <1>6, <1>7 DEF a, b

(* The bytes of a message, in order and of the right sender.                  *)
LEMMA MessageType ==
    ASSUME NEW u \in Senders, NEW n \in Nat
    PROVE  /\ Message(u, n) \in Seq(Byte) /\ Len(Message(u, n)) = MsgLen
           /\ \A i \in 1..MsgLen : Message(u, n)[i] = <<u, n, i>>
  BY TcpConnectionAssumption DEF Message, Byte

(* What sendInLoop() does: nothing for a closed connection or a lost message; *)
(* otherwise the message is taken, the bytes not yet on the wire are in       *)
(* outputBuffer_, and if there are any the channel waits to write.            *)
LEMMA SendEffect ==
    ASSUME TypeOK, NEW data \in Seq(Byte), NEW rest \in Seq(Functor), data /= <<>>,
           SendInLoop(data, rest)
    PROVE  /\ UNCHANGED <<state_, reading, registered, downs, writeShut>>
           /\ \/ pendingFunctors_' = rest
              \/ pendingFunctors_' = Append(rest, F("writeComplete"))
              \/ pendingFunctors_' = Append(rest, F("highWaterMark"))
           /\ wire' \in Seq(Byte) /\ outputBuffer_' \in Seq(Byte) /\ writing' \in BOOLEAN
           /\ \/ UNCHANGED <<wire, outputBuffer_, accepted, writing>>
              \/ /\ state_ /= "kDisconnected"
                 /\ accepted' = accepted \o data
                 /\ wire' \o outputBuffer_' = (wire \o outputBuffer_) \o data
                 /\ writing' \/ (outputBuffer_' = <<>> /\ writing' = writing)
  <1>0. /\ wire \in Seq(Byte) /\ outputBuffer_ \in Seq(Byte) /\ writing \in BOOLEAN
        /\ UNCHANGED <<state_, reading, registered, downs>>
    BY DEF TypeOK, SendInLoop
  <1>b. (wire \o outputBuffer_) \o data = wire \o (outputBuffer_ \o data)
        /\ outputBuffer_ \o data \in Seq(Byte)
    BY <1>0, Assoc, Concat
  <1>r. ASSUME NEW d \in Seq(Byte), AppendRest(d, rest)
        PROVE  /\ outputBuffer_' = outputBuffer_ \o d /\ writing' = TRUE
               /\ \/ pendingFunctors_' = Append(rest, F("highWaterMark"))
                  \/ pendingFunctors_' = rest
    BY <1>r DEF AppendRest
  <1>1. CASE SendDropped(rest)
    BY <1>0, <1>1 DEF SendDropped, socket
  <1>2. CASE SendDirect(data, rest)
    <2>1. outputBuffer_ = <<>> /\ ~writing /\ state_ /= "kDisconnected" /\ writeShut' = writeShut
      BY <1>2 DEF SendDirect, NothingWaits
    <2>2. CASE wire' = wire /\ pendingFunctors_' = rest
               /\ UNCHANGED <<accepted, outputBuffer_, writing>>
      BY <1>0, <2>1, <2>2
    <2>3. CASE wire' = wire /\ accepted' = accepted \o data /\ AppendRest(data, rest)
      BY <1>0, <1>b, <1>r, <2>1, <2>3
    <2>4. ASSUME NEW n \in 0..Len(data), Takes(data, n), accepted' = accepted \o data,
                 IF n = Len(data)
                 THEN /\ pendingFunctors_' = Append(rest, F("writeComplete"))
                      /\ UNCHANGED <<outputBuffer_, writing>>
                 ELSE AppendRest(SubSeq(data, n + 1, Len(data)), rest)
          PROVE  /\ \/ pendingFunctors_' = rest
                    \/ pendingFunctors_' = Append(rest, F("writeComplete"))
                    \/ pendingFunctors_' = Append(rest, F("highWaterMark"))
                 /\ wire' \in Seq(Byte) /\ outputBuffer_' \in Seq(Byte) /\ writing' \in BOOLEAN
                 /\ wire' \o outputBuffer_' = (wire \o outputBuffer_) \o data
                 /\ writing' \/ (outputBuffer_' = <<>> /\ writing' = writing)
      <3> DEFINE a == SubSeq(data, 1, n)
                 b == SubSeq(data, n + 1, Len(data))
      <3>1. a \in Seq(Byte) /\ b \in Seq(Byte) /\ a \o b = data /\ (n = Len(data) => a = data)
        BY Split
      <3>2. wire' = wire \o a
        BY <2>4 DEF Takes
      <3>3. n /= Len(data) => AppendRest(b, rest)
        BY <2>4
      <3> HIDE DEF a, b
      <3>3a. (wire \o a) \o b = wire \o (a \o b)
        <4>1. \A x, y, z \in Seq(Byte) : (x \o y) \o z = x \o (y \o z)
          BY Assoc
        <4>2. wire \in Seq(Byte) /\ a \in Seq(Byte) /\ b \in Seq(Byte)
          BY <1>0, <3>1
        <4> QED
          BY <4>1, <4>2
      <3>3b. wire \o a \in Seq(Byte) /\ (wire \o a) \o <<>> = wire \o a
        BY <1>0, <3>1
      <3>3c. wire \o <<>> = wire /\ <<>> \o b = b
        BY <1>0, <3>1
      <3>4. wire \o outputBuffer_ = wire /\ outputBuffer_ \o b = b /\ wire \o a \in Seq(Byte)
            /\ (wire \o a) \o <<>> = wire \o a /\ (wire \o a) \o b = wire \o (a \o b)
        BY <2>1, <3>3a, <3>3b, <3>3c
      <3>5. CASE n = Len(data)
        BY <1>0, <2>1, <2>4, <3>1, <3>2, <3>4, <3>5
      <3>6. CASE n /= Len(data)
        BY <1>r, <3>1, <3>2, <3>3, <3>4, <3>6
      <3> QED
        BY <3>5, <3>6
    <2> QED
      BY <1>0, <1>2, <2>1, <2>2, <2>3, <2>4 DEF SendDirect, Fails
  <1>3. CASE SendBuffered(data, rest)
    BY <1>0, <1>b, <1>r, <1>3 DEF SendBuffered
  <1> QED
    BY <1>1, <1>2, <1>3 DEF SendInLoop

-----------------------------------------------------------------------------
(* Type correctness. *)

(* While a batch is run, the functor to be called is at the front.            *)
LEMMA RunFunctorFacts ==
    ASSUME TypeOK, NEW op, RunFunctor(op)
    PROVE  /\ pendingFunctors_ /= <<>> /\ Len(pendingFunctors_) \in Nat \ {0}
           /\ Head(pendingFunctors_) = pendingFunctors_[1] /\ pendingFunctors_[1].op = op
           /\ pendingFunctors_[1] \in Functor
           /\ batch \in Nat /\ batch' = batch - 1 /\ batch >= 1 /\ batchHolds' \in BOOLEAN
           /\ UNCHANGED <<use, sameLoop>> /\ Others \in Seq(Functor) /\ faults = {}
  <1>1. /\ pendingFunctors_ \in Seq(Functor) /\ batch \in 0..Len(pendingFunctors_)
        /\ batch > 0 /\ Head(pendingFunctors_).op = op /\ batch' = batch - 1
        /\ batchHolds' \in BOOLEAN /\ UNCHANGED <<use, sameLoop>> /\ faults = {}
    BY DEF TypeOK, RunFunctor, config, Running
  <1>2. pendingFunctors_ /= <<>>
    BY <1>1
  <1> QED
    BY <1>1, <1>2 DEF Others

(* The functors sendInLoop() and handleWrite() queue.                          *)
Callbacks == {F("writeComplete"), F("highWaterMark")}

(* Where sendInLoop() leaves the queue.                                       *)
LEMMA SendMoves ==
    ASSUME TypeOK, NEW rest,
           \/ pendingFunctors_' = rest
           \/ pendingFunctors_' = Append(rest, F("writeComplete"))
           \/ pendingFunctors_' = Append(rest, F("highWaterMark"))
    PROVE  /\ rest = pendingFunctors_ => \E new \in SUBSET Callbacks : Moves(0, new)
           /\ pendingFunctors_ /= <<>> /\ rest = Tail(pendingFunctors_)
                => \E new \in SUBSET Callbacks : Moves(1, new)
  <1>1. pendingFunctors_ \in Seq(Functor)
    BY DEF TypeOK
  <1>2. F("writeComplete") \in Functor /\ F("highWaterMark") \in Functor
    BY FType
  <1>3. \A f \in Callbacks : {f} \in SUBSET Callbacks /\ f \in Functor
    BY <1>2 DEF Callbacks
  <1>4. F("writeComplete") \in Callbacks /\ F("highWaterMark") \in Callbacks
    BY DEF Callbacks
  <1>5. ASSUME rest = pendingFunctors_
        PROVE  \E new \in SUBSET Callbacks : Moves(0, new)
    <2>1. CASE pendingFunctors_' = rest
      BY <1>1, <1>5, <2>1, MovesNone
    <2>2. ASSUME NEW f \in Callbacks, pendingFunctors_' = Append(rest, f)
          PROVE  \E new \in SUBSET Callbacks : Moves(0, new)
      <3>1. Moves(0, {f})
        BY <1>1, <1>3, <1>5, <2>2, MovesPush
      <3> QED
        BY <1>3, <3>1
    <2> QED
      BY <1>4, <2>1, <2>2
  <1>6. ASSUME pendingFunctors_ /= <<>>, rest = Tail(pendingFunctors_)
        PROVE  \E new \in SUBSET Callbacks : Moves(1, new)
    <2>1. CASE pendingFunctors_' = rest
      BY <1>1, <1>6, <2>1, MovesPop
    <2>2. ASSUME NEW f \in Callbacks, pendingFunctors_' = Append(rest, f)
          PROVE  \E new \in SUBSET Callbacks : Moves(1, new)
      <3>1. Moves(1, {f})
        BY <1>1, <1>3, <1>6, <2>2, MovesPopPush
      <3> QED
        BY <1>3, <3>1
    <2> QED
      BY <1>4, <2>1, <2>2
  <1> QED
    BY <1>5, <1>6

(* handleClose(): what it does in every case.                                 *)
LEMMA CloseEffect ==
    ASSUME TypeOK, NEW rest, HandleClose(rest)
    PROVE  /\ state_' = "kDisconnected" /\ downs' = downs + 1
           /\ reading' = FALSE /\ writing' = FALSE
           /\ UNCHANGED <<registered, serverAlive, holds, upc, sent, closes,
                          wire, writeShut, outputBuffer_, accepted>>
           /\ \/ /\ sameLoop /\ inMap' = FALSE /\ removals' = removals
                 /\ pendingFunctors_' = Append(rest, F("connectDestroyed"))
              \/ /\ ~sameLoop /\ removals' = removals + 1 /\ inMap' = inMap
                 /\ pendingFunctors_' = rest
           /\ state_ \in Open =>
                faults' \subseteq {"poller", "freedServer", "erase"}
           /\ state_ \in Open /\ registered /\ serverAlive /\ inMap => faults' = {}
  BY DEF TypeOK, HandleClose, users, socket, EraseFault, Fault, Open

(* What the base loop's steps queue.                                          *)
LEMMA BaseMoves ==
    ASSUME TypeOK
    PROVE  /\ NewConnection =>
                \/ sameLoop /\ Moves(0, {})
                \/ ~sameLoop /\ Moves(0, {F("connectEstablished")})
           /\ RemoveConnectionInLoop => Moves(0, {F("connectDestroyed")})
           /\ DestroyServer => \/ (~inMap \/ sameLoop) /\ Moves(0, {})
                               \/ (inMap /\ ~sameLoop) /\ Moves(0, {F("connectDestroyed")})
  <1>1. pendingFunctors_ \in Seq(Functor) /\ sameLoop \in BOOLEAN /\ inMap \in BOOLEAN
    BY DEF TypeOK
  <1>2. ASSUME NEW op \in {"connectEstablished", "connectDestroyed"}, Queue(<<F(op)>>)
        PROVE  Moves(0, {F(op)})
    <2>1. F(op) \in Functor
      BY FType
    <2>2. pendingFunctors_' = Append(pendingFunctors_, F(op))
      BY <1>1, <1>2, <2>1, ConcatOne DEF Queue
    <2> QED
      BY <1>1, <2>1, <2>2, MovesPush
  <1>3. pendingFunctors_' = pendingFunctors_ => Moves(0, {})
    BY <1>1, MovesNone
  <1>4. NewConnection => \/ sameLoop /\ Moves(0, {})
                         \/ ~sameLoop /\ Moves(0, {F("connectEstablished")})
    BY <1>1, <1>2, <1>3 DEF NewConnection, queues
  <1>5. RemoveConnectionInLoop => Moves(0, {F("connectDestroyed")})
    BY <1>2 DEF RemoveConnectionInLoop
  <1>6. DestroyServer => \/ (~inMap \/ sameLoop) /\ Moves(0, {})
                         \/ (inMap /\ ~sameLoop) /\ Moves(0, {F("connectDestroyed")})
    BY <1>1, <1>2, <1>3 DEF DestroyServer, queues
  <1> QED
    BY <1>4, <1>5, <1>6

(* What the functors take from the queue and add to it.                       *)
LEMMA FunctorMoves ==
    ASSUME TypeOK
    PROVE  /\ StartBatch => Moves(0, {})
           /\ RunConnectEstablished => Moves(1, {})
           /\ RunSendInLoop => \E new \in SUBSET Callbacks : Moves(1, new)
           /\ RunShutdownInLoop => Moves(1, {})
           /\ RunForceCloseInLoop =>
                \/ (~sameLoop \/ state_ \notin Open) /\ Moves(1, {})
                \/ (sameLoop /\ state_ \in Open) /\ Moves(1, {F("connectDestroyed")})
           /\ RunConnectDestroyed => Moves(1, {})
           /\ RunUserCallback => Moves(1, {})
  <1>1. pendingFunctors_ \in Seq(Functor) /\ sameLoop \in BOOLEAN
    BY DEF TypeOK
  <1>2. ASSUME NEW op, RunFunctor(op), pendingFunctors_' = Others
        PROVE  Moves(1, {})
    BY <1>1, <1>2, RunFunctorFacts, MovesPop DEF Others
  <1>3. StartBatch => Moves(0, {})
    BY <1>1, MovesNone DEF StartBatch
  <1>4. RunConnectEstablished => Moves(1, {})
    BY <1>2 DEF RunConnectEstablished
  <1>5. RunShutdownInLoop => Moves(1, {})
    BY <1>2 DEF RunShutdownInLoop
  <1>6. RunConnectDestroyed => Moves(1, {})
    BY <1>2 DEF RunConnectDestroyed
  <1>7. RunUserCallback => Moves(1, {})
    BY <1>2 DEF RunUserCallback
  <1>8. ASSUME RunForceCloseInLoop
        PROVE  \/ (~sameLoop \/ state_ \notin Open) /\ Moves(1, {})
               \/ (sameLoop /\ state_ \in Open) /\ Moves(1, {F("connectDestroyed")})
    <2>1. RunFunctor("forceCloseInLoop")
      BY <1>8 DEF RunForceCloseInLoop
    <2>2. CASE state_ \in Open
      <3>1. HandleClose(Others)
        BY <1>8, <2>2 DEF RunForceCloseInLoop, Open
      <3>2. CASE sameLoop
        <4>1. pendingFunctors_' = Append(Tail(pendingFunctors_), F("connectDestroyed"))
          BY <3>1, <3>2, CloseEffect DEF Others
        <4>2. F("connectDestroyed") \in Functor
          BY FType
        <4>3. Moves(1, {F("connectDestroyed")})
          BY <1>1, <2>1, <4>1, <4>2, RunFunctorFacts, MovesPopPush
        <4> QED
          BY <2>2, <3>2, <4>3
      <3>3. CASE ~sameLoop
        BY <1>2, <2>1, <3>1, <3>3, CloseEffect
      <3> QED
        BY <3>2, <3>3
    <2>3. CASE state_ \notin Open
      BY <1>2, <1>8, <2>1, <2>3 DEF RunForceCloseInLoop, Open
    <2> QED
      BY <2>2, <2>3
  <1>9. ASSUME RunSendInLoop
        PROVE  \E new \in SUBSET Callbacks : Moves(1, new)
    <2>1. /\ pendingFunctors_ /= <<>> /\ Head(pendingFunctors_) \in Functor
          /\ Others \in Seq(Functor)
      BY <1>9, RunFunctorFacts DEF RunSendInLoop
    <2> DEFINE f == Head(pendingFunctors_)
    <2>2. SendInLoop(Message(f.by, f.msg), Others)
      BY <1>9 DEF RunSendInLoop
    <2>3. f.by \in Senders /\ f.msg \in Nat
      BY <2>1 DEF Functor
    <2>4. Message(f.by, f.msg) \in Seq(Byte) /\ Message(f.by, f.msg) /= <<>>
      BY <2>3, MessageType, TcpConnectionAssumption
    <2>5. \/ pendingFunctors_' = Others
          \/ pendingFunctors_' = Append(Others, F("writeComplete"))
          \/ pendingFunctors_' = Append(Others, F("highWaterMark"))
      BY <2>1, <2>2, <2>4, SendEffect
    <2> QED
      BY <2>1, <2>5, SendMoves DEF Others
  <1> QED
    BY <1>3, <1>4, <1>5, <1>6, <1>7, <1>8, <1>9

(* What events and the loop's own calls queue.                                *)
LEMMA EventMoves ==
    ASSUME TypeOK
    PROVE  /\ PeerClose => \/ ~sameLoop /\ Moves(0, {})
                           \/ sameLoop /\ Moves(0, {F("connectDestroyed")})
           /\ HandleWrite => \E new \in SUBSET Callbacks : Moves(0, new)
           /\ LoopSend => \E new \in SUBSET Callbacks : Moves(0, new)
           /\ LoopShutdown => Moves(0, {})
           /\ LoopForceClose => Moves(0, {F("forceCloseInLoop")})
  <1>1. pendingFunctors_ \in Seq(Functor) /\ sameLoop \in BOOLEAN
    BY DEF TypeOK
  <1>2. ASSUME PeerClose
        PROVE  \/ ~sameLoop /\ Moves(0, {})
               \/ sameLoop /\ Moves(0, {F("connectDestroyed")})
    <2>1. HandleClose(pendingFunctors_)
      BY <1>2 DEF PeerClose
    <2>2. F("connectDestroyed") \in Functor
      BY FType
    <2>3. CASE sameLoop
      <3>1. pendingFunctors_' = Append(pendingFunctors_, F("connectDestroyed"))
        BY <2>1, <2>3, CloseEffect
      <3> QED
        BY <1>1, <2>2, <2>3, <3>1, MovesPush
    <2>4. CASE ~sameLoop
      <3>1. pendingFunctors_' = pendingFunctors_
        BY <2>1, <2>4, CloseEffect
      <3> QED
        BY <1>1, <2>4, <3>1, MovesNone
    <2> QED
      BY <2>3, <2>4
  <1>3. ASSUME HandleWrite
        PROVE  \E new \in SUBSET Callbacks : Moves(0, new)
    <2>1. \/ pendingFunctors_' = pendingFunctors_ \o <<F("writeComplete")>>
          \/ pendingFunctors_' = pendingFunctors_ \o <<>>
      BY <1>3 DEF HandleWrite, Queue
    <2>2. F("writeComplete") \in Functor
      BY FType
    <2>3. \/ pendingFunctors_' = Append(pendingFunctors_, F("writeComplete"))
          \/ pendingFunctors_' = pendingFunctors_
      BY <1>1, <2>1, <2>2, ConcatOne
    <2> QED
      BY <2>3, SendMoves
  <1>4. ASSUME LoopSend
        PROVE  \E new \in SUBSET Callbacks : Moves(0, new)
    <2> DEFINE data == Message(IO, sent[IO] + 1)
    <2>1. SendInLoop(data, pendingFunctors_)
      BY <1>4 DEF LoopSend
    <2>2. IO \in Senders /\ sent[IO] + 1 \in Nat
      BY DEF TypeOK, Senders
    <2>3. data \in Seq(Byte) /\ data /= <<>>
      BY <2>2, MessageType, TcpConnectionAssumption
    <2> HIDE DEF data
    <2>4. \/ pendingFunctors_' = pendingFunctors_
          \/ pendingFunctors_' = Append(pendingFunctors_, F("writeComplete"))
          \/ pendingFunctors_' = Append(pendingFunctors_, F("highWaterMark"))
      BY <1>1, <2>1, <2>3, SendEffect
    <2> QED
      BY <2>4, SendMoves
  <1>5. LoopShutdown => Moves(0, {})
    BY <1>1, MovesNone DEF LoopShutdown, queues
  <1>6. ASSUME LoopForceClose
        PROVE  Moves(0, {F("forceCloseInLoop")})
    <2>1. F("forceCloseInLoop") \in Functor
      BY FType
    <2>2. pendingFunctors_' = Append(pendingFunctors_, F("forceCloseInLoop"))
      BY <1>1, <1>6, <2>1, ConcatOne DEF LoopForceClose, Queue
    <2> QED
      BY <1>1, <2>1, <2>2, MovesPush
  <1> QED
    BY <1>2, <1>3, <1>4, <1>5, <1>6

(* The functors that application threads queue.                               *)
SendFunctor(u) == [op |-> "sendInLoop", by |-> u, msg |-> sent[u]]
CloseFunctor(u) ==
    [op |-> IF upc[u] = "shutdownQueue" THEN "shutdownInLoop" ELSE "forceCloseInLoop",
     by |-> u, msg |-> 0]

(* What application threads do to the queue.                                  *)
LEMMA UserMoves ==
    ASSUME TypeOK, NEW u \in Users
    PROVE  /\ BeginSend(u) \/ BeginShutdown(u) \/ BeginForceClose(u) \/ SetDisconnecting(u)
              \/ Release(u) => Moves(0, {})
           /\ QueueSend(u) => Moves(0, {SendFunctor(u)})
           /\ QueueClose(u) => Moves(0, {CloseFunctor(u)})
  <1>1. pendingFunctors_ \in Seq(Functor) /\ sent[u] \in Nat /\ u \in Senders
    BY DEF TypeOK, Senders
  <1>2. SendFunctor(u) \in Functor /\ CloseFunctor(u) \in Functor
    BY <1>1 DEF SendFunctor, CloseFunctor, Functor
  <1>3. BeginSend(u) \/ BeginShutdown(u) \/ BeginForceClose(u) \/ SetDisconnecting(u) \/ Release(u)
          => Moves(0, {})
    BY <1>1, MovesNone DEF BeginSend, BeginShutdown, BeginForceClose, SetDisconnecting, Release
  <1>4. QueueSend(u) => Moves(0, {SendFunctor(u)})
    BY <1>1, <1>2, MovesPush DEF QueueSend, SendFunctor
  <1>5. QueueClose(u) => Moves(0, {CloseFunctor(u)})
    BY <1>1, <1>2, MovesPush DEF QueueClose, CloseFunctor
  <1> QED
    BY <1>3, <1>4, <1>5

(* The queue and the batch keep their types when no functor is taken ...      *)
LEMMA BatchKept ==
    ASSUME TypeOK, NEW new, Moves(0, new), batch' = batch
    PROVE  pendingFunctors_' \in Seq(Functor) /\ batch' \in 0..Len(pendingFunctors_')
  <1>1. batch \in 0..Len(pendingFunctors_) /\ Len(pendingFunctors_) \in Nat
    BY DEF TypeOK
  <1> QED
    BY <1>1 DEF Moves

(* ... and when the one at the front of the batch is.                         *)
LEMMA BatchPop ==
    ASSUME TypeOK, NEW new, Moves(1, new), batch' = batch - 1, batch >= 1
    PROVE  pendingFunctors_' \in Seq(Functor) /\ batch' \in 0..Len(pendingFunctors_')
  <1>1. batch \in 0..Len(pendingFunctors_) /\ Len(pendingFunctors_) \in Nat
    BY DEF TypeOK
  <1> QED
    BY <1>1 DEF Moves

(* The type invariant without the queue: booleans, and the rest.             *)
BoolType ==
    /\ sameLoop \in BOOLEAN /\ reading \in BOOLEAN /\ writing \in BOOLEAN
    /\ registered \in BOOLEAN /\ batchHolds \in BOOLEAN /\ inMap \in BOOLEAN
    /\ serverAlive \in BOOLEAN /\ writeShut \in BOOLEAN

DataType ==
    /\ use \in Use /\ state_ \in States
    /\ removals \in Nat /\ downs \in Nat
    /\ holds \subseteq Users
    /\ upc \in [Users -> {"out", "send", "shutdown", "forceClose", "shutdownQueue",
                          "forceCloseQueue"}]
    /\ sent \in [Senders -> Nat] /\ closes \in [Senders -> Nat]
    /\ wire \in Seq(Byte) /\ outputBuffer_ \in Seq(Byte) /\ accepted \in Seq(Byte)

(* The parts make up the type invariant.                                      *)
LEMMA TypeParts ==
    /\ TypeOK <=> /\ BoolType /\ DataType
                  /\ pendingFunctors_ \in Seq(Functor) /\ batch \in 0..Len(pendingFunctors_)
    /\ TypeOK' <=> /\ BoolType' /\ DataType'
                   /\ pendingFunctors_' \in Seq(Functor) /\ batch' \in 0..Len(pendingFunctors_')
  BY Zenon DEF TypeOK, BoolType, DataType

(* The base loop's steps keep the types.                                      *)
LEMMA TypeBase ==
    ASSUME TypeOK, BaseStep
    PROVE  TypeOK'
  <1>1. BoolType /\ DataType
    BY TypeParts
  <1>2. CASE NewConnection
    <2>1. BoolType'
      BY <1>1, <1>2 DEF NewConnection, BoolType, ConnectEstablished, queues, Queue, config, socket
    <2>2. DataType'
      BY <1>1, <1>2 DEF NewConnection, DataType, ConnectEstablished, config, socket, States
    <2>3. batch' = batch
      BY <1>2 DEF NewConnection, queues, Queue
    <2> QED
      BY <1>2, <2>1, <2>2, <2>3, BaseMoves, BatchKept, TypeParts
  <1>3. CASE RemoveConnectionInLoop
    <2>1. BoolType'
      BY <1>1, <1>3 DEF RemoveConnectionInLoop, BoolType, Queue, config, socket
    <2>2. DataType'
      BY <1>1, <1>3 DEF RemoveConnectionInLoop, DataType, config, socket, users
    <2>3. batch' = batch
      BY <1>3 DEF RemoveConnectionInLoop, Queue
    <2> QED
      BY <1>3, <2>1, <2>2, <2>3, BaseMoves, BatchKept, TypeParts
  <1>4. CASE DestroyServer
    <2>1. BoolType'
      BY <1>1, <1>4 DEF DestroyServer, ConnectDestroyed, BoolType, queues, Queue, config, socket
    <2>2. DataType'
      BY <1>1, <1>4 DEF DestroyServer, ConnectDestroyed, DataType, config, socket, users, States
    <2>3. batch' = batch
      BY <1>4 DEF DestroyServer, Queue, queues
    <2> QED
      BY <1>4, <2>1, <2>2, <2>3, BaseMoves, BatchKept, TypeParts
  <1> QED
    BY <1>2, <1>3, <1>4 DEF BaseStep

(* The functors keep the types.                                               *)
LEMMA TypeFunctor ==
    ASSUME TypeOK, FunctorStep
    PROVE  TypeOK'
  <1>1. BoolType /\ DataType
    BY TypeParts
  <1>2. CASE StartBatch
    <2>1. BoolType'
      BY <1>1, <1>2 DEF StartBatch, BoolType, config, socket, owners
    <2>2. DataType'
      BY <1>1, <1>2 DEF StartBatch, DataType, config, socket, owners, users
    <2>3. pendingFunctors_' = pendingFunctors_ /\ batch' = Len(pendingFunctors_)
          /\ pendingFunctors_ \in Seq(Functor)
      BY <1>2, TypeParts DEF StartBatch
    <2>4. batch' \in 0..Len(pendingFunctors_')
      BY <2>3
    <2> QED
      BY <2>1, <2>2, <2>3, <2>4, TypeParts
  <1>3. CASE RunConnectEstablished
    <2>1. BoolType'
      BY <1>1, <1>3 DEF RunConnectEstablished, ConnectEstablished, RunFunctor, BoolType, config, socket, owners
    <2>2. DataType'
      BY <1>1, <1>3 DEF RunConnectEstablished, ConnectEstablished, RunFunctor, DataType, config, socket,
                        owners, States
    <2>3. batch' = batch - 1 /\ batch >= 1
      BY <1>3, RunFunctorFacts DEF RunConnectEstablished
    <2> QED
      BY <1>3, <2>1, <2>2, <2>3, FunctorMoves, BatchPop, TypeParts
  <1>4. CASE RunSendInLoop
    <2>1. RunFunctor("sendInLoop")
      BY <1>4 DEF RunSendInLoop
    <2> DEFINE f == Head(pendingFunctors_)
               data == Message(f.by, f.msg)
    <2>2. SendInLoop(data, Others) /\ UNCHANGED <<removals, inMap, serverAlive, holds, upc, sent, closes>>
      BY <1>4 DEF RunSendInLoop, owners, users
    <2>3. f.by \in Senders /\ f.msg \in Nat
      BY <2>1, RunFunctorFacts DEF Functor
    <2>4. data \in Seq(Byte) /\ data /= <<>>
      BY <2>3, MessageType, TcpConnectionAssumption
    <2>5. batch' = batch - 1 /\ batch >= 1 /\ batchHolds' \in BOOLEAN /\ UNCHANGED <<use, sameLoop>>
          /\ Others \in Seq(Functor)
      BY <2>1, RunFunctorFacts
    <2> HIDE DEF f, data
    <2>6. /\ UNCHANGED <<state_, reading, registered, downs, writeShut>>
          /\ wire' \in Seq(Byte) /\ outputBuffer_' \in Seq(Byte) /\ writing' \in BOOLEAN
          /\ accepted' = accepted \/ accepted' = accepted \o data
      BY <2>2, <2>4, <2>5, SendEffect
    <2>7. BoolType'
      BY <1>1, <2>2, <2>5, <2>6 DEF BoolType
    <2>8. accepted' \in Seq(Byte)
      <3>1. accepted \in Seq(Byte)
        BY <1>1 DEF DataType
      <3>2. accepted \o data \in Seq(Byte)
        BY <2>4, <3>1
      <3> QED
        BY <2>6, <3>1, <3>2, Zenon
    <2>9. DataType'
      BY <1>1, <2>2, <2>5, <2>6, <2>8 DEF DataType
    <2> QED
      BY <1>4, <2>5, <2>7, <2>9, FunctorMoves, BatchPop, TypeParts
  <1>5. CASE RunShutdownInLoop
    <2>1. BoolType'
      BY <1>1, <1>5 DEF RunShutdownInLoop, ShutdownInLoop, RunFunctor, BoolType, config, owners
    <2>2. DataType'
      BY <1>1, <1>5 DEF RunShutdownInLoop, RunFunctor, DataType, config, owners, users
    <2>3. batch' = batch - 1 /\ batch >= 1
      BY <1>5, RunFunctorFacts DEF RunShutdownInLoop
    <2> QED
      BY <1>5, <2>1, <2>2, <2>3, FunctorMoves, BatchPop, TypeParts
  <1>6. CASE RunForceCloseInLoop
    <2>1. batch' = batch - 1 /\ batch >= 1 /\ batchHolds' \in BOOLEAN /\ UNCHANGED <<use, sameLoop>>
      BY <1>6, RunFunctorFacts DEF RunForceCloseInLoop
    <2>2. CASE HandleClose(Others)
      <3>1. BoolType'
        BY <1>1, <2>1, <2>2, CloseEffect DEF BoolType
      <3>2. DataType'
        <4>1. /\ state_' = "kDisconnected" /\ downs' = downs + 1
              /\ removals' = removals \/ removals' = removals + 1
              /\ UNCHANGED <<use, holds, upc, sent, closes, wire, outputBuffer_, accepted>>
          BY <2>1, <2>2, CloseEffect
        <4> QED
          BY <1>1, <4>1 DEF DataType, States
      <3> QED
        BY <1>6, <2>1, <3>1, <3>2, FunctorMoves, BatchPop, TypeParts
    <2>3. CASE UNCHANGED <<state_, reading, writing, registered, socket, owners, users, downs, faults>>
      <3>1. BoolType'
        BY <1>1, <2>1, <2>3 DEF BoolType, socket, owners
      <3>2. DataType'
        BY <1>1, <2>1, <2>3 DEF DataType, socket, owners, users
      <3> QED
        BY <1>6, <2>1, <3>1, <3>2, FunctorMoves, BatchPop, TypeParts
    <2> QED
      BY <1>6, <2>2, <2>3 DEF RunForceCloseInLoop
  <1>7. CASE RunConnectDestroyed
    <2>1. BoolType'
      BY <1>1, <1>7 DEF RunConnectDestroyed, ConnectDestroyed, RunFunctor, BoolType, config, socket, owners
    <2>2. DataType'
      BY <1>1, <1>7 DEF RunConnectDestroyed, ConnectDestroyed, RunFunctor, DataType, config, socket,
                        owners, users, States
    <2>3. batch' = batch - 1 /\ batch >= 1
      BY <1>7, RunFunctorFacts DEF RunConnectDestroyed
    <2> QED
      BY <1>7, <2>1, <2>2, <2>3, FunctorMoves, BatchPop, TypeParts
  <1>8. CASE RunUserCallback
    <2>1. BoolType'
      BY <1>1, <1>8 DEF RunUserCallback, RunFunctor, BoolType, config, socket, owners
    <2>2. DataType'
      BY <1>1, <1>8 DEF RunUserCallback, RunFunctor, DataType, config, socket, owners, users
    <2>3. batch' = batch - 1 /\ batch >= 1
      BY <1>8, RunFunctorFacts DEF RunUserCallback
    <2> QED
      BY <1>8, <2>1, <2>2, <2>3, FunctorMoves, BatchPop, TypeParts
  <1> QED
    BY <1>2, <1>3, <1>4, <1>5, <1>6, <1>7, <1>8 DEF FunctorStep

(* What handleWrite() does: bytes move from the front of outputBuffer_ to the *)
(* wire, and when none is left interest in writing ends and writeComplete is  *)
(* queued.                                                                    *)
LEMMA WriteEffect ==
    ASSUME TypeOK, HandleWrite
    PROVE  /\ UNCHANGED <<use, sameLoop, state_, reading, registered, accepted, batch, batchHolds,
                          removals, inMap, serverAlive, holds, upc, sent, closes, downs, faults>>
           /\ faults = {} /\ registered /\ writing
           /\ wire' \in Seq(Byte) /\ outputBuffer_' \in Seq(Byte)
           /\ wire' \o outputBuffer_' = wire \o outputBuffer_
           /\ Len(outputBuffer_') < Len(outputBuffer_)
           /\ writing' \in BOOLEAN /\ writeShut' \in BOOLEAN
           /\ writing' <=> outputBuffer_' /= <<>>
           /\ writeShut' => outputBuffer_' = <<>>
           /\ outputBuffer_' = <<>> => pendingFunctors_' = Append(pendingFunctors_, F("writeComplete"))
  <1>1. PICK n \in 1..Len(outputBuffer_) :
         /\ wire' = wire \o SubSeq(outputBuffer_, 1, n)
         /\ outputBuffer_' = SubSeq(outputBuffer_, n + 1, Len(outputBuffer_))
         /\ writing' = (n < Len(outputBuffer_))
         /\ writeShut' = (n = Len(outputBuffer_) /\ state_ = "kDisconnecting")
         /\ Queue(IF n = Len(outputBuffer_) THEN <<F("writeComplete")>> ELSE <<>>)
    BY DEF HandleWrite, Takes
  <1>2. wire \in Seq(Byte) /\ outputBuffer_ \in Seq(Byte) /\ pendingFunctors_ \in Seq(Functor)
    BY DEF TypeOK
  <1> DEFINE a == SubSeq(outputBuffer_, 1, n)
             b == SubSeq(outputBuffer_, n + 1, Len(outputBuffer_))
             m == Len(outputBuffer_)
  <1>3. n \in 0..Len(outputBuffer_) /\ n >= 1 /\ n \in Nat /\ m \in Nat /\ n <= m
    BY <1>2
  <1>4. /\ a \in Seq(Byte) /\ b \in Seq(Byte) /\ Len(b) = m - n /\ a \o b = outputBuffer_
        /\ n = m => b = <<>>
    BY <1>2, <1>3, Split
  <1>5. /\ wire' = wire \o a /\ outputBuffer_' = b /\ writing' = (n < m)
        /\ writeShut' = (n = m /\ state_ = "kDisconnecting")
        /\ n = m => pendingFunctors_' = pendingFunctors_ \o <<F("writeComplete")>>
    BY <1>1 DEF Queue
  <1> HIDE DEF a, b, m
  <1>6. wire' \in Seq(Byte) /\ outputBuffer_' \in Seq(Byte)
    <2>1. wire \o a \in Seq(Byte)
      BY <1>2, <1>4
    <2> QED
      BY <1>4, <1>5, <2>1
  <1>7. wire' \o outputBuffer_' = wire \o outputBuffer_
    <2>1. \A x, y, z \in Seq(Byte) : (x \o y) \o z = x \o (y \o z)
      BY Assoc
    <2>2. (wire \o a) \o b = wire \o (a \o b)
      BY <1>2, <1>4, <2>1
    <2> QED
      BY <1>4, <1>5, <2>2
  <1>8. Len(outputBuffer_') < Len(outputBuffer_)
    <2>1. Len(b) < m
      BY <1>3, <1>4
    <2> QED
      BY <1>5, <2>1 DEF m
  <1>9. n = m <=> b = <<>>
    <2>1. b = <<>> => Len(b) = 0
      OBVIOUS
    <2> QED
      BY <1>3, <1>4, <2>1
  <1>10. /\ writing' \in BOOLEAN /\ writeShut' \in BOOLEAN
         /\ writing' <=> outputBuffer_' /= <<>>
         /\ writeShut' => outputBuffer_' = <<>>
    <2>1. (n < m) <=> (n /= m)
      BY <1>3
    <2>2. (n < m) \in BOOLEAN /\ (n = m /\ state_ = "kDisconnecting") \in BOOLEAN
      BY <1>3
    <2> QED
      BY <1>5, <1>9, <2>1, <2>2, Zenon
  <1>11. outputBuffer_' = <<>> => pendingFunctors_' = Append(pendingFunctors_, F("writeComplete"))
    <2>1. F("writeComplete") \in Functor
      BY FType
    <2> QED
      BY <1>2, <1>5, <1>9, <2>1, ConcatOne
  <1>12. /\ UNCHANGED <<use, sameLoop, state_, reading, registered, accepted, batch, batchHolds,
                        removals, inMap, serverAlive, holds, upc, sent, closes, downs, faults>>
         /\ faults = {} /\ registered /\ writing
    <2>1. UNCHANGED <<batch, batchHolds>>
      BY <1>1 DEF Queue
    <2>2. /\ UNCHANGED <<use, sameLoop, state_, reading, registered, accepted, removals, inMap,
                         serverAlive, holds, upc, sent, closes, downs, faults>>
          /\ faults = {} /\ registered /\ writing
      BY DEF HandleWrite, Running, config, owners, users
    <2> QED
      BY <2>1, <2>2
  <1> QED
    BY <1>6, <1>7, <1>8, <1>10, <1>11, <1>12

(* A message of the loop itself.                                              *)
LEMMA LoopSendFacts ==
    ASSUME TypeOK, LoopSend
    PROVE  /\ sent' = [sent EXCEPT ![IO] = sent[IO] + 1] /\ sent[IO] \in Nat
           /\ UNCHANGED <<use, sameLoop, batch, batchHolds, removals, inMap, serverAlive, holds, upc,
                          closes, state_, reading, registered, downs, writeShut>>
           /\ state_ = "kConnected" /\ faults = {}
           /\ faults' = EnableFault
           /\ wire' \in Seq(Byte) /\ outputBuffer_' \in Seq(Byte) /\ writing' \in BOOLEAN
           /\ \/ UNCHANGED <<wire, outputBuffer_, accepted, writing>>
              \/ /\ accepted' = accepted \o Message(IO, sent[IO] + 1)
                 /\ wire' \o outputBuffer_' = (wire \o outputBuffer_) \o Message(IO, sent[IO] + 1)
                 /\ writing' \/ (outputBuffer_' = <<>> /\ writing' = writing)
  <1> DEFINE data == Message(IO, sent[IO] + 1)
  <1>1. SendInLoop(data, pendingFunctors_) /\ pendingFunctors_ \in Seq(Functor)
    BY DEF LoopSend, TypeOK
  <1>2. IO \in Senders /\ sent[IO] \in Nat /\ sent[IO] + 1 \in Nat
    BY DEF TypeOK, Senders
  <1>3. data \in Seq(Byte) /\ data /= <<>>
    BY <1>2, MessageType, TcpConnectionAssumption
  <1>4. /\ sent' = [sent EXCEPT ![IO] = sent[IO] + 1]
        /\ UNCHANGED <<use, sameLoop, batch, batchHolds, removals, inMap, serverAlive, holds, upc, closes>>
        /\ state_ = "kConnected" /\ faults = {} /\ faults' = EnableFault
    BY DEF LoopSend, config, owners, Running
  <1> HIDE DEF data
  <1>5. /\ UNCHANGED <<state_, reading, registered, downs, writeShut>>
        /\ wire' \in Seq(Byte) /\ outputBuffer_' \in Seq(Byte) /\ writing' \in BOOLEAN
        /\ \/ UNCHANGED <<wire, outputBuffer_, accepted, writing>>
           \/ /\ accepted' = accepted \o data
              /\ wire' \o outputBuffer_' = (wire \o outputBuffer_) \o data
              /\ writing' \/ (outputBuffer_' = <<>> /\ writing' = writing)
    BY <1>1, <1>3, SendEffect
  <1> QED
    BY <1>2, <1>4, <1>5 DEF data

(* Counting one more.                                                         *)
LEMMA Bump ==
    ASSUME NEW S, NEW f \in [S -> Nat], NEW x \in S
    PROVE  [f EXCEPT ![x] = f[x] + 1] \in [S -> Nat]
  OBVIOUS

(* Events and the loop's own calls keep the types.                            *)
LEMMA TypeEvent ==
    ASSUME TypeOK, EventStep
    PROVE  TypeOK'
  <1>1. BoolType /\ DataType
    BY TypeParts
  <1>2. CASE PeerClose
    <2>1. HandleClose(pendingFunctors_) /\ UNCHANGED <<use, sameLoop, batch, batchHolds>>
      BY <1>2 DEF PeerClose, config
    <2>2. BoolType'
      BY <1>1, <2>1, CloseEffect DEF BoolType
    <2>3. /\ state_' = "kDisconnected" /\ downs' = downs + 1
          /\ removals' = removals \/ removals' = removals + 1
          /\ UNCHANGED <<use, holds, upc, sent, closes, wire, outputBuffer_, accepted>>
      BY <2>1, CloseEffect
    <2>4. DataType'
      BY <1>1, <2>3 DEF DataType, States
    <2> QED
      BY <1>2, <2>1, <2>2, <2>4, EventMoves, BatchKept, TypeParts
  <1>3. CASE HandleWrite
    <2>1. BoolType'
      BY <1>1, <1>3, WriteEffect DEF BoolType
    <2>2. DataType'
      BY <1>1, <1>3, WriteEffect DEF DataType
    <2>3. batch' = batch
      BY <1>3, WriteEffect
    <2> QED
      BY <1>3, <2>1, <2>2, <2>3, EventMoves, BatchKept, TypeParts
  <1>4. CASE LoopSend
    <2>1. BoolType'
      BY <1>1, <1>4, LoopSendFacts DEF BoolType
    <2>2. /\ sent' = [sent EXCEPT ![IO] = sent[IO] + 1] /\ sent[IO] \in Nat
          /\ UNCHANGED <<use, removals, holds, upc, closes, state_, downs>>
          /\ wire' \in Seq(Byte) /\ outputBuffer_' \in Seq(Byte)
          /\ accepted' = accepted \/ accepted' = accepted \o Message(IO, sent[IO] + 1)
      BY <1>4, LoopSendFacts
    <2>3. sent' \in [Senders -> Nat]
      <3>1. sent \in [Senders -> Nat] /\ IO \in Senders
        BY <1>1 DEF DataType, Senders
      <3> QED
        BY <2>2, <3>1, Bump, Zenon
    <2>4. accepted \o Message(IO, sent[IO] + 1) \in Seq(Byte)
      <3>1. IO \in Senders /\ sent[IO] + 1 \in Nat /\ accepted \in Seq(Byte)
        BY <1>1, <2>2 DEF Senders, DataType
      <3>2. Message(IO, sent[IO] + 1) \in Seq(Byte)
        BY <3>1, MessageType
      <3> QED
        BY <3>1, <3>2
    <2>5. DataType'
      <3>1. accepted' \in Seq(Byte)
        BY <1>1, <2>2, <2>4, Zenon DEF DataType
      <3>2. UNCHANGED <<use, removals, holds, upc, closes, state_, downs>>
            /\ wire' \in Seq(Byte) /\ outputBuffer_' \in Seq(Byte)
        BY <2>2
      <3> QED
        BY <1>1, <2>3, <3>1, <3>2 DEF DataType
    <2>6. batch' = batch
      BY <1>4, LoopSendFacts
    <2> QED
      BY <1>4, <2>1, <2>5, <2>6, EventMoves, BatchKept, TypeParts
  <1>5. CASE LoopShutdown
    <2>1. BoolType'
      BY <1>1, <1>5 DEF LoopShutdown, ShutdownInLoop, BoolType, config, queues, owners
    <2>2. DataType'
      BY <1>1, <1>5 DEF LoopShutdown, DataType, config, owners, users, States
    <2>3. batch' = batch
      BY <1>5 DEF LoopShutdown, queues
    <2> QED
      BY <1>5, <2>1, <2>2, <2>3, EventMoves, BatchKept, TypeParts
  <1>6. CASE LoopForceClose
    <2>1. BoolType'
      BY <1>1, <1>6 DEF LoopForceClose, BoolType, config, Queue, owners, socket
    <2>2. DataType'
      <3>1. /\ closes' = [closes EXCEPT ![IO] = closes[IO] + 1] /\ state_' = "kDisconnecting"
            /\ UNCHANGED <<use, removals, downs, holds, upc, sent, wire, outputBuffer_, accepted>>
        BY <1>6 DEF LoopForceClose, config, owners, socket
      <3>2. closes' \in [Senders -> Nat]
        <4>1. closes \in [Senders -> Nat] /\ IO \in Senders
          BY <1>1 DEF DataType, Senders
        <4> QED
          BY <3>1, <4>1, Bump, Zenon
      <3> QED
        BY <1>1, <3>1, <3>2 DEF DataType, States
    <2>3. batch' = batch
      BY <1>6 DEF LoopForceClose, Queue
    <2> QED
      BY <1>6, <2>1, <2>2, <2>3, EventMoves, BatchKept, TypeParts
  <1> QED
    BY <1>2, <1>3, <1>4, <1>5, <1>6 DEF EventStep

(* Application threads keep the types.                                        *)
LEMMA TypeUser ==
    ASSUME TypeOK, NEW u \in Users, UserNext(u)
    PROVE  TypeOK'
  <1>1. BoolType /\ DataType
    BY TypeParts
  <1>2. UserStep
    BY DEF UserNext, BeginSend, QueueSend, BeginShutdown, BeginForceClose, SetDisconnecting,
           QueueClose, Release
  <1>3. BoolType' /\ batch' = batch /\ UNCHANGED <<use, removals, downs, wire, outputBuffer_, accepted>>
    BY <1>1, <1>2 DEF UserStep, BoolType, config, socket, owners
  <1>4. u \in Senders
    BY DEF Senders
  <1>5. DataType'
    <2>1. state_' \in States /\ holds' \subseteq Users
      BY <1>1 DEF DataType, States, UserNext, BeginSend, QueueSend, BeginShutdown, BeginForceClose,
             SetDisconnecting, QueueClose, Release
    <2>2. sent' = sent \/ sent' = [sent EXCEPT ![u] = sent[u] + 1]
      BY DEF UserNext, BeginSend, QueueSend, BeginShutdown, BeginForceClose, SetDisconnecting,
             QueueClose, Release
    <2>3. closes' = closes \/ closes' = [closes EXCEPT ![u] = closes[u] + 1]
      BY DEF UserNext, BeginSend, QueueSend, BeginShutdown, BeginForceClose, SetDisconnecting,
             QueueClose, Release
    <2>4. sent' \in [Senders -> Nat] /\ closes' \in [Senders -> Nat]
      <3>1. sent \in [Senders -> Nat] /\ closes \in [Senders -> Nat]
        BY <1>1 DEF DataType
      <3>2. /\ [sent EXCEPT ![u] = sent[u] + 1] \in [Senders -> Nat]
            /\ [closes EXCEPT ![u] = closes[u] + 1] \in [Senders -> Nat]
        BY <1>4, <3>1, Bump, Zenon
      <3> QED
        BY <2>2, <2>3, <3>1, <3>2
    <2>5. upc' = upc \/ \E pc \in {"out", "send", "shutdown", "forceClose", "shutdownQueue",
                                   "forceCloseQueue"} : upc' = [upc EXCEPT ![u] = pc]
      BY DEF UserNext, BeginSend, QueueSend, BeginShutdown, BeginForceClose, SetDisconnecting,
             QueueClose, Release
    <2>6. upc' \in [Users -> {"out", "send", "shutdown", "forceClose", "shutdownQueue",
                              "forceCloseQueue"}]
      BY <1>1, <2>5 DEF DataType
    <2> QED
      BY <1>1, <1>3, <2>1, <2>4, <2>6 DEF DataType
  <1>6. pendingFunctors_' \in Seq(Functor) /\ batch' \in 0..Len(pendingFunctors_')
    BY <1>3, UserMoves, BatchKept DEF UserNext
  <1> QED
    BY <1>3, <1>5, <1>6, TypeParts

(* A step that changes nothing.                                               *)
LEMMA TypeStutter ==
    ASSUME TypeOK, UNCHANGED vars
    PROVE  TypeOK'
  <1>1. BoolType' /\ DataType'
    BY TypeParts DEF vars, BoolType, DataType
  <1>2. pendingFunctors_' = pendingFunctors_ /\ batch' = batch
    BY DEF vars
  <1> QED
    BY <1>1, <1>2, TypeParts

(* Every step keeps the types.                                                *)
LEMMA TypeStep ==
    ASSUME TypeOK, [Next]_vars
    PROVE  TypeOK'
  BY TypeBase, TypeFunctor, TypeEvent, TypeUser, TypeStutter DEF Next, Terminated, Aborted

(* The types hold initially.                                                  *)
LEMMA TypeInit == Init => TypeOK
  <1> SUFFICES ASSUME Init PROVE TypeOK
    OBVIOUS
  <1>1. BoolType
    BY DEF Init, BoolType
  <1>2. DataType
    BY TcpConnectionAssumption DEF Init, DataType, States
  <1>3. pendingFunctors_ = <<>> /\ batch = 0
    BY DEF Init
  <1>4. pendingFunctors_ \in Seq(Functor) /\ batch \in 0..Len(pendingFunctors_)
    BY <1>3
  <1> QED
    BY <1>1, <1>2, <1>4, TypeParts

(* Every variable keeps its type, for any threads, uses and lengths.          *)
THEOREM TypeCorrect == Spec => []TypeOK
  BY TypeInit, TypeStep, PTL DEF Spec

-----------------------------------------------------------------------------
(* The life of the connection in any use. *)

(* A step that queues no connectEstablished() keeps what is said of the       *)
(* queue.                                                                     *)
LEMMA LifeQueue ==
    ASSUME TypeOK, EstablishedFirst, FreshQueue, NEW d, NEW new, Moves(d, new),
           \A f \in new : f.op /= "connectEstablished",
           state_' = "kConnecting" =>
             state_ = "kConnecting" /\ \A f \in new : f.op = "connectDestroyed",
           d = 1 \/ (state_ = "kConnecting" => state_' = "kConnecting")
    PROVE  EstablishedFirst' /\ FreshQueue'
  <1> DEFINE q == pendingFunctors_
             m == Len(pendingFunctors_)
             k == Len(pendingFunctors_')
  <1>1. m \in Nat /\ k \in Nat /\ d \in {0, 1} /\ d <= m
    BY DEF TypeOK, Moves
  <1>2. \A i \in 1..k : \/ i \in 1..(m - d) /\ i + d \in 1..m /\ q'[i] = q[i + d]
                        \/ q'[i] \in new
    <2> TAKE i \in 1..k
    <2>1. CASE new = {}
      <3>1. k = m - d /\ \A j \in 1..(m - d) : q'[j] = q[j + d]
        BY <2>1 DEF Moves
      <3> QED
        BY <1>1, <3>1
    <2>2. CASE new /= {}
      <3>1. k = m - d + 1 /\ (\A j \in 1..(m - d) : q'[j] = q[j + d]) /\ q'[k] \in new
        BY <2>2 DEF Moves
      <3> QED
        BY <1>1, <3>1
    <2> QED
      BY <2>1, <2>2
  <1> HIDE DEF q, m, k
  <1>3. \A i \in 1..m : q[i].op = "connectEstablished" => i = 1 /\ state_ = "kConnecting"
    BY DEF EstablishedFirst, q, m
  <1>4. EstablishedFirst'
    <2> SUFFICES ASSUME NEW i \in 1..k, q'[i].op = "connectEstablished"
                 PROVE  i = 1 /\ state_' = "kConnecting"
      BY DEF EstablishedFirst, q, k
    <2>1. i \in 1..(m - d) /\ i + d \in 1..m /\ q[i + d].op = "connectEstablished"
      BY <1>2
    <2>2. i + d = 1 /\ state_ = "kConnecting"
      BY <1>3, <2>1
    <2>3. i = 1 /\ d = 0
      BY <1>1, <2>1, <2>2
    <2> QED
      BY <2>2, <2>3
  <1>5. FreshQueue'
    <2> SUFFICES ASSUME state_' = "kConnecting", NEW i \in 1..k
                 PROVE  q'[i].op \in {"connectEstablished", "connectDestroyed"}
      BY DEF FreshQueue, q, k
    <2>1. \A j \in 1..m : q[j].op \in {"connectEstablished", "connectDestroyed"}
      BY DEF FreshQueue, q, m
    <2> QED
      BY <1>2, <2>1
  <1> QED
    BY <1>4, <1>5

(* The base loop's steps keep the life invariant.                             *)
LEMMA LifeBase ==
    ASSUME TypeOK, LifeInv, BaseStep
    PROVE  LifeInv'
  <1> USE DEF LifeInv, LifeRest
  <1>1. CASE NewConnection
    <2>1. state_ = "kConnecting" /\ pendingFunctors_ = <<>> /\ sameLoop \in BOOLEAN
          /\ UNCHANGED <<outputBuffer_, upc>> /\ faults = {}
      BY <1>1 DEF NewConnection, socket, TypeOK, Running
    <2>2. CASE sameLoop
      <3>1. /\ ConnectEstablished /\ pendingFunctors_' = pendingFunctors_
        BY <1>1, <2>2 DEF NewConnection, queues
      <3>2. LifeRest'
        BY <2>1, <3>1 DEF ConnectEstablished, Fault, NobodyHas, InterestOpen, BytesWatched, NoStateFault, Open
      <3>3. EstablishedFirst' /\ FreshQueue'
        BY <2>1, <3>1 DEF EstablishedFirst, FreshQueue
      <3> QED
        BY <3>2, <3>3
    <2>3. CASE ~sameLoop
      <3>1. UNCHANGED <<state_, reading, writing, holds, faults>>
        BY <1>1, <2>3 DEF NewConnection
      <3>2. LifeRest'
        BY <2>1, <3>1 DEF NobodyHas, InterestOpen, BytesWatched, NoStateFault
      <3>3. Moves(0, {F("connectEstablished")})
        BY <1>1, <2>3, BaseMoves
      <3>4. Len(pendingFunctors_') = 1 /\ pendingFunctors_'[1].op = "connectEstablished"
        BY <2>1, <3>3, FType DEF Moves
      <3>5. EstablishedFirst' /\ FreshQueue'
        BY <2>1, <3>1, <3>4 DEF EstablishedFirst, FreshQueue
      <3> QED
        BY <3>2, <3>5
    <2> QED
      BY <2>1, <2>2, <2>3
  <1>2. CASE RemoveConnectionInLoop
    <2>1. /\ UNCHANGED <<state_, reading, writing, outputBuffer_, holds, upc>>
          /\ faults' \subseteq {"freedServer", "erase"}
      BY <1>2 DEF RemoveConnectionInLoop, socket, users, EraseFault, Fault
    <2>2. LifeRest'
      BY <2>1 DEF NobodyHas, InterestOpen, BytesWatched, NoStateFault
    <2>3. Moves(0, {F("connectDestroyed")}) /\ F("connectDestroyed").op = "connectDestroyed"
      BY <1>2, BaseMoves, FType
    <2>4. EstablishedFirst' /\ FreshQueue'
      BY <2>1, <2>3, LifeQueue
    <2> QED
      BY <2>2, <2>4
  <1>3. CASE DestroyServer
    <2>1. /\ UNCHANGED <<outputBuffer_, holds, upc>> /\ faults = {}
          /\ \/ UNCHANGED <<state_, reading, writing, faults>>
             \/ ConnectDestroyed
      BY <1>3 DEF DestroyServer, socket, users, Running
    <2>2. \/ UNCHANGED <<state_, reading, writing>>
          \/ state_ = "kConnected" /\ state_' = "kDisconnected" /\ reading' = FALSE /\ writing' = FALSE
      BY <2>1 DEF ConnectDestroyed
    <2>3. faults' \subseteq {"events", "poller"}
      BY <2>1 DEF ConnectDestroyed, Fault
    <2>4. LifeRest'
      BY <2>1, <2>2, <2>3 DEF NobodyHas, InterestOpen, BytesWatched, NoStateFault
    <2>5. F("connectDestroyed").op = "connectDestroyed"
      BY FType
    <2>6. Moves(0, {}) \/ Moves(0, {F("connectDestroyed")})
      BY <1>3, BaseMoves
    <2>7. EstablishedFirst' /\ FreshQueue'
      BY <2>2, <2>5, <2>6, LifeQueue
    <2> QED
      BY <2>4, <2>7
  <1> QED
    BY <1>1, <1>2, <1>3 DEF BaseStep

(* A queued message, taken from the front of the queue.                       *)
LEMMA RunSendFacts ==
    ASSUME TypeOK, RunSendInLoop
    PROVE  LET f == pendingFunctors_[1] IN
           /\ f \in Functor /\ f.op = "sendInLoop" /\ Len(pendingFunctors_) >= 1
           /\ UNCHANGED <<use, sameLoop, removals, inMap, serverAlive, holds, upc, sent,
                          closes, state_, reading, registered, downs, writeShut>>
           /\ faults = {} /\ faults' = FreedFault \cup EnableFault
           /\ wire' \in Seq(Byte) /\ outputBuffer_' \in Seq(Byte) /\ writing' \in BOOLEAN
           /\ \/ UNCHANGED <<wire, outputBuffer_, accepted, writing>>
              \/ /\ state_ /= "kDisconnected"
                 /\ accepted' = accepted \o Message(f.by, f.msg)
                 /\ wire' \o outputBuffer_' = (wire \o outputBuffer_) \o Message(f.by, f.msg)
                 /\ writing' \/ (outputBuffer_' = <<>> /\ writing' = writing)
  <1> DEFINE f == pendingFunctors_[1]
             data == Message(f.by, f.msg)
  <1>1. RunFunctor("sendInLoop")
    BY DEF RunSendInLoop
  <1>2. /\ f \in Functor /\ f.op = "sendInLoop" /\ f = Head(pendingFunctors_) /\ Others \in Seq(Functor)
        /\ Len(pendingFunctors_) >= 1 /\ UNCHANGED <<use, sameLoop>> /\ faults = {}
    BY <1>1, RunFunctorFacts
  <1>3. SendInLoop(data, Others) /\ UNCHANGED <<removals, inMap, serverAlive, holds, upc, sent, closes>>
        /\ faults' = FreedFault \cup EnableFault
    BY <1>2 DEF RunSendInLoop, owners, users
  <1>4. f.by \in Senders /\ f.msg \in Nat
    BY <1>2 DEF Functor
  <1>5. data \in Seq(Byte) /\ data /= <<>>
    BY <1>4, MessageType, TcpConnectionAssumption
  <1> HIDE DEF f, data
  <1>6. /\ UNCHANGED <<state_, reading, registered, downs, writeShut>>
        /\ wire' \in Seq(Byte) /\ outputBuffer_' \in Seq(Byte) /\ writing' \in BOOLEAN
        /\ \/ UNCHANGED <<wire, outputBuffer_, accepted, writing>>
           \/ /\ state_ /= "kDisconnected"
              /\ accepted' = accepted \o data
              /\ wire' \o outputBuffer_' = (wire \o outputBuffer_) \o data
              /\ writing' \/ (outputBuffer_' = <<>> /\ writing' = writing)
    BY <1>2, <1>3, <1>5, SendEffect
  <1> QED
    BY <1>2, <1>3, <1>6 DEF f, data

(* The functors keep the life invariant.                                      *)
LEMMA LifeFunctor ==
    ASSUME TypeOK, LifeInv, FunctorStep
    PROVE  LifeInv'
  <1> USE DEF LifeInv, LifeRest
  <1>1. CASE StartBatch
    BY <1>1 DEF StartBatch, socket, users, EstablishedFirst, FreshQueue, NobodyHas, InterestOpen,
                BytesWatched, NoStateFault
  <1>2. CASE RunConnectEstablished
    <2>1. /\ ConnectEstablished /\ UNCHANGED <<outputBuffer_, upc>>
          /\ pendingFunctors_[1].op = "connectEstablished" /\ 1 \in 1..Len(pendingFunctors_)
      BY <1>2, RunFunctorFacts DEF RunConnectEstablished, socket
    <2>2. state_ = "kConnecting"
      BY <2>1 DEF EstablishedFirst
    <2>3. LifeRest'
      BY <2>1, <2>2 DEF ConnectEstablished, Fault, NobodyHas, InterestOpen, BytesWatched, NoStateFault, Open
    <2>4. Moves(1, {}) /\ state_' = "kConnected"
      BY <1>2, <2>1, FunctorMoves DEF ConnectEstablished
    <2>5. EstablishedFirst' /\ FreshQueue'
      BY <2>4, LifeQueue
    <2> QED
      BY <2>3, <2>5
  <1>3. CASE RunSendInLoop
    <2>1. /\ pendingFunctors_[1].op = "sendInLoop" /\ 1 \in 1..Len(pendingFunctors_)
          /\ UNCHANGED <<state_, reading, holds, upc>> /\ writing' \in BOOLEAN
          /\ faults' = FreedFault \cup EnableFault
          /\ \/ UNCHANGED <<outputBuffer_, writing>>
             \/ /\ state_ /= "kDisconnected"
                /\ writing' \/ (outputBuffer_' = <<>> /\ writing' = writing)
      BY <1>3, RunSendFacts
    <2>2. state_ /= "kConnecting" /\ state_ \in States
      BY <2>1 DEF FreshQueue, TypeOK
    <2>3. faults' \subseteq {"freedConnection", "poller"}
      BY <2>1 DEF FreedFault, EnableFault, Fault
    <2>4. LifeRest'
      BY <2>1, <2>2, <2>3 DEF NobodyHas, InterestOpen, BytesWatched, NoStateFault, Open, States
    <2>5. PICK new \in SUBSET Callbacks : Moves(1, new)
      BY <1>3, FunctorMoves
    <2>6. \A f \in new : f.op /= "connectEstablished"
      BY FType DEF Callbacks
    <2>7. EstablishedFirst' /\ FreshQueue'
      BY <2>1, <2>2, <2>5, <2>6, LifeQueue
    <2> QED
      BY <2>4, <2>7
  <1>4. CASE RunShutdownInLoop
    <2>1. UNCHANGED <<state_, reading, writing, outputBuffer_, holds, upc>>
          /\ faults' \subseteq {"freedConnection"}
      BY <1>4 DEF RunShutdownInLoop, users, FreedFault, Fault
    <2>2. LifeRest'
      BY <2>1 DEF NobodyHas, InterestOpen, BytesWatched, NoStateFault
    <2>3. EstablishedFirst' /\ FreshQueue'
      BY <1>4, <2>1, FunctorMoves, LifeQueue
    <2> QED
      BY <2>2, <2>3
  <1>5. CASE RunForceCloseInLoop
    <2>1. F("connectDestroyed").op = "connectDestroyed"
      BY FType
    <2>2. CASE state_ \in Open
      <3>1. HandleClose(Others)
        BY <1>5, <2>2 DEF RunForceCloseInLoop, Open
      <3>2. state_' = "kDisconnected" /\ reading' = FALSE /\ writing' = FALSE
            /\ faults' \subseteq {"poller", "freedServer", "erase"}
        BY <2>2, <3>1, CloseEffect
      <3>3. LifeRest'
        BY <3>2 DEF NobodyHas, InterestOpen, BytesWatched, NoStateFault
      <3>4. Moves(1, {}) \/ Moves(1, {F("connectDestroyed")})
        BY <1>5, FunctorMoves
      <3>5. EstablishedFirst' /\ FreshQueue'
        BY <2>1, <3>2, <3>4, LifeQueue
      <3> QED
        BY <3>3, <3>5
    <2>3. CASE state_ \notin Open
      <3>1. UNCHANGED <<state_, reading, writing, outputBuffer_, holds, upc, faults>>
        BY <1>5, <2>3 DEF RunForceCloseInLoop, Open, socket, users
      <3>2. LifeRest'
        BY <3>1 DEF NobodyHas, InterestOpen, BytesWatched, NoStateFault
      <3>3. Moves(1, {})
        BY <1>5, <2>3, FunctorMoves
      <3>4. EstablishedFirst' /\ FreshQueue'
        BY <3>1, <3>3, LifeQueue
      <3> QED
        BY <3>2, <3>4
    <2> QED
      BY <2>2, <2>3
  <1>6. CASE RunConnectDestroyed
    <2>1. ConnectDestroyed /\ UNCHANGED <<outputBuffer_, holds, upc>>
      BY <1>6 DEF RunConnectDestroyed, socket, users
    <2>2. \/ UNCHANGED <<state_, reading, writing>>
          \/ state_ = "kConnected" /\ state_' = "kDisconnected" /\ reading' = FALSE /\ writing' = FALSE
      BY <2>1 DEF ConnectDestroyed
    <2>3. faults' \subseteq {"events", "poller"}
      BY <2>1 DEF ConnectDestroyed, Fault
    <2>4. LifeRest'
      BY <2>1, <2>2, <2>3 DEF NobodyHas, InterestOpen, BytesWatched, NoStateFault
    <2>5. EstablishedFirst' /\ FreshQueue'
      BY <1>6, <2>2, FunctorMoves, LifeQueue
    <2> QED
      BY <2>4, <2>5
  <1>7. CASE RunUserCallback
    <2>1. UNCHANGED <<state_, reading, writing, outputBuffer_, holds, upc, faults>>
      BY <1>7 DEF RunUserCallback, socket, users
    <2>2. LifeRest'
      BY <2>1 DEF NobodyHas, InterestOpen, BytesWatched, NoStateFault
    <2>3. EstablishedFirst' /\ FreshQueue'
      BY <1>7, <2>1, FunctorMoves, LifeQueue
    <2> QED
      BY <2>2, <2>3
  <1> QED
    BY <1>1, <1>2, <1>3, <1>4, <1>5, <1>6, <1>7 DEF FunctorStep

(* Events and the loop's own calls keep the life invariant.                   *)
LEMMA LifeEvent ==
    ASSUME TypeOK, LifeInv, EventStep
    PROVE  LifeInv'
  <1> USE DEF LifeInv, LifeRest
  <1>1. CASE PeerClose
    <2>1. HandleClose(pendingFunctors_) /\ (reading \/ writing)
      BY <1>1 DEF PeerClose
    <2>2. state_ \in Open
      BY <2>1 DEF InterestOpen
    <2>3. state_' = "kDisconnected" /\ reading' = FALSE /\ writing' = FALSE
          /\ faults' \subseteq {"poller", "freedServer", "erase"}
      BY <2>1, <2>2, CloseEffect
    <2>4. LifeRest'
      BY <2>3 DEF NobodyHas, InterestOpen, BytesWatched, NoStateFault
    <2>5. Moves(0, {}) \/ Moves(0, {F("connectDestroyed")})
      BY <1>1, EventMoves
    <2>6. F("connectDestroyed").op = "connectDestroyed" /\ state_ /= "kConnecting"
      BY <2>2, FType DEF Open
    <2>7. EstablishedFirst' /\ FreshQueue'
      BY <2>3, <2>5, <2>6, LifeQueue
    <2> QED
      BY <2>4, <2>7
  <1>2. CASE HandleWrite
    <2>1. /\ UNCHANGED <<state_, reading, holds, upc, faults>> /\ writing
          /\ writing' \in BOOLEAN /\ writing' <=> outputBuffer_' /= <<>>
      BY <1>2, WriteEffect
    <2>2. state_ \in Open
      BY <2>1 DEF InterestOpen
    <2>3. LifeRest'
      BY <2>1, <2>2 DEF NobodyHas, InterestOpen, BytesWatched, NoStateFault, Open
    <2>4. PICK new \in SUBSET Callbacks : Moves(0, new)
      BY <1>2, EventMoves
    <2>5. \A f \in new : f.op /= "connectEstablished"
      BY FType DEF Callbacks
    <2>6. EstablishedFirst' /\ FreshQueue'
      BY <2>1, <2>2, <2>4, <2>5, LifeQueue DEF Open
    <2> QED
      BY <2>3, <2>6
  <1>3. CASE LoopSend
    <2>1. /\ UNCHANGED <<state_, reading, holds, upc>> /\ writing' \in BOOLEAN
          /\ state_ = "kConnected" /\ faults' = EnableFault
          /\ \/ UNCHANGED <<outputBuffer_, writing>>
             \/ writing' \/ (outputBuffer_' = <<>> /\ writing' = writing)
      BY <1>3, LoopSendFacts
    <2>2. faults' \subseteq {"poller"}
      BY <2>1 DEF EnableFault, Fault
    <2>3. LifeRest'
      BY <2>1, <2>2 DEF NobodyHas, InterestOpen, BytesWatched, NoStateFault, Open
    <2>4. PICK new \in SUBSET Callbacks : Moves(0, new)
      BY <1>3, EventMoves
    <2>5. \A f \in new : f.op /= "connectEstablished"
      BY FType DEF Callbacks
    <2>6. EstablishedFirst' /\ FreshQueue'
      BY <2>1, <2>4, <2>5, LifeQueue
    <2> QED
      BY <2>3, <2>6
  <1>4. CASE LoopShutdown
    <2>1. /\ UNCHANGED <<reading, writing, outputBuffer_, holds, upc, faults>>
          /\ state_ = "kConnected" /\ state_' = "kDisconnecting"
      BY <1>4 DEF LoopShutdown, users
    <2>2. LifeRest'
      BY <2>1 DEF NobodyHas, InterestOpen, BytesWatched, NoStateFault, Open
    <2>3. EstablishedFirst' /\ FreshQueue'
      BY <1>4, <2>1, EventMoves, LifeQueue
    <2> QED
      BY <2>2, <2>3
  <1>5. CASE LoopForceClose
    <2>1. /\ UNCHANGED <<reading, writing, outputBuffer_, holds, upc, faults>>
          /\ state_ /= "kConnecting" /\ state_' = "kDisconnecting"
      BY <1>5 DEF LoopForceClose, socket
    <2>2. LifeRest'
      BY <2>1 DEF NobodyHas, InterestOpen, BytesWatched, NoStateFault, Open
    <2>3. F("forceCloseInLoop").op = "forceCloseInLoop"
      BY FType
    <2>4. EstablishedFirst' /\ FreshQueue'
      BY <1>5, <2>1, <2>3, EventMoves, LifeQueue
    <2> QED
      BY <2>2, <2>4
  <1> QED
    BY <1>1, <1>2, <1>3, <1>4, <1>5 DEF EventStep

(* Application threads keep the life invariant.                               *)
LEMMA LifeUser ==
    ASSUME TypeOK, LifeInv, NEW u \in Users, UserNext(u)
    PROVE  LifeInv'
  <1> USE DEF LifeInv, LifeRest
  <1>1. UserStep /\ UNCHANGED <<reading, writing, outputBuffer_, faults>>
    BY DEF UserNext, BeginSend, QueueSend, BeginShutdown, BeginForceClose, SetDisconnecting,
           QueueClose, Release, UserStep, socket
  <1>2. u \in holds \/ upc[u] /= "out"
    BY DEF UserNext, BeginSend, QueueSend, BeginShutdown, BeginForceClose, SetDisconnecting,
           QueueClose, Release
  <1>3. state_ /= "kConnecting"
    BY <1>2 DEF NobodyHas
  <1>4. state_' = state_ \/ state_' = "kDisconnecting"
    BY DEF UserNext, BeginSend, QueueSend, BeginShutdown, BeginForceClose, SetDisconnecting,
           QueueClose, Release
  <1>5. LifeRest'
    BY <1>1, <1>3, <1>4 DEF NobodyHas, InterestOpen, BytesWatched, NoStateFault, Open
  <1>6. Moves(0, {}) \/ Moves(0, {SendFunctor(u)}) \/ Moves(0, {CloseFunctor(u)})
    BY UserMoves DEF UserNext
  <1>7. SendFunctor(u).op /= "connectEstablished" /\ CloseFunctor(u).op /= "connectEstablished"
    BY DEF SendFunctor, CloseFunctor
  <1>8. EstablishedFirst' /\ FreshQueue'
    BY <1>3, <1>4, <1>6, <1>7, LifeQueue
  <1> QED
    BY <1>5, <1>8

(* A step that changes nothing.                                               *)
LEMMA LifeStutter ==
    ASSUME LifeInv, UNCHANGED vars
    PROVE  LifeInv'
  BY DEF vars, LifeInv, LifeRest, EstablishedFirst, FreshQueue, NobodyHas, InterestOpen, BytesWatched,
         NoStateFault

(* Every step keeps the life invariant.                                       *)
LEMMA LifeStep ==
    ASSUME TypeOK, LifeInv, [Next]_vars
    PROVE  LifeInv'
  BY LifeBase, LifeFunctor, LifeEvent, LifeUser, LifeStutter DEF Next, Terminated, Aborted

(* It holds initially.                                                        *)
LEMMA LifeInit == Init => LifeInv
  BY DEF Init, LifeInv, LifeRest, EstablishedFirst, FreshQueue, NobodyHas, InterestOpen, BytesWatched,
         NoStateFault

-----------------------------------------------------------------------------
(* The order of the bytes. *)

(* What a byte is made of.                                                    *)
LEMMA ByteParts ==
    ASSUME TypeOK, NEW i \in 1..Len(accepted)
    PROVE  accepted[i][1] \in Senders /\ accepted[i][2] \in Nat /\ accepted[i][3] \in Nat
  <1>1. accepted[i] \in Byte
    BY DEF TypeOK
  <1> QED
    BY <1>1 DEF Byte

(* Where the functors of the queue after a step come from.                    *)
LEMMA MovesFrom ==
    ASSUME TypeOK, NEW d, NEW new, Moves(d, new)
    PROVE  /\ d \in {0, 1} /\ Len(pendingFunctors_) \in Nat /\ Len(pendingFunctors_') \in Nat
           /\ \A i \in 1..Len(pendingFunctors_') :
                \/ /\ i + d \in 1..Len(pendingFunctors_)
                   /\ pendingFunctors_'[i] = pendingFunctors_[i + d]
                \/ i = Len(pendingFunctors_') /\ pendingFunctors_'[i] \in new
  <1> DEFINE q == pendingFunctors_
             m == Len(pendingFunctors_)
             k == Len(pendingFunctors_')
  <1>1. m \in Nat /\ k \in Nat /\ d \in {0, 1} /\ d <= m
    BY DEF TypeOK, Moves
  <1>2. ASSUME NEW i \in 1..k
        PROVE  \/ i + d \in 1..m /\ q'[i] = q[i + d]
               \/ i = k /\ q'[i] \in new
    <2>1. CASE new = {}
      <3>1. k = m - d /\ \A j \in 1..(m - d) : q'[j] = q[j + d]
        BY <2>1 DEF Moves
      <3> QED
        BY <1>1, <3>1
    <2>2. CASE new /= {}
      <3>1. k = m - d + 1 /\ (\A j \in 1..(m - d) : q'[j] = q[j + d]) /\ q'[k] \in new
        BY <2>2 DEF Moves
      <3> QED
        BY <1>1, <3>1
    <2> QED
      BY <2>1, <2>2
  <1> QED
    BY <1>1, <1>2

(* A step that sends nothing, and queues no message, keeps the order.         *)
LEMMA OrderNeutral ==
    ASSUME TypeOK, OrderInv, NEW d, NEW new, Moves(d, new),
           \A f \in new : f.op /= "sendInLoop",
           wire' \o outputBuffer_' = wire \o outputBuffer_, accepted' = accepted, sent' = sent,
           \A u \in Users : upc'[u] = "send" => upc[u] = "send"
    PROVE  OrderInv'
  <1> USE DEF OrderInv
  <1>1. Whole' /\ InOrder'
    BY DEF Whole, InOrder
  <1>2. TakenSent'
    BY DEF TakenSent
  <1> DEFINE q == pendingFunctors_
             m == Len(pendingFunctors_)
             k == Len(pendingFunctors_')
  <1>3. /\ d \in {0, 1} /\ m \in Nat /\ k \in Nat
        /\ \A i \in 1..k : \/ i + d \in 1..m /\ q'[i] = q[i + d]
                           \/ i = k /\ q'[i] \in new
    BY MovesFrom
  <1> HIDE DEF q, m, k
  <1>4. \A i \in 1..k : IsSend(q'[i]) => i + d \in 1..m /\ q'[i] = q[i + d]
    BY <1>3 DEF IsSend
  <1>5. QueuedLater'
    <2>1. ASSUME NEW i \in 1..k, NEW f, f = q'[i], IsSend(f)
          PROVE  Later(f)'
      <3>1. i + d \in 1..m /\ f = q[i + d]
        BY <1>4, <2>1
      <3>2. Later(f)
        BY <2>1, <3>1 DEF QueuedLater, q, m
      <3> QED
        BY <3>2 DEF Later
    <2> QED
      BY <2>1 DEF QueuedLater, Later, q, k
  <1>6. QueuedInOrder'
    <2>1. \A i, j \in 1..m : i < j /\ IsSend(q[i]) /\ IsSend(q[j]) /\ q[i].by = q[j].by
                              => q[i].msg < q[j].msg
      BY DEF QueuedInOrder, q, m
    <2>2. ASSUME NEW i \in 1..k, NEW j \in 1..k, i < j, IsSend(q'[i]), IsSend(q'[j]),
                 q'[i].by = q'[j].by
          PROVE  q'[i].msg < q'[j].msg
      <3>1. i + d \in 1..m /\ q'[i] = q[i + d] /\ j + d \in 1..m /\ q'[j] = q[j + d]
        BY <1>4, <2>2
      <3>2. i + d < j + d
        BY <1>3, <2>2
      <3> QED
        BY <2>1, <2>2, <3>1, <3>2
    <2> QED
      BY <2>2 DEF QueuedInOrder, IsSend, q, k
  <1> QED
    BY <1>1, <1>2, <1>5, <1>6

(* A message taken after all earlier ones of its sender keeps the bytes in    *)
(* order.                                                                     *)
LEMMA TakeOrder ==
    ASSUME TypeOK, InOrder, NEW u \in Senders, NEW n \in Nat,
           accepted' = accepted \o Message(u, n),
           \A i \in 1..Len(accepted) : accepted[i][1] = u => accepted[i][2] < n
    PROVE  /\ InOrder'
           /\ \A i \in 1..Len(accepted') :
                \/ i \in 1..Len(accepted) /\ accepted'[i] = accepted[i]
                \/ accepted'[i][1] = u /\ accepted'[i][2] = n
  <1> DEFINE a == accepted
             m == Len(accepted)
             k == Len(accepted')
  <1>1. /\ a \in Seq(Byte) /\ m \in Nat /\ Message(u, n) \in Seq(Byte) /\ Len(Message(u, n)) = MsgLen
        /\ \A i \in 1..MsgLen : Message(u, n)[i] = <<u, n, i>>
        /\ MsgLen \in Nat
    BY MessageType, TcpConnectionAssumption DEF TypeOK
  <1>2. /\ k = m + MsgLen
        /\ \A i \in 1..(m + MsgLen) : a'[i] = IF i <= m THEN a[i] ELSE Message(u, n)[i - m]
    <2> DEFINE t == Message(u, n)
    <2>1. a \in Seq(Byte) /\ t \in Seq(Byte) /\ Len(t) = MsgLen /\ a' = a \o t
      BY <1>1
    <2> HIDE DEF t
    <2>2. /\ Len(a \o t) = Len(a) + Len(t)
          /\ \A i \in 1..(Len(a) + Len(t)) : (a \o t)[i] = IF i <= Len(a) THEN a[i] ELSE t[i - Len(a)]
      <3>1. \A x, y \in Seq(Byte) :
              /\ Len(x \o y) = Len(x) + Len(y)
              /\ \A i \in 1..(Len(x) + Len(y)) : (x \o y)[i] = IF i <= Len(x) THEN x[i] ELSE y[i - Len(x)]
        OBVIOUS
      <3> QED
        BY <2>1, <3>1
    <2> QED
      BY <2>1, <2>2 DEF t
  <1>3. \A i \in 1..m : a[i][1] \in Senders /\ a[i][2] \in Nat /\ a[i][3] \in Nat
    BY ByteParts
  <1>4. \A i, j \in 1..m : i < j /\ a[i][1] = a[j][1] => Before(a[i], a[j])
    BY DEF InOrder
  <1>5. \A i \in 1..m : a[i][1] = u => a[i][2] < n
    OBVIOUS
  <1> HIDE DEF a, m, k
  <1>6. \A i \in 1..k : \/ i \in 1..m /\ a'[i] = a[i]
                        \/ i > m /\ i - m \in 1..MsgLen /\ a'[i] = <<u, n, i - m>>
    <2> TAKE i \in 1..k
    <2>1. CASE i <= m
      BY <1>1, <1>2, <2>1
    <2>2. CASE ~(i <= m)
      <3>1. i - m \in 1..MsgLen /\ i > m /\ i \in 1..(m + MsgLen)
        BY <1>1, <1>2, <2>2
      <3> QED
        BY <1>1, <1>2, <2>2, <3>1
    <2> QED
      BY <2>1, <2>2
  <1>7. ASSUME NEW i \in 1..k, NEW j \in 1..k, i < j, a'[i][1] = a'[j][1]
        PROVE  Before(a'[i], a'[j])
    <2>0. i \in Nat /\ j \in Nat /\ m \in Nat
      BY <1>1, <1>2
    <2>1. CASE i \in 1..m /\ a'[i] = a[i] /\ j \in 1..m /\ a'[j] = a[j]
      BY <1>4, <1>7, <2>1
    <2>2. CASE i \in 1..m /\ a'[i] = a[i] /\ a'[j] = <<u, n, j - m>>
      <3>1. a[i][2] < n
        BY <1>5, <1>7, <2>2
      <3> QED
        BY <2>2, <3>1 DEF Before
    <2>3. CASE i > m /\ j <= m
      BY <1>7, <2>0, <2>3
    <2>4. CASE a'[i] = <<u, n, i - m>> /\ a'[j] = <<u, n, j - m>>
      <3>1. i - m < j - m
        BY <1>7, <2>0
      <3> QED
        BY <2>4, <3>1 DEF Before
    <2>5. j \in 1..m => j <= m
      BY <2>0
    <2> QED
      BY <1>6, <2>1, <2>2, <2>3, <2>4, <2>5
  <1>8. InOrder'
    BY <1>7 DEF InOrder, a, k
  <1>9. \A i \in 1..k : \/ i \in 1..m /\ a'[i] = a[i]
                        \/ a'[i][1] = u /\ a'[i][2] = n
    BY <1>6
  <1> QED
    BY <1>8, <1>9 DEF a, m, k

(* sendInLoop() of a queued message keeps the order.                          *)
LEMMA OrderRunSend ==
    ASSUME TypeOK, OrderInv, RunSendInLoop
    PROVE  OrderInv'
  <1> DEFINE f == pendingFunctors_[1]
  <1>1. PICK new \in SUBSET Callbacks : Moves(1, new)
    BY FunctorMoves
  <1>2. \A g \in new : g.op /= "sendInLoop"
    BY FType DEF Callbacks
  <1>3. /\ f \in Functor /\ f.op = "sendInLoop" /\ 1 \in 1..Len(pendingFunctors_)
        /\ UNCHANGED <<upc, sent>>
        /\ \/ UNCHANGED <<wire, outputBuffer_, accepted>>
           \/ /\ accepted' = accepted \o Message(f.by, f.msg)
              /\ wire' \o outputBuffer_' = (wire \o outputBuffer_) \o Message(f.by, f.msg)
    <2>1. Len(pendingFunctors_) >= 1 /\ Len(pendingFunctors_) \in Nat
      BY RunSendFacts DEF TypeOK
    <2>2. 1 \in 1..Len(pendingFunctors_)
      BY <2>1
    <2> QED
      BY <2>2, RunSendFacts
  <1>4. CASE UNCHANGED <<wire, outputBuffer_, accepted>>
    BY <1>1, <1>2, <1>3, <1>4, OrderNeutral
  <1>5. CASE /\ accepted' = accepted \o Message(f.by, f.msg)
             /\ wire' \o outputBuffer_' = (wire \o outputBuffer_) \o Message(f.by, f.msg)
    <2> DEFINE q == pendingFunctors_
               m == Len(pendingFunctors_)
               k == Len(pendingFunctors_')
    <2>1. f.by \in Senders /\ f.msg \in Nat /\ Later(f)
      BY <1>3 DEF OrderInv, QueuedLater, IsSend, Functor
    <2>2. InOrder' /\ \A i \in 1..Len(accepted') :
                        \/ i \in 1..Len(accepted) /\ accepted'[i] = accepted[i]
                        \/ accepted'[i][1] = f.by /\ accepted'[i][2] = f.msg
      BY <1>5, <2>1, TakeOrder DEF OrderInv, Later
    <2>3. Whole'
      BY <1>5 DEF OrderInv, Whole
    <2>4. TakenSent'
      BY <1>3, <2>1, <2>2 DEF OrderInv, TakenSent, Later
    <2>5. /\ m \in Nat /\ k \in Nat
          /\ \A i \in 1..k : \/ i + 1 \in 1..m /\ q'[i] = q[i + 1]
                             \/ i = k /\ q'[i] \in new
      BY <1>1, MovesFrom
    <2>6. \A i \in 1..m : IsSend(q[i]) => Later(q[i])
      BY DEF OrderInv, QueuedLater
    <2>7. \A i, j \in 1..m : i < j /\ IsSend(q[i]) /\ IsSend(q[j]) /\ q[i].by = q[j].by
                              => q[i].msg < q[j].msg
      BY DEF OrderInv, QueuedInOrder
    <2>8. f = q[1] /\ IsSend(f) /\ 1 \in 1..m
      BY <1>3 DEF IsSend
    <2> HIDE DEF f, q, m, k
    <2>9. \A i \in 1..k : IsSend(q'[i]) => i + 1 \in 1..m /\ q'[i] = q[i + 1]
      BY <1>2, <2>5 DEF IsSend
    <2>10. ASSUME NEW i \in 1..k, NEW g, g = q'[i], IsSend(g)
           PROVE  Later(g)'
      <3>1. i + 1 \in 1..m /\ g = q[i + 1] /\ 1 < i + 1
        BY <2>5, <2>9, <2>10
      <3>2. Later(g)
        BY <2>6, <2>10, <3>1
      <3>3. g.by = f.by => f.msg < g.msg
        BY <2>7, <2>8, <2>10, <3>1
      <3>4. \A j \in 1..Len(accepted') : accepted'[j][1] = g.by => accepted'[j][2] < g.msg
        BY <2>2, <3>2, <3>3 DEF Later
      <3> QED
        BY <1>3, <3>2, <3>4 DEF Later
    <2>11. QueuedLater'
      BY <2>10 DEF QueuedLater, Later, q, k
    <2>12. ASSUME NEW i \in 1..k, NEW j \in 1..k, i < j, IsSend(q'[i]), IsSend(q'[j]),
                  q'[i].by = q'[j].by
           PROVE  q'[i].msg < q'[j].msg
      <3>1. i + 1 \in 1..m /\ q'[i] = q[i + 1] /\ j + 1 \in 1..m /\ q'[j] = q[j + 1]
        BY <2>9, <2>12
      <3>2. i + 1 < j + 1
        BY <2>5, <2>12
      <3> QED
        BY <2>7, <2>12, <3>1, <3>2
    <2>13. QueuedInOrder'
      BY <2>12 DEF QueuedInOrder, IsSend, q, k
    <2> QED
      BY <2>2, <2>3, <2>4, <2>11, <2>13 DEF OrderInv
  <1> QED
    BY <1>3, <1>4, <1>5

(* send() of the loop itself keeps the order.                                 *)
LEMMA OrderLoopSend ==
    ASSUME TypeOK, OrderInv, LoopSend
    PROVE  OrderInv'
  <1> DEFINE n == sent[IO] + 1
  <1>1. PICK new \in SUBSET Callbacks : Moves(0, new)
    BY EventMoves
  <1>2. \A g \in new : g.op /= "sendInLoop"
    BY FType DEF Callbacks
  <1>3. /\ sent' = [sent EXCEPT ![IO] = n] /\ sent[IO] \in Nat /\ upc' = upc
        /\ \/ UNCHANGED <<wire, outputBuffer_, accepted>>
           \/ /\ accepted' = accepted \o Message(IO, n)
              /\ wire' \o outputBuffer_' = (wire \o outputBuffer_) \o Message(IO, n)
    BY LoopSendFacts
  <1>4. /\ sent \in [Senders -> Nat] /\ IO \in Senders /\ IO \notin Users /\ n \in Nat
        /\ Users \subseteq Senders
    BY <1>3, TcpConnectionAssumption DEF TypeOK, Senders
  <1>5. /\ sent'[IO] = n /\ sent[IO] < n /\ \A s \in Senders : s /= IO => sent'[s] = sent[s]
        /\ \A s \in Senders : sent[s] \in Nat
    BY <1>3, <1>4
  <1> HIDE DEF n
  <1>6. \A i \in 1..Len(accepted) : accepted[i][1] = IO => accepted[i][2] < n
    <2> TAKE i \in 1..Len(accepted)
    <2>1. accepted[i][1] = IO => accepted[i][2] <= sent[IO]
      BY DEF OrderInv, TakenSent
    <2>2. accepted[i][2] \in Nat
      BY ByteParts
    <2> QED
      BY <1>3, <1>4, <1>5, <2>1, <2>2
  <1>7. /\ Whole' /\ InOrder'
        /\ \A i \in 1..Len(accepted') :
             \/ i \in 1..Len(accepted) /\ accepted'[i] = accepted[i]
             \/ accepted'[i][1] = IO /\ accepted'[i][2] = n
    <2>1. CASE UNCHANGED <<wire, outputBuffer_, accepted>>
      BY <2>1 DEF OrderInv, Whole, InOrder
    <2>2. CASE /\ accepted' = accepted \o Message(IO, n)
               /\ wire' \o outputBuffer_' = (wire \o outputBuffer_) \o Message(IO, n)
      <3>1. Whole'
        BY <2>2 DEF OrderInv, Whole
      <3> QED
        BY <1>4, <1>6, <2>2, <3>1, TakeOrder DEF OrderInv
    <2> QED
      BY <1>3, <2>1, <2>2
  <1>8. TakenSent'
    <2> SUFFICES ASSUME NEW i \in 1..Len(accepted')
                 PROVE  /\ accepted'[i][2] <= sent'[accepted'[i][1]]
                        /\ accepted'[i][1] \in Users /\ upc'[accepted'[i][1]] = "send"
                             => accepted'[i][2] < sent'[accepted'[i][1]]
      BY DEF TakenSent
    <2>1. CASE accepted'[i][1] = IO /\ accepted'[i][2] = n
      BY <1>4, <1>5, <2>1
    <2>2. CASE i \in 1..Len(accepted) /\ accepted'[i] = accepted[i]
      <3>1. accepted[i][1] \in Senders /\ accepted[i][2] \in Nat
        BY <2>2, ByteParts
      <3>2. /\ accepted[i][2] <= sent[accepted[i][1]]
            /\ accepted[i][1] \in Users /\ upc[accepted[i][1]] = "send"
                 => accepted[i][2] < sent[accepted[i][1]]
        BY <2>2 DEF OrderInv, TakenSent
      <3>3. CASE accepted[i][1] = IO
        BY <1>4, <1>6, <1>5, <2>2, <3>1, <3>3
      <3>4. CASE accepted[i][1] /= IO
        BY <1>3, <1>5, <2>2, <3>1, <3>2, <3>4
      <3> QED
        BY <3>3, <3>4
    <2> QED
      BY <1>7, <2>1, <2>2
  <1> DEFINE q == pendingFunctors_
             m == Len(pendingFunctors_)
             k == Len(pendingFunctors_')
  <1>9. /\ m \in Nat /\ k \in Nat
        /\ \A i \in 1..k : \/ i + 0 \in 1..m /\ q'[i] = q[i + 0]
                           \/ i = k /\ q'[i] \in new
    BY <1>1, MovesFrom
  <1>10. /\ \A i \in 1..m : IsSend(q[i]) => Later(q[i])
         /\ \A i, j \in 1..m : i < j /\ IsSend(q[i]) /\ IsSend(q[j]) /\ q[i].by = q[j].by
                              => q[i].msg < q[j].msg
    BY DEF OrderInv, QueuedLater, QueuedInOrder
  <1> HIDE DEF q, m, k
  <1>11. \A i \in 1..k : IsSend(q'[i]) => i \in 1..m /\ q'[i] = q[i]
    BY <1>2, <1>9 DEF IsSend
  <1>12. ASSUME NEW i \in 1..k, NEW g, g = q'[i], IsSend(g)
         PROVE  Later(g)'
    <2>1. Later(g)
      BY <1>10, <1>11, <1>12
    <2>2. g.by \in Users /\ g.by /= IO /\ sent'[g.by] = sent[g.by]
      BY <1>4, <1>5, <2>1 DEF Later
    <2>3. \A j \in 1..Len(accepted') : accepted'[j][1] = g.by => accepted'[j][2] < g.msg
      BY <1>7, <2>1, <2>2 DEF Later
    <2> QED
      BY <1>3, <2>1, <2>2, <2>3 DEF Later
  <1>13. QueuedLater'
    BY <1>12 DEF QueuedLater, Later, q, k
  <1>14. QueuedInOrder'
    <2>1. \A i, j \in 1..k : i < j /\ IsSend(q'[i]) /\ IsSend(q'[j]) /\ q'[i].by = q'[j].by
                              => q'[i].msg < q'[j].msg
      BY <1>10, <1>11
    <2> QED
      BY <2>1 DEF QueuedInOrder, IsSend, q, k
  <1> QED
    BY <1>7, <1>8, <1>13, <1>14 DEF OrderInv

(* The first step of a foreign send() keeps the order.                        *)
LEMMA OrderBeginSend ==
    ASSUME TypeOK, OrderInv, NEW u \in Users, BeginSend(u)
    PROVE  OrderInv'
  <1>1. /\ sent' = [sent EXCEPT ![u] = sent[u] + 1] /\ upc' = [upc EXCEPT ![u] = "send"]
        /\ UNCHANGED <<wire, outputBuffer_, accepted, pendingFunctors_>>
    BY DEF BeginSend, UserStep, socket
  <1>2. u \in Senders /\ sent \in [Senders -> Nat] /\ Users \subseteq Senders
        /\ upc \in [Users -> {"out", "send", "shutdown", "forceClose", "shutdownQueue",
                              "forceCloseQueue"}]
    BY DEF TypeOK, Senders
  <1>3. /\ \A s \in Senders : sent[s] \in Nat /\ sent'[s] \in Nat /\ sent[s] <= sent'[s]
        /\ sent[u] < sent'[u]
        /\ \A v \in Users : v /= u => sent'[v] = sent[v] /\ upc'[v] = upc[v]
    <2>1. \A s \in Senders : sent'[s] = IF s = u THEN sent[s] + 1 ELSE sent[s]
      BY <1>1, <1>2
    <2>2. \A s \in Senders : sent[s] \in Nat
      BY <1>2
    <2>3. \A s \in Senders : sent[s] \in Nat /\ sent'[s] \in Nat /\ sent[s] <= sent'[s]
      BY <2>1, <2>2
    <2>4. sent[u] < sent'[u]
      BY <1>2, <2>1, <2>2
    <2>5. \A v \in Users : v /= u => sent'[v] = sent[v] /\ upc'[v] = upc[v]
      BY <1>1, <1>2, <2>1
    <2> QED
      BY <2>3, <2>4, <2>5
  <1>4. Whole' /\ InOrder' /\ QueuedInOrder'
    BY <1>1 DEF OrderInv, Whole, InOrder, QueuedInOrder
  <1>5. TakenSent'
    <2> SUFFICES ASSUME NEW i \in 1..Len(accepted)
                 PROVE  /\ accepted[i][2] <= sent'[accepted[i][1]]
                        /\ accepted[i][1] \in Users /\ upc'[accepted[i][1]] = "send"
                             => accepted[i][2] < sent'[accepted[i][1]]
      BY <1>1 DEF TakenSent
    <2>1. accepted[i][1] \in Senders /\ accepted[i][2] \in Nat
      BY ByteParts
    <2>2. /\ accepted[i][2] <= sent[accepted[i][1]]
          /\ accepted[i][1] \in Users /\ upc[accepted[i][1]] = "send"
               => accepted[i][2] < sent[accepted[i][1]]
      BY DEF OrderInv, TakenSent
    <2>3. CASE accepted[i][1] = u
      BY <1>3, <2>1, <2>2, <2>3
    <2>4. CASE accepted[i][1] /= u
      BY <1>3, <2>1, <2>2, <2>4
    <2> QED
      BY <2>3, <2>4
  <1>6. ASSUME NEW i \in 1..Len(pendingFunctors_), NEW g, g = pendingFunctors_[i], IsSend(g)
        PROVE  Later(g)'
    <2>1. Later(g) /\ g \in Functor
      BY <1>6 DEF OrderInv, QueuedLater, TypeOK
    <2>2. g.by \in Users /\ g.msg \in Nat /\ g.msg <= sent[g.by]
          /\ (upc[g.by] = "send" => g.msg < sent[g.by])
      BY <2>1 DEF Later, Functor
    <2>3. g.msg <= sent'[g.by] /\ (upc'[g.by] = "send" => g.msg < sent'[g.by])
      <3>1. CASE g.by = u
        BY <1>2, <1>3, <2>2, <3>1
      <3>2. CASE g.by /= u
        BY <1>2, <1>3, <2>2, <3>2
      <3> QED
        BY <3>1, <3>2
    <2> QED
      BY <1>1, <2>1, <2>3 DEF Later
  <1>7. QueuedLater'
    BY <1>1, <1>6 DEF QueuedLater, Later
  <1> QED
    BY <1>4, <1>5, <1>7 DEF OrderInv

(* Queueing the functor of a foreign send() keeps the order.                  *)
LEMMA OrderQueueSend ==
    ASSUME TypeOK, OrderInv, NEW u \in Users, QueueSend(u)
    PROVE  OrderInv'
  <1>1. /\ upc[u] = "send" /\ upc' = [upc EXCEPT ![u] = "out"]
        /\ UNCHANGED <<wire, outputBuffer_, accepted, sent>>
    BY DEF QueueSend, UserStep, socket
  <1>2. u \in Senders /\ sent[u] \in Nat
        /\ upc \in [Users -> {"out", "send", "shutdown", "forceClose", "shutdownQueue",
                              "forceCloseQueue"}]
    BY DEF TypeOK, Senders
  <1>3. \A v \in Users : upc'[v] = "send" => upc[v] = "send"
    BY <1>1, <1>2
  <1>4. Whole' /\ InOrder'
    BY <1>1 DEF OrderInv, Whole, InOrder
  <1>5. TakenSent'
    BY <1>1, <1>3 DEF OrderInv, TakenSent
  <1> DEFINE f == SendFunctor(u)
             q == pendingFunctors_
             m == Len(pendingFunctors_)
             k == Len(pendingFunctors_')
  <1>6. Moves(0, {f})
    BY UserMoves
  <1>7. /\ m \in Nat /\ k = m + 1 /\ q'[k] = f
        /\ \A i \in 1..m : q'[i] = q[i]
    <2>1. m \in Nat
      BY DEF TypeOK
    <2>2. k = m - 0 + 1 /\ q'[k] \in {f} /\ \A i \in 1..(m - 0) : q'[i] = q[i + 0]
      BY <1>6 DEF Moves
    <2> QED
      BY <2>1, <2>2
  <1>8. f.by = u /\ f.msg = sent[u]
    BY DEF SendFunctor
  <1>9. /\ \A i \in 1..m : IsSend(q[i]) => Later(q[i])
        /\ \A i, j \in 1..m : i < j /\ IsSend(q[i]) /\ IsSend(q[j]) /\ q[i].by = q[j].by
                             => q[i].msg < q[j].msg
    BY DEF OrderInv, QueuedLater, QueuedInOrder
  <1> HIDE DEF f, q, m, k
  <1>10. ASSUME NEW g, g = f
         PROVE  Later(g)'
    <2>1. \A j \in 1..Len(accepted) : accepted[j][1] = u => accepted[j][2] < sent[u]
      BY <1>1 DEF OrderInv, TakenSent
    <2>2. upc'[u] = "out" /\ sent[u] <= sent[u]
      BY <1>1, <1>2
    <2> QED
      BY <1>1, <1>8, <1>10, <2>1, <2>2 DEF Later
  <1>11. ASSUME NEW g, Later(g)
         PROVE  Later(g)'
    BY <1>1, <1>3, <1>11 DEF Later
  <1>12. ASSUME NEW i \in 1..k, NEW g, g = q'[i], IsSend(g)
         PROVE  Later(g)'
    <2>1. CASE i = k
      <3>1. g = f
        BY <1>7, <1>12, <2>1
      <3> QED
        BY <1>10, <3>1
    <2>2. CASE i /= k
      <3>1. i \in 1..m /\ g = q[i]
        BY <1>7, <1>12, <2>2
      <3> QED
        BY <1>9, <1>11, <1>12, <3>1
    <2> QED
      BY <2>1, <2>2
  <1>13. QueuedLater'
    BY <1>12 DEF QueuedLater, Later, q, k
  <1>14. ASSUME NEW i \in 1..k, NEW j \in 1..k, i < j, IsSend(q'[i]), IsSend(q'[j]),
                q'[i].by = q'[j].by
         PROVE  q'[i].msg < q'[j].msg
    <2>1. i \in 1..m /\ q'[i] = q[i]
      BY <1>7, <1>14
    <2>2. CASE j = k
      <3>1. q'[j] = f /\ q[i].by = u
        BY <1>7, <1>8, <1>14, <2>1, <2>2
      <3>2. Later(q[i])
        BY <1>9, <1>14, <2>1
      <3> QED
        BY <1>1, <1>8, <2>1, <3>1, <3>2 DEF Later
    <2>3. CASE j /= k
      <3>1. j \in 1..m /\ q'[j] = q[j]
        BY <1>7, <2>3
      <3> QED
        BY <1>9, <1>14, <2>1, <3>1
    <2> QED
      BY <2>2, <2>3
  <1>15. QueuedInOrder'
    BY <1>14 DEF QueuedInOrder, IsSend, q, k
  <1> QED
    BY <1>4, <1>5, <1>13, <1>15 DEF OrderInv

(* The base loop's steps keep the order.                                      *)
LEMMA OrderBase ==
    ASSUME TypeOK, OrderInv, BaseStep
    PROVE  OrderInv'
  <1>1. UNCHANGED <<wire, outputBuffer_, accepted, sent, upc>>
    BY DEF BaseStep, NewConnection, RemoveConnectionInLoop, DestroyServer, socket, users
  <1>2. F("connectEstablished").op /= "sendInLoop" /\ F("connectDestroyed").op /= "sendInLoop"
    BY FType
  <1>3. Moves(0, {}) \/ Moves(0, {F("connectEstablished")}) \/ Moves(0, {F("connectDestroyed")})
    BY BaseMoves DEF BaseStep
  <1> QED
    BY <1>1, <1>2, <1>3, OrderNeutral

(* The functors keep the order.                                               *)
LEMMA OrderFunctor ==
    ASSUME TypeOK, OrderInv, FunctorStep
    PROVE  OrderInv'
  <1>1. CASE RunSendInLoop
    BY <1>1, OrderRunSend
  <1>2. CASE ~RunSendInLoop
    <2>1. UNCHANGED <<wire, outputBuffer_, accepted, sent, upc>>
      <3>1. CASE StartBatch \/ RunConnectEstablished \/ RunShutdownInLoop \/ RunConnectDestroyed
                 \/ RunUserCallback
        BY <3>1 DEF StartBatch, RunConnectEstablished, RunShutdownInLoop, RunConnectDestroyed,
                    RunUserCallback, socket, users
      <3>2. CASE RunForceCloseInLoop
        BY <3>2, CloseEffect DEF RunForceCloseInLoop, socket, users
      <3> QED
        BY <1>2, <3>1, <3>2 DEF FunctorStep
    <2>2. F("connectDestroyed").op /= "sendInLoop"
      BY FType
    <2>3. Moves(0, {}) \/ Moves(1, {}) \/ Moves(1, {F("connectDestroyed")})
      BY <1>2, FunctorMoves DEF FunctorStep
    <2> QED
      BY <2>1, <2>2, <2>3, OrderNeutral
  <1> QED
    BY <1>1, <1>2

(* Events and the loop's own calls keep the order.                            *)
LEMMA OrderEvent ==
    ASSUME TypeOK, OrderInv, EventStep
    PROVE  OrderInv'
  <1>1. CASE LoopSend
    BY <1>1, OrderLoopSend
  <1>2. CASE HandleWrite
    <2>1. wire' \o outputBuffer_' = wire \o outputBuffer_ /\ UNCHANGED <<accepted, sent, upc>>
      BY <1>2, WriteEffect
    <2>2. PICK new \in SUBSET Callbacks : Moves(0, new)
      BY <1>2, EventMoves
    <2>3. \A f \in new : f.op /= "sendInLoop"
      BY FType DEF Callbacks
    <2> QED
      BY <2>1, <2>2, <2>3, OrderNeutral
  <1>3. CASE PeerClose \/ LoopShutdown \/ LoopForceClose
    <2>1. UNCHANGED <<wire, outputBuffer_, accepted, sent, upc>>
      BY <1>3, CloseEffect DEF PeerClose, LoopShutdown, LoopForceClose, socket, users
    <2>2. F("connectDestroyed").op /= "sendInLoop" /\ F("forceCloseInLoop").op /= "sendInLoop"
      BY FType
    <2>3. Moves(0, {}) \/ Moves(0, {F("connectDestroyed")}) \/ Moves(0, {F("forceCloseInLoop")})
      BY <1>3, EventMoves
    <2> QED
      BY <2>1, <2>2, <2>3, OrderNeutral
  <1> QED
    BY <1>1, <1>2, <1>3 DEF EventStep

(* Application threads keep the order.                                        *)
LEMMA OrderUser ==
    ASSUME TypeOK, OrderInv, NEW u \in Users, UserNext(u)
    PROVE  OrderInv'
  <1>1. CASE BeginSend(u)
    BY <1>1, OrderBeginSend
  <1>2. CASE QueueSend(u)
    BY <1>2, OrderQueueSend
  <1>3. CASE BeginShutdown(u) \/ BeginForceClose(u) \/ SetDisconnecting(u) \/ QueueClose(u) \/ Release(u)
    <2>1. UNCHANGED <<wire, outputBuffer_, accepted, sent>>
      BY <1>3 DEF BeginShutdown, BeginForceClose, SetDisconnecting, QueueClose, Release, UserStep, socket
    <2>2. upc' = upc \/ \E pc \in {"out", "shutdown", "forceClose", "shutdownQueue", "forceCloseQueue"} :
                          upc' = [upc EXCEPT ![u] = pc]
      BY <1>3 DEF BeginShutdown, BeginForceClose, SetDisconnecting, QueueClose, Release
    <2>3. upc \in [Users -> {"out", "send", "shutdown", "forceClose", "shutdownQueue", "forceCloseQueue"}]
      BY DEF TypeOK
    <2>4. \A v \in Users : upc'[v] = "send" => upc[v] = "send"
      BY <2>2, <2>3
    <2>5. Moves(0, {}) \/ Moves(0, {CloseFunctor(u)})
      BY <1>3, UserMoves
    <2>6. CloseFunctor(u).op /= "sendInLoop"
      BY DEF CloseFunctor
    <2> QED
      BY <2>1, <2>4, <2>5, <2>6, OrderNeutral
  <1> QED
    BY <1>1, <1>2, <1>3 DEF UserNext

(* A step that changes nothing.                                               *)
LEMMA OrderStutter ==
    ASSUME OrderInv, UNCHANGED vars
    PROVE  OrderInv'
  <1>1. UNCHANGED <<wire, outputBuffer_, accepted, sent, upc, pendingFunctors_>>
    BY DEF vars
  <1> QED
    BY <1>1 DEF OrderInv, Whole, InOrder, TakenSent, QueuedLater, Later, QueuedInOrder

(* Every step keeps the order.                                                *)
LEMMA OrderStep ==
    ASSUME TypeOK, OrderInv, [Next]_vars
    PROVE  OrderInv'
  BY OrderBase, OrderFunctor, OrderEvent, OrderUser, OrderStutter DEF Next, Terminated, Aborted

(* It holds initially.                                                        *)
LEMMA OrderInit == Init => OrderInv
  <1> SUFFICES ASSUME Init PROVE OrderInv
    OBVIOUS
  <1>1. wire = <<>> /\ outputBuffer_ = <<>> /\ accepted = <<>> /\ pendingFunctors_ = <<>>
    BY DEF Init
  <1>2. Whole
    BY <1>1 DEF Whole
  <1>3. InOrder /\ TakenSent /\ QueuedLater /\ QueuedInOrder
    BY <1>1 DEF InOrder, TakenSent, QueuedLater, QueuedInOrder
  <1> QED
    BY <1>2, <1>3 DEF OrderInv

(* What sendInLoop() took reaches the socket whole, in the order taken and in *)
(* the order in which its sender called send(), for any number of senders,    *)
(* messages and bytes, in any use.                                            *)
THEOREM BytesInOrder == Spec => []ByteOrder
  <1>1. OrderInv => ByteOrder
    BY DEF OrderInv, Whole, InOrder, Before, ByteOrder
  <1>2. Init => TypeOK /\ OrderInv
    BY TypeInit, OrderInit
  <1>3. TypeOK /\ OrderInv /\ [Next]_vars => (TypeOK /\ OrderInv)'
    BY TypeStep, OrderStep
  <1> QED
    BY <1>1, <1>2, <1>3, PTL DEF Spec

-----------------------------------------------------------------------------
(* What a step may do to the socket. *)

(* A step that shuts the write side of a channel that is read leaves no byte  *)
(* waiting.                                                                   *)
LEMMA ShutEmpty ==
    ASSUME TypeOK, LifeInv, [Next]_vars, reading, writeShut', ~writeShut
    PROVE  outputBuffer_' = <<>>
  <1>0. writeShut' /= writeShut
    OBVIOUS
  <1>1. BytesWatched
    BY DEF LifeInv, LifeRest
  <1>2. CASE RunShutdownInLoop \/ LoopShutdown
    <2>1. ShutdownInLoop /\ outputBuffer_' = outputBuffer_
      BY <1>2 DEF RunShutdownInLoop, LoopShutdown
    <2>2. ~writing
      BY <2>1 DEF ShutdownInLoop
    <2> QED
      BY <1>1, <2>1, <2>2 DEF BytesWatched
  <1>3. CASE HandleWrite
    BY <1>3, WriteEffect
  <1>4. CASE BaseStep
    BY <1>0, <1>4 DEF BaseStep, NewConnection, RemoveConnectionInLoop, DestroyServer, socket
  <1>5. CASE StartBatch \/ RunConnectEstablished \/ RunConnectDestroyed \/ RunUserCallback
             \/ LoopForceClose
    BY <1>0, <1>5 DEF StartBatch, RunConnectEstablished, RunConnectDestroyed, RunUserCallback,
                      LoopForceClose, socket
  <1>6. CASE RunForceCloseInLoop \/ PeerClose
    BY <1>0, <1>6, CloseEffect DEF RunForceCloseInLoop, PeerClose, socket
  <1>7. CASE RunSendInLoop
    BY <1>0, <1>7, RunSendFacts
  <1>8. CASE LoopSend
    BY <1>0, <1>8, LoopSendFacts
  <1>9. CASE \E u \in Users : UserNext(u)
    BY <1>0, <1>9 DEF UserNext, BeginSend, QueueSend, BeginShutdown, BeginForceClose,
                      SetDisconnecting, QueueClose, Release, UserStep, socket
  <1>10. CASE UNCHANGED vars
    BY <1>0, <1>10 DEF vars
  <1> QED
    BY <1>2, <1>3, <1>4, <1>5, <1>6, <1>7, <1>8, <1>9, <1>10
    DEF Next, FunctorStep, EventStep, Terminated, Aborted

(* The write side of an open connection is shut down only after every byte    *)
(* taken so far was written, in any use.                                      *)
THEOREM ShutdownDrained == Spec => ShutdownAfterDrain
  <1> DEFINE I == TypeOK /\ LifeInv /\ OrderInv
             A == reading /\ writeShut' /\ ~writeShut => wire' = accepted'
  <1>1. Init => I
    BY TypeInit, LifeInit, OrderInit
  <1>2. I /\ [Next]_vars => I'
    BY TypeStep, LifeStep, OrderStep
  <1>3. I /\ I' /\ [Next]_vars => A
    <2> SUFFICES ASSUME I, I', [Next]_vars, reading, writeShut', ~writeShut
                 PROVE  wire' = accepted'
      OBVIOUS
    <2>1. outputBuffer_' = <<>>
      BY ShutEmpty
    <2>2. wire' \o outputBuffer_' = accepted' /\ wire' \in Seq(Byte)
      BY DEF OrderInv, Whole, TypeOK
    <2>3. wire' \o <<>> = wire'
      BY <2>2
    <2> QED
      BY <2>1, <2>2, <2>3
  <1>4. I /\ I' /\ [Next]_vars => [A]_vars
    BY <1>3
  <1>5. I /\ [Next]_vars => [A]_vars
    BY <1>2, <1>4
  <1> QED
    BY <1>1, <1>2, <1>5, PTL DEF Spec, ShutdownAfterDrain

(* sendInLoop() signals what it has to.                                       *)
LEMMA SendSignals ==
    ASSUME TypeOK, NEW data \in Seq(Byte), NEW rest \in Seq(Functor), data /= <<>>,
           SendInLoop(data, rest)
    PROVE  /\ Len(outputBuffer_) < HighWaterMark /\ Len(outputBuffer_') >= HighWaterMark
                => pendingFunctors_' = Append(rest, F("highWaterMark"))
           /\ wire' /= wire /\ outputBuffer_' = <<>>
                => pendingFunctors_' = Append(rest, F("writeComplete"))
  <1> DEFINE h == HighWaterMark
  <1>0. /\ outputBuffer_ \in Seq(Byte) /\ Len(outputBuffer_) \in Nat /\ h \in Nat /\ Len(data) \in Nat
        /\ Len(data) /= 0
    BY TcpConnectionAssumption DEF TypeOK
  <1>1. ASSUME NEW d \in Seq(Byte), AppendRest(d, rest), d /= <<>>
        PROVE  /\ Len(outputBuffer_) < h /\ Len(outputBuffer_') >= h
                    => pendingFunctors_' = Append(rest, F("highWaterMark"))
               /\ outputBuffer_' /= <<>>
    <2>1. /\ outputBuffer_' = outputBuffer_ \o d
          /\ pendingFunctors_' = IF CrossesMark(d) THEN Append(rest, F("highWaterMark")) ELSE rest
      BY <1>1 DEF AppendRest
    <2>2. Len(outputBuffer_ \o d) = Len(outputBuffer_) + Len(d) /\ Len(d) \in Nat /\ Len(d) /= 0
      BY <1>0, <1>1
    <2>3. outputBuffer_' /= <<>>
      <3>1. Len(outputBuffer_') > 0
        BY <1>0, <2>1, <2>2
      <3> QED
        BY <3>1
    <2>4. Len(outputBuffer_) < h /\ Len(outputBuffer_') >= h => CrossesMark(d)
      BY <2>1, <2>2 DEF CrossesMark
    <2> QED
      BY <2>1, <2>3, <2>4
  <1>2. outputBuffer_' = outputBuffer_ => ~(Len(outputBuffer_) < h /\ Len(outputBuffer_') >= h)
    BY <1>0
  <1> HIDE DEF h
  <1>3. CASE SendDropped(rest)
    BY <1>2, <1>3 DEF SendDropped, socket, h
  <1>4. CASE SendBuffered(data, rest)
    BY <1>1, <1>4 DEF SendBuffered, h
  <1>5. CASE SendDirect(data, rest)
    <2>1. CASE wire' = wire /\ outputBuffer_' = outputBuffer_
      BY <1>2, <2>1 DEF h
    <2>2. CASE wire' = wire /\ AppendRest(data, rest)
      BY <1>1, <2>2 DEF h
    <2>3. ASSUME NEW n \in 0..Len(data),
                 IF n = Len(data)
                 THEN /\ pendingFunctors_' = Append(rest, F("writeComplete"))
                      /\ UNCHANGED <<outputBuffer_, writing>>
                 ELSE AppendRest(SubSeq(data, n + 1, Len(data)), rest)
          PROVE  /\ Len(outputBuffer_) < h /\ Len(outputBuffer_') >= h
                      => pendingFunctors_' = Append(rest, F("highWaterMark"))
                 /\ outputBuffer_' = <<>> => pendingFunctors_' = Append(rest, F("writeComplete"))
      <3>1. CASE n = Len(data)
        BY <1>2, <2>3, <3>1
      <3>2. CASE n /= Len(data)
        <4> DEFINE b == SubSeq(data, n + 1, Len(data))
        <4>1. b \in Seq(Byte) /\ Len(b) = Len(data) - n /\ AppendRest(b, rest)
          BY <2>3, <3>2, Split
        <4> HIDE DEF b
        <4>2. Len(b) /= 0
          BY <1>0, <3>2, <4>1
        <4>3. b /= <<>>
          BY <4>2
        <4> QED
          BY <1>1, <4>1, <4>3
      <3> QED
        BY <3>1, <3>2
    <2> QED
      BY <1>5, <2>1, <2>2, <2>3 DEF SendDirect, Fails, h
  <1> QED
    BY <1>3, <1>4, <1>5 DEF SendInLoop, h

(* The functor that was queued last.                                          *)
LEMMA LastQueued ==
    ASSUME NEW s \in Seq(Functor), NEW f \in Functor, pendingFunctors_' = Append(s, f)
    PROVE  pendingFunctors_' /= <<>> /\ Last(pendingFunctors_') = f
  BY DEF Last

(* What a step has to signal.                                                 *)
LEMMA SignalStep ==
    ASSUME TypeOK, [Next]_vars
    PROVE  /\ Len(outputBuffer_) < HighWaterMark /\ Len(outputBuffer_') >= HighWaterMark
                => pendingFunctors_' /= <<>> /\ Last(pendingFunctors_') = F("highWaterMark")
           /\ wire' /= wire /\ outputBuffer_' = <<>>
                => pendingFunctors_' /= <<>> /\ Last(pendingFunctors_') = F("writeComplete")
  <1>1. /\ pendingFunctors_ \in Seq(Functor)
        /\ F("highWaterMark") \in Functor /\ F("writeComplete") \in Functor
    BY FType DEF TypeOK
  <1>2. Len(outputBuffer_) \in Nat /\ HighWaterMark \in Nat
    BY TcpConnectionAssumption DEF TypeOK
  <1>3. ASSUME NEW data \in Seq(Byte), NEW rest \in Seq(Functor), data /= <<>>, SendInLoop(data, rest)
        PROVE  /\ Len(outputBuffer_) < HighWaterMark /\ Len(outputBuffer_') >= HighWaterMark
                    => pendingFunctors_' /= <<>> /\ Last(pendingFunctors_') = F("highWaterMark")
               /\ wire' /= wire /\ outputBuffer_' = <<>>
                    => pendingFunctors_' /= <<>> /\ Last(pendingFunctors_') = F("writeComplete")
    BY <1>1, <1>3, SendSignals, LastQueued
  <1>4. CASE RunSendInLoop
    <2> DEFINE f == Head(pendingFunctors_)
               data == Message(f.by, f.msg)
    <2>1. SendInLoop(data, Others) /\ RunFunctor("sendInLoop")
      BY <1>4 DEF RunSendInLoop
    <2>2. f.by \in Senders /\ f.msg \in Nat /\ Others \in Seq(Functor)
      BY <2>1, RunFunctorFacts DEF Functor
    <2>3. data \in Seq(Byte) /\ data /= <<>>
      BY <2>2, MessageType, TcpConnectionAssumption
    <2> HIDE DEF data
    <2> QED
      BY <1>3, <2>1, <2>2, <2>3
  <1>5. CASE LoopSend
    <2> DEFINE data == Message(IO, sent[IO] + 1)
    <2>1. SendInLoop(data, pendingFunctors_)
      BY <1>5 DEF LoopSend
    <2>2. IO \in Senders /\ sent[IO] + 1 \in Nat
      BY DEF TypeOK, Senders
    <2>3. data \in Seq(Byte) /\ data /= <<>>
      BY <2>2, MessageType, TcpConnectionAssumption
    <2> HIDE DEF data
    <2> QED
      BY <1>1, <1>3, <2>1, <2>3
  <1>6. CASE HandleWrite
    <2>1. Len(outputBuffer_') < Len(outputBuffer_) /\ outputBuffer_' \in Seq(Byte)
          /\ (outputBuffer_' = <<>> => pendingFunctors_' = Append(pendingFunctors_, F("writeComplete")))
      BY <1>6, WriteEffect
    <2>2. Len(outputBuffer_') \in Nat
      BY <2>1
    <2>3. ~(Len(outputBuffer_) < HighWaterMark /\ Len(outputBuffer_') >= HighWaterMark)
      BY <1>2, <2>1, <2>2
    <2> QED
      BY <1>1, <2>1, <2>3, LastQueued
  <1>7. CASE UNCHANGED <<wire, outputBuffer_>>
    BY <1>2, <1>7
  <1>8. ASSUME ~RunSendInLoop, ~LoopSend, ~HandleWrite
        PROVE  UNCHANGED <<wire, outputBuffer_>>
    <2>1. CASE BaseStep
      BY <2>1 DEF BaseStep, NewConnection, RemoveConnectionInLoop, DestroyServer, socket
    <2>2. CASE StartBatch \/ RunConnectEstablished \/ RunShutdownInLoop \/ RunConnectDestroyed
               \/ RunUserCallback \/ LoopShutdown \/ LoopForceClose
      BY <2>2 DEF StartBatch, RunConnectEstablished, RunShutdownInLoop, RunConnectDestroyed,
                  RunUserCallback, LoopShutdown, LoopForceClose, socket
    <2>3. CASE RunForceCloseInLoop \/ PeerClose
      BY <2>3, CloseEffect DEF RunForceCloseInLoop, PeerClose, socket
    <2>4. CASE \E u \in Users : UserNext(u)
      BY <2>4 DEF UserNext, BeginSend, QueueSend, BeginShutdown, BeginForceClose,
                  SetDisconnecting, QueueClose, Release, UserStep, socket
    <2>5. CASE UNCHANGED vars
      BY <2>5 DEF vars
    <2> QED
      BY <1>8, <2>1, <2>2, <2>3, <2>4, <2>5 DEF Next, FunctorStep, EventStep, Terminated, Aborted
  <1> QED
    BY <1>4, <1>5, <1>6, <1>7, <1>8

(* The application learns of every crossing of the high water mark, and of    *)
(* every moment the last waiting byte was written, in any use.                *)
THEOREM SignalsQueued == Spec => CallbacksSignalled
  BY TypeInit, TypeStep, SignalStep, PTL DEF Spec, CallbacksSignalled

-----------------------------------------------------------------------------
(* The phases of a connection in orderly use. *)

(* What moving functors does to connectDestroyed() in the queue.              *)
LEMMA DestroyMoves ==
    ASSUME TypeOK, DestroyedOnce, NEW d, NEW new, Moves(d, new),
           (\E f \in new : f.op = "connectDestroyed") => ~Destroying
    PROVE  /\ DestroyedOnce'
           /\ (\A f \in new : f.op /= "connectDestroyed") =>
                /\ ~Destroying => ~Destroying'
                /\ Destroying /\ (d = 0 \/ pendingFunctors_[1].op /= "connectDestroyed") => Destroying'
                /\ d = 1 /\ pendingFunctors_[1].op = "connectDestroyed" => ~Destroying'
           /\ new /= {} /\ (\A f \in new : f.op = "connectDestroyed") => Destroying'
  <1> DEFINE q == pendingFunctors_
             m == Len(pendingFunctors_)
             k == Len(pendingFunctors_')
             D(f) == f.op = "connectDestroyed"
  <1>1. /\ d \in {0, 1} /\ m \in Nat /\ k \in Nat
        /\ \A i \in 1..k : \/ i + d \in 1..m /\ q'[i] = q[i + d]
                           \/ i = k /\ q'[i] \in new
    BY MovesFrom
  <1>2. /\ d <= m /\ k = m - d + (IF new = {} THEN 0 ELSE 1)
        /\ \A i \in 1..(m - d) : q'[i] = q[i + d]
        /\ new /= {} => q'[k] \in new
    BY DEF Moves
  <1>3. \A i, j \in 1..m : D(q[i]) /\ D(q[j]) => i = j
    BY DEF DestroyedOnce
  <1>4. Destroying <=> \E i \in 1..m : D(q[i])
    BY DEF Destroying
  <1>5. Destroying' <=> \E i \in 1..k : D(q'[i])
    BY DEF Destroying
  <1>6. (\E f \in new : D(f)) => ~Destroying
    OBVIOUS
  <1> HIDE DEF q, m, k, D
  <1>7. ASSUME NEW i \in 1..k, NEW j \in 1..k, D(q'[i]), D(q'[j])
        PROVE  i = j
    <2>1. CASE \E f \in new : D(f)
      <3>1. \A x \in 1..m : ~D(q[x])
        BY <1>4, <1>6, <2>1
      <3> QED
        BY <1>1, <1>7, <3>1
    <2>2. CASE ~\E f \in new : D(f)
      <3>1. i + d \in 1..m /\ D(q[i + d]) /\ j + d \in 1..m /\ D(q[j + d])
        BY <1>1, <1>7, <2>2
      <3>2. i + d = j + d
        BY <1>3, <3>1
      <3> QED
        BY <1>1, <3>2
    <2> QED
      BY <2>1, <2>2
  <1>8. DestroyedOnce'
    BY <1>7 DEF DestroyedOnce, q, k, D
  <1>9. ASSUME \A f \in new : ~D(f)
        PROVE  /\ ~Destroying => ~Destroying'
               /\ Destroying /\ (d = 0 \/ ~D(q[1])) => Destroying'
               /\ d = 1 /\ D(q[1]) => ~Destroying'
    <2>1. \A i \in 1..k : D(q'[i]) => i + d \in 1..m /\ D(q[i + d])
      BY <1>1, <1>9
    <2>2. ~Destroying => ~Destroying'
      BY <1>4, <1>5, <2>1
    <2>3. ASSUME Destroying, d = 0 \/ ~D(q[1])
          PROVE  Destroying'
      <3>1. PICK i \in 1..m : D(q[i])
        BY <1>4, <2>3
      <3>2. i - d \in 1..(m - d) /\ (i - d) + d = i
        <4>1. CASE d = 0
          BY <1>1, <4>1
        <4>2. CASE d = 1 /\ i /= 1
          BY <1>1, <4>2
        <4> QED
          BY <1>1, <2>3, <3>1, <4>1, <4>2
      <3>3. D(q'[i - d])
        BY <1>2, <3>1, <3>2
      <3>4. i - d \in 1..k
        <4>1. CASE new = {}
          BY <1>1, <1>2, <3>2, <4>1
        <4>2. CASE new /= {}
          BY <1>1, <1>2, <3>2, <4>2
        <4> QED
          BY <4>1, <4>2
      <3> QED
        BY <1>5, <3>3, <3>4
    <2>4. ASSUME d = 1, D(q[1])
          PROVE  ~Destroying'
      <3>1. ASSUME NEW i \in 1..k, D(q'[i])
            PROVE  FALSE
        <4>1. i + 1 \in 1..m /\ D(q[i + 1]) /\ 1 \in 1..m
          BY <1>1, <2>1, <2>4, <3>1
        <4>2. i + 1 = 1
          BY <1>3, <2>4, <4>1
        <4> QED
          BY <1>1, <4>2
      <3> QED
        BY <1>5, <3>1
    <2> QED
      BY <2>2, <2>3, <2>4
  <1>10. ASSUME new /= {}, \A f \in new : D(f)
         PROVE  Destroying'
    <2>1. D(q'[k]) /\ k = m - d + 1
      BY <1>2, <1>10
    <2>2. k \in 1..k
      BY <1>1, <1>2, <2>1
    <2> QED
      BY <1>5, <2>1, <2>2
  <1> QED
    BY <1>8, <1>9, <1>10 DEF D, q

(* Moving functors keeps what is said of the queue's senders.                 *)
LEMMA HoldMoves ==
    ASSUME TypeOK, SendersHold, NEW d, NEW new, Moves(d, new),
           \A f \in new : f.op /= "shutdownInLoop" /\ (IsSend(f) => f.by \in holds'),
           \A i \in 1..Len(pendingFunctors_) :
             IsSend(pendingFunctors_[i]) /\ pendingFunctors_[i].by \in holds
               => pendingFunctors_[i].by \in holds'
    PROVE  SendersHold'
  <1> DEFINE q == pendingFunctors_
             m == Len(pendingFunctors_)
             k == Len(pendingFunctors_')
  <1>1. \A i \in 1..k : \/ i + d \in 1..m /\ q'[i] = q[i + d]
                        \/ i = k /\ q'[i] \in new
    BY MovesFrom
  <1>2. \A i \in 1..m : q[i].op /= "shutdownInLoop" /\ (IsSend(q[i]) => q[i].by \in holds)
    BY DEF SendersHold
  <1>3. \A i \in 1..m : IsSend(q[i]) /\ q[i].by \in holds => q[i].by \in holds'
    OBVIOUS
  <1> HIDE DEF q, m, k
  <1>4. \A i \in 1..k : q'[i].op /= "shutdownInLoop" /\ (IsSend(q'[i]) => q'[i].by \in holds')
    BY <1>1, <1>2, <1>3
  <1> QED
    BY <1>4 DEF SendersHold, IsSend, q, k

(* The base loop's steps keep the phases.                                     *)
LEMMA PhaseBase ==
    ASSUME TypeOK, LifeInv, Orderly, Good, BaseStep
    PROVE  Good'
  <1>1. faults = {} /\ serverAlive /\ OnlySend /\ SendersHold /\ DestroyedOnce /\ Phase
    BY DEF Good
  <1>2. CASE NewConnection
    <2>1. /\ state_ = "kConnecting" /\ ~inMap /\ pendingFunctors_ = <<>>
          /\ inMap' = TRUE /\ UNCHANGED <<removals, serverAlive, upc>>
          /\ sameLoop \in BOOLEAN
      BY <1>2 DEF NewConnection, TypeOK
    <2>2. Fresh /\ removals = 0 /\ downs = 0
      BY <1>1, <2>1 DEF Phase, Fresh, Accepted, Established, Closed, Removed, Gone, Open
    <2>3. \A u \in Users : upc[u] = "out"
      BY <2>1 DEF LifeInv, LifeRest, NobodyHas
    <2>4. OnlySend'
      BY <2>1, <2>3 DEF OnlySend
    <2>5. CASE sameLoop
      <3>1. ConnectEstablished /\ pendingFunctors_' = pendingFunctors_
        BY <1>2, <2>5 DEF NewConnection, queues
      <3>2. /\ state_' = "kConnected" /\ registered' = TRUE /\ downs' = downs /\ faults' = {}
        BY <2>1, <3>1 DEF ConnectEstablished, Fault
      <3>3. SendersHold' /\ DestroyedOnce' /\ ~Destroying'
        BY <2>1, <3>1 DEF SendersHold, DestroyedOnce, Destroying
      <3>4. Established'
        BY <2>1, <2>2, <3>2, <3>3 DEF Established, Open
      <3> QED
        BY <1>1, <2>1, <2>4, <3>2, <3>3, <3>4 DEF Good, Phase
    <2>6. CASE ~sameLoop
      <3>1. UNCHANGED <<state_, registered, downs, faults>>
        BY <1>2, <2>6 DEF NewConnection
      <3>2. Moves(0, {F("connectEstablished")}) /\ F("connectEstablished").op = "connectEstablished"
        BY <1>2, <2>6, BaseMoves, FType
      <3>3. Len(pendingFunctors_') = 1 /\ pendingFunctors_'[1].op = "connectEstablished"
        BY <2>1, <3>2 DEF Moves
      <3>4. SendersHold' /\ DestroyedOnce'
        BY <3>3 DEF SendersHold, DestroyedOnce, IsSend
      <3>5. Accepted'
        BY <2>1, <2>2, <3>1, <3>3 DEF Accepted
      <3> QED
        BY <1>1, <2>1, <2>4, <3>1, <3>4, <3>5 DEF Good, Phase
    <2> QED
      BY <2>1, <2>5, <2>6
  <1>3. CASE RemoveConnectionInLoop
    <2>1. /\ removals > 0 /\ removals' = removals - 1 /\ inMap' = FALSE /\ faults' = EraseFault
          /\ UNCHANGED <<state_, registered, serverAlive, holds, upc, downs>>
      BY <1>3 DEF RemoveConnectionInLoop, users
    <2>2. Closed
      BY <1>1, <2>1 DEF Phase, Fresh, Accepted, Established, Closed, Removed, Gone
    <2>3. faults' = {}
      BY <1>1, <2>1, <2>2 DEF EraseFault, Fault, Closed
    <2>4. Moves(0, {F("connectDestroyed")}) /\ F("connectDestroyed").op = "connectDestroyed"
      BY <1>3, BaseMoves, FType
    <2>5. DestroyedOnce' /\ Destroying'
      BY <1>1, <2>2, <2>4, DestroyMoves DEF Closed
    <2>6. SendersHold'
      BY <1>1, <2>1, <2>4, HoldMoves DEF IsSend
    <2>7. Removed'
      BY <2>1, <2>2, <2>5 DEF Closed, Removed
    <2>8. OnlySend'
      BY <1>1, <2>1 DEF OnlySend
    <2> QED
      BY <1>1, <2>1, <2>3, <2>5, <2>6, <2>7, <2>8 DEF Good, Phase
  <1>4. CASE DestroyServer
    BY <1>4 DEF DestroyServer, Orderly
  <1> QED
    BY <1>2, <1>3, <1>4 DEF BaseStep

(* handleClose() of an established connection.                                *)
LEMMA PhaseClose ==
    ASSUME TypeOK, Good, Established, NEW rest, HandleClose(rest), NEW d \in {0, 1},
           \/ ~sameLoop /\ Moves(d, {})
           \/ sameLoop /\ Moves(d, {F("connectDestroyed")})
    PROVE  Good'
  <1>1. faults = {} /\ serverAlive /\ OnlySend /\ SendersHold /\ DestroyedOnce /\ Phase
    BY DEF Good
  <1>2. state_ \in Open /\ registered /\ inMap /\ removals = 0 /\ downs = 0 /\ ~Destroying
    BY DEF Established
  <1>3. /\ state_' = "kDisconnected" /\ downs' = 1 /\ faults' = {}
        /\ UNCHANGED <<registered, serverAlive, holds, upc>>
        /\ \/ sameLoop /\ inMap' = FALSE /\ removals' = 0
           \/ ~sameLoop /\ removals' = 1 /\ inMap' = inMap
    <2>1. /\ state_' = "kDisconnected" /\ downs' = downs + 1
          /\ UNCHANGED <<registered, serverAlive, holds, upc>>
          /\ \/ sameLoop /\ inMap' = FALSE /\ removals' = removals
             \/ ~sameLoop /\ removals' = removals + 1 /\ inMap' = inMap
          /\ state_ \in Open /\ registered /\ serverAlive /\ inMap => faults' = {}
      BY CloseEffect, Zenon
    <2>2. downs' = 1 /\ (removals' = removals + 1 => removals' = 1)
      BY <1>2, <2>1
    <2> QED
      BY <1>1, <1>2, <2>1, <2>2, Zenon
  <1>4. F("connectDestroyed").op = "connectDestroyed"
    BY FType
  <1>5. SendersHold'
    BY <1>1, <1>3, <1>4, HoldMoves DEF IsSend
  <1>6. OnlySend'
    BY <1>1, <1>3 DEF OnlySend
  <1>7. CASE ~sameLoop
    <2>1. DestroyedOnce' /\ ~Destroying'
      BY <1>1, <1>2, <1>7, DestroyMoves
    <2>2. Closed'
      BY <1>2, <1>3, <1>7, <2>1 DEF Closed
    <2> QED
      BY <1>1, <1>3, <1>5, <1>6, <2>1, <2>2 DEF Good, Phase
  <1>8. CASE sameLoop
    <2>1. DestroyedOnce' /\ Destroying'
      BY <1>1, <1>2, <1>4, <1>8, DestroyMoves
    <2>2. Removed'
      BY <1>2, <1>3, <1>8, <2>1 DEF Removed
    <2> QED
      BY <1>1, <1>3, <1>5, <1>6, <2>1, <2>2 DEF Good, Phase
  <1> QED
    BY <1>7, <1>8

(* A step that leaves the phase as it is.                                     *)
LEMMA PhaseKept ==
    ASSUME TypeOK, Good, NEW d, NEW new, Moves(d, new),
           \A f \in new : f.op \notin {"connectDestroyed", "shutdownInLoop"} /\ (IsSend(f) => f.by \in holds'),
           d = 0 \/ pendingFunctors_[1].op \notin {"connectDestroyed", "connectEstablished"},
           new /= {} => state_ /= "kConnecting",
           \/ state_' = state_
           \/ state_ \in Open /\ state_' \in Open,
           UNCHANGED <<registered, inMap, removals, downs, serverAlive, holds>>, faults' = {},
           OnlySend'
    PROVE  Good'
  <1>1. serverAlive /\ OnlySend /\ SendersHold /\ DestroyedOnce /\ Phase
    BY DEF Good
  <1>2. SendersHold'
    BY <1>1, HoldMoves
  <1>3. DestroyedOnce' /\ Destroying' = Destroying
    <2>1. DestroyedOnce' /\ (Destroying => Destroying') /\ (~Destroying => ~Destroying')
      BY <1>1, DestroyMoves
    <2> QED
      BY <2>1 DEF Destroying
  <1>4. Phase'
    <2>1. CASE Fresh
      <3>1. d = 0 /\ new = {} /\ Len(pendingFunctors_) = 0
        BY <2>1 DEF Fresh, Moves
      <3>2. pendingFunctors_' = <<>>
        BY <3>1 DEF Moves
      <3> QED
        BY <2>1, <3>2 DEF Fresh, Phase, Open
    <2>2. CASE Accepted
      <3>1. new = {} /\ \A i \in 1..Len(pendingFunctors_) : pendingFunctors_[i].op = "connectEstablished"
        BY <2>2 DEF Accepted
      <3>2. \A i \in 1..Len(pendingFunctors_') : pendingFunctors_'[i].op = "connectEstablished"
        BY <3>1, MovesFrom
      <3> QED
        BY <2>2, <3>2 DEF Accepted, Phase, Open
    <2>3. CASE Established
      BY <1>3, <2>3 DEF Established, Phase
    <2>4. CASE Closed
      BY <1>3, <2>4 DEF Closed, Phase, Open
    <2>5. CASE Removed
      BY <1>3, <2>5 DEF Removed, Phase, Open
    <2>6. CASE Gone
      BY <1>3, <2>6 DEF Gone, Phase, Open
    <2> QED
      BY <1>1, <2>1, <2>2, <2>3, <2>4, <2>5, <2>6 DEF Phase
  <1> QED
    BY <1>1, <1>2, <1>3, <1>4 DEF Good

(* The functors of the I/O loop keep the phases.                              *)
LEMMA PhaseFunctor ==
    ASSUME TypeOK, LifeInv, Orderly, Good, FunctorStep
    PROVE  Good'
  <1>1. /\ faults = {} /\ serverAlive /\ OnlySend /\ SendersHold /\ DestroyedOnce /\ Phase
        /\ EstablishedFirst /\ FreshQueue /\ LifeRest
    BY DEF Good, LifeInv
  <1>2. ASSUME UNCHANGED <<upc, holds>>
        PROVE  OnlySend'
    BY <1>1, <1>2 DEF OnlySend
  <1>3. CASE StartBatch
    <2>1. UNCHANGED <<state_, registered, inMap, removals, downs, serverAlive, holds, upc, faults>>
      BY <1>3 DEF StartBatch, owners, users
    <2>2. Moves(0, {})
      BY <1>3, FunctorMoves
    <2> QED
      BY <1>1, <1>2, <2>1, <2>2, PhaseKept
  <1>4. CASE RunConnectEstablished
    <2>1. /\ RunFunctor("connectEstablished") /\ ConnectEstablished
          /\ UNCHANGED <<removals, inMap, serverAlive, upc>>
      BY <1>4 DEF RunConnectEstablished, owners
    <2>2. pendingFunctors_[1].op = "connectEstablished" /\ Len(pendingFunctors_) \in Nat \ {0}
      BY <2>1, RunFunctorFacts
    <2>3. /\ state_ = "kConnecting"
          /\ \A i \in 1..Len(pendingFunctors_) : pendingFunctors_[i].op = "connectEstablished" => i = 1
      BY <1>1, <2>2 DEF EstablishedFirst
    <2>4. pendingFunctors_ /= <<>>
      BY <2>2
    <2>5. Accepted
      BY <1>1, <2>3, <2>4 DEF Phase, Fresh, Established, Closed, Removed, Gone, Open
    <2>6. Len(pendingFunctors_) = 1
      <3>1. \A i \in 1..Len(pendingFunctors_) : i = 1
        BY <2>3, <2>5 DEF Accepted
      <3>2. Len(pendingFunctors_) \in 1..Len(pendingFunctors_)
        BY <2>2
      <3> QED
        BY <3>1, <3>2
    <2>7. Moves(1, {})
      BY <1>4, FunctorMoves
    <2>8. Len(pendingFunctors_') = 0
      BY <2>6, <2>7 DEF Moves
    <2>9. SendersHold' /\ DestroyedOnce' /\ ~Destroying'
      BY <2>8 DEF SendersHold, DestroyedOnce, Destroying
    <2>10. OnlySend'
      BY <1>1, <2>1, <2>3 DEF OnlySend, LifeRest, NobodyHas
    <2>11. state_' = "kConnected" /\ registered' = TRUE /\ faults' = {} /\ downs' = downs
      BY <2>1, <2>3 DEF ConnectEstablished, Fault
    <2>12. Established'
      BY <2>1, <2>5, <2>9, <2>11 DEF Accepted, Established, Open
    <2> QED
      BY <1>1, <2>1, <2>9, <2>10, <2>11, <2>12 DEF Good, Phase
  <1>5. CASE RunSendInLoop
    <2>1. /\ pendingFunctors_[1].op = "sendInLoop" /\ 1 \in 1..Len(pendingFunctors_)
          /\ UNCHANGED <<state_, registered, inMap, removals, downs, serverAlive, holds, upc>>
          /\ faults' = FreedFault \cup EnableFault
          /\ writing' = writing \/ state_ /= "kDisconnected"
      <3>1. Len(pendingFunctors_) \in Nat
        BY DEF TypeOK
      <3> QED
        BY <1>5, <3>1, RunSendFacts
    <2>2. holds /= {} /\ state_ /= "kConnecting"
      BY <1>1, <2>1 DEF SendersHold, IsSend, FreshQueue
    <2>3. FreedFault = {}
      BY <2>2 DEF FreedFault, Held, Fault
    <2>4. registered \/ state_ = "kDisconnected"
      BY <1>1, <2>2 DEF Phase, Fresh, Accepted, Established, Closed, Removed, Gone
    <2>5. EnableFault = {}
      BY <2>1, <2>4 DEF EnableFault, Fault
    <2>6. PICK new \in SUBSET Callbacks : Moves(1, new)
      BY <1>5, FunctorMoves
    <2>7. \A f \in new : f.op \notin {"connectDestroyed", "shutdownInLoop"} /\ ~IsSend(f)
      BY <2>6 DEF Callbacks, F, IsSend
    <2>8. faults' = {}
      BY <2>1, <2>3, <2>5
    <2> QED
      BY <1>1, <1>2, <2>1, <2>2, <2>6, <2>7, <2>8, PhaseKept
  <1>6. CASE RunShutdownInLoop
    <2>1. pendingFunctors_[1].op = "shutdownInLoop" /\ Len(pendingFunctors_) \in Nat \ {0}
      BY <1>6, RunFunctorFacts DEF RunShutdownInLoop
    <2> QED
      BY <1>1, <2>1 DEF SendersHold
  <1>7. CASE RunForceCloseInLoop
    <2>1. RunFunctor("forceCloseInLoop") /\ pendingFunctors_[1].op = "forceCloseInLoop"
      BY <1>7, RunFunctorFacts DEF RunForceCloseInLoop
    <2>2. CASE state_ \in Open
      <3>1. HandleClose(Others)
        BY <1>7, <2>2 DEF RunForceCloseInLoop, Open
      <3>2. Established
        BY <1>1, <2>2 DEF Phase, Fresh, Accepted, Closed, Removed, Gone, Open
      <3>3. \/ ~sameLoop /\ Moves(1, {})
            \/ sameLoop /\ Moves(1, {F("connectDestroyed")})
        BY <1>7, <2>2, FunctorMoves
      <3> QED
        BY <3>1, <3>2, <3>3, PhaseClose
    <2>3. CASE state_ \notin Open
      <3>1. UNCHANGED <<state_, registered, inMap, removals, downs, serverAlive, holds, upc, faults>>
        BY <1>7, <2>3 DEF RunForceCloseInLoop, Open, owners, users
      <3>2. Moves(1, {})
        BY <1>7, <2>3, FunctorMoves
      <3> QED
        BY <1>1, <1>2, <2>1, <3>1, <3>2, PhaseKept
    <2> QED
      BY <2>2, <2>3
  <1>8. CASE RunConnectDestroyed
    <2>1. RunFunctor("connectDestroyed") /\ ConnectDestroyed
          /\ UNCHANGED <<removals, inMap, serverAlive, upc, holds>>
      BY <1>8 DEF RunConnectDestroyed, owners, users
    <2>2. pendingFunctors_[1].op = "connectDestroyed" /\ Len(pendingFunctors_) \in Nat \ {0}
      BY <2>1, RunFunctorFacts
    <2>3. Destroying /\ 1 \in 1..Len(pendingFunctors_)
      BY <2>2 DEF Destroying
    <2>4. pendingFunctors_ /= <<>>
      BY <2>2
    <2>5. Removed
      BY <1>1, <2>2, <2>3, <2>4 DEF Phase, Fresh, Accepted, Established, Closed, Gone
    <2>6. reading = FALSE /\ writing = FALSE
      BY <1>1, <2>5 DEF Removed, LifeRest, InterestOpen, Open, TypeOK
    <2>7. UNCHANGED <<state_, downs>> /\ registered' = FALSE /\ faults' = {}
      BY <2>1, <2>5, <2>6 DEF Removed, ConnectDestroyed, Fault
    <2>8. Moves(1, {})
      BY <1>8, FunctorMoves
    <2>9. DestroyedOnce' /\ ~Destroying'
      BY <1>1, <2>2, <2>8, DestroyMoves
    <2>10. SendersHold'
      BY <1>1, <2>1, <2>8, HoldMoves
    <2>11. Gone'
      BY <2>1, <2>5, <2>7, <2>9 DEF Removed, Gone
    <2> QED
      BY <1>1, <1>2, <2>1, <2>7, <2>9, <2>10, <2>11 DEF Good, Phase
  <1>9. CASE RunUserCallback
    <2>1. UNCHANGED <<state_, registered, inMap, removals, downs, serverAlive, holds, upc, faults>>
      BY <1>9 DEF RunUserCallback, owners, users
    <2>2. pendingFunctors_[1].op \in {"writeComplete", "highWaterMark"}
      BY <1>9, RunFunctorFacts DEF RunUserCallback
    <2>3. Moves(1, {})
      BY <1>9, FunctorMoves
    <2> QED
      BY <1>1, <1>2, <2>1, <2>2, <2>3, PhaseKept
  <1> QED
    BY <1>3, <1>4, <1>5, <1>6, <1>7, <1>8, <1>9 DEF FunctorStep

(* The events of the channel and the calls of callbacks keep the phases.      *)
LEMMA PhaseEvent ==
    ASSUME TypeOK, LifeInv, Orderly, Good, EventStep
    PROVE  Good'
  <1>1. /\ faults = {} /\ serverAlive /\ OnlySend /\ SendersHold /\ DestroyedOnce /\ Phase
        /\ LifeRest
    BY DEF Good, LifeInv
  <1>2. ASSUME UNCHANGED <<upc, holds>>
        PROVE  OnlySend'
    BY <1>1, <1>2 DEF OnlySend
  <1>3. state_ \in Open => Established
    BY <1>1 DEF Phase, Fresh, Accepted, Closed, Removed, Gone, Open
  <1>4. \A new \in SUBSET Callbacks : \A f \in new :
          f.op \notin {"connectDestroyed", "shutdownInLoop"} /\ ~IsSend(f)
    BY DEF Callbacks, F, IsSend
  <1>5. CASE PeerClose
    <2>1. HandleClose(pendingFunctors_) /\ (reading \/ writing)
      BY <1>5 DEF PeerClose
    <2>2. Established
      BY <1>1, <1>3, <2>1 DEF LifeRest, InterestOpen
    <2>3. \/ ~sameLoop /\ Moves(0, {})
          \/ sameLoop /\ Moves(0, {F("connectDestroyed")})
      BY <1>5, EventMoves
    <2> QED
      BY <2>1, <2>2, <2>3, PhaseClose
  <1>6. CASE HandleWrite
    <2>1. /\ UNCHANGED <<state_, registered, inMap, removals, downs, serverAlive, holds, upc, faults>>
          /\ writing
      BY <1>6, WriteEffect
    <2>2. state_ /= "kConnecting"
      BY <1>1, <2>1 DEF LifeRest, InterestOpen, Open
    <2>3. PICK new \in SUBSET Callbacks : Moves(0, new)
      BY <1>6, EventMoves
    <2> QED
      BY <1>1, <1>2, <1>4, <2>1, <2>2, <2>3, PhaseKept
  <1>7. CASE LoopSend
    <2>1. /\ UNCHANGED <<state_, registered, inMap, removals, downs, serverAlive, holds, upc>>
          /\ state_ = "kConnected" /\ faults' = EnableFault
      BY <1>7, LoopSendFacts
    <2>2. registered
      BY <1>3, <2>1 DEF Open, Established
    <2>3. faults' = {}
      BY <2>1, <2>2 DEF EnableFault, Fault
    <2>4. PICK new \in SUBSET Callbacks : Moves(0, new)
      BY <1>7, EventMoves
    <2> QED
      BY <1>1, <1>2, <1>4, <2>1, <2>3, <2>4, PhaseKept
  <1>8. CASE LoopShutdown
    <2>1. /\ UNCHANGED <<registered, inMap, removals, downs, serverAlive, holds, upc, faults>>
          /\ state_ \in Open /\ state_' \in Open
      BY <1>8 DEF LoopShutdown, owners, users, Open
    <2>2. Moves(0, {})
      BY <1>8, EventMoves
    <2> QED
      BY <1>1, <1>2, <2>1, <2>2, PhaseKept
  <1>9. CASE LoopForceClose
    <2>1. /\ UNCHANGED <<registered, inMap, removals, downs, serverAlive, holds, upc, faults>>
          /\ state_ \in Open /\ state_' \in Open
      BY <1>9 DEF LoopForceClose, owners, Open
    <2>2. Moves(0, {F("forceCloseInLoop")}) /\ F("forceCloseInLoop").op = "forceCloseInLoop"
      BY <1>9, EventMoves, FType
    <2>3. state_ /= "kConnecting"
      BY <2>1 DEF Open
    <2> QED
      BY <1>1, <1>2, <2>1, <2>2, <2>3, PhaseKept DEF IsSend
  <1> QED
    BY <1>5, <1>6, <1>7, <1>8, <1>9 DEF EventStep

(* So do application threads, which only send;                                *)
LEMMA PhaseUser ==
    ASSUME TypeOK, LifeInv, Orderly, Good, NEW u \in Users, UserNext(u)
    PROVE  Good'
  <1>1. /\ faults = {} /\ serverAlive /\ OnlySend /\ SendersHold /\ DestroyedOnce /\ Phase
        /\ LifeRest
    BY DEF Good, LifeInv
  <1>2. ASSUME UserStep
        PROVE  UNCHANGED <<registered, inMap, removals, downs, serverAlive, faults>>
    BY <1>2 DEF UserStep, owners
  <1>3. upc[u] \in {"out", "send"} /\ upc \in [Users -> {"out", "send", "shutdown", "forceClose",
                                                         "shutdownQueue", "forceCloseQueue"}]
    BY <1>1 DEF OnlySend, TypeOK
  <1>4. ~BeginShutdown(u) /\ ~BeginForceClose(u) /\ ~SetDisconnecting(u) /\ ~QueueClose(u)
    BY <1>3 DEF Orderly, BeginShutdown, BeginForceClose, SetDisconnecting, QueueClose
  <1>5. CASE BeginSend(u)
    <2>1. /\ UNCHANGED <<registered, inMap, removals, downs, serverAlive, faults, state_, holds>>
          /\ u \in holds /\ upc' = [upc EXCEPT ![u] = "send"]
      BY <1>2, <1>5 DEF BeginSend
    <2>2. OnlySend'
      BY <1>1, <1>3, <2>1 DEF OnlySend
    <2>3. Moves(0, {})
      BY <1>5, UserMoves
    <2> QED
      BY <1>1, <2>1, <2>2, <2>3, PhaseKept
  <1>6. CASE QueueSend(u)
    <2>1. /\ UNCHANGED <<registered, inMap, removals, downs, serverAlive, faults, state_, holds>>
          /\ upc[u] = "send" /\ upc' = [upc EXCEPT ![u] = "out"]
      BY <1>2, <1>6 DEF QueueSend
    <2>2. OnlySend'
      BY <1>1, <1>3, <2>1 DEF OnlySend
    <2>3. Moves(0, {SendFunctor(u)}) /\ SendFunctor(u).op = "sendInLoop" /\ SendFunctor(u).by = u
      BY <1>6, UserMoves DEF SendFunctor
    <2>4. state_ /= "kConnecting" /\ u \in holds'
      BY <1>1, <2>1 DEF LifeRest, NobodyHas, OnlySend
    <2> QED
      BY <1>1, <2>1, <2>2, <2>3, <2>4, PhaseKept
  <1>7. CASE Release(u)
    <2>1. /\ UNCHANGED <<registered, inMap, removals, downs, serverAlive, faults, state_, upc,
                         pendingFunctors_>>
          /\ upc[u] = "out" /\ holds' = holds \ {u}
          /\ \A i \in 1..Len(pendingFunctors_) : pendingFunctors_[i].by /= u
      BY <1>2, <1>7 DEF Release, Orderly
    <2>2. OnlySend'
      BY <1>1, <2>1 DEF OnlySend
    <2>3. SendersHold'
      BY <1>1, <2>1 DEF SendersHold, IsSend
    <2>4. DestroyedOnce' /\ Phase'
      BY <1>1, <2>1 DEF DestroyedOnce, Phase, Fresh, Accepted, Established, Closed, Removed, Gone,
                        Destroying
    <2> QED
      BY <1>1, <2>1, <2>2, <2>3, <2>4 DEF Good
  <1> QED
    BY <1>4, <1>5, <1>6, <1>7 DEF UserNext

(* and a step that changes nothing.                                           *)
LEMMA PhaseStutter ==
    ASSUME Good, UNCHANGED vars
    PROVE  Good'
  BY DEF vars, Good, OnlySend, SendersHold, IsSend, DestroyedOnce, Phase, Fresh, Accepted,
         Established, Closed, Removed, Gone, Destroying

(* No step changes how the connection is used.                                *)
LEMMA UseKept ==
    ASSUME TypeOK, [Next]_vars
    PROVE  use' = use
  <1>1. ASSUME BaseStep
        PROVE  use' = use
    BY <1>1 DEF BaseStep, NewConnection, RemoveConnectionInLoop, DestroyServer, config
  <1>2. ASSUME FunctorStep
        PROVE  use' = use
    BY <1>2 DEF FunctorStep, StartBatch, RunConnectEstablished, RunSendInLoop, RunShutdownInLoop,
                RunForceCloseInLoop, RunConnectDestroyed, RunUserCallback, RunFunctor, config
  <1>3. ASSUME EventStep
        PROVE  use' = use
    BY <1>3 DEF EventStep, PeerClose, HandleWrite, LoopSend, LoopShutdown, LoopForceClose, config
  <1>4. ASSUME NEW u \in Users, UserNext(u)
        PROVE  use' = use
    BY <1>4 DEF UserNext, BeginSend, QueueSend, BeginShutdown, BeginForceClose, SetDisconnecting,
                QueueClose, Release, UserStep, config
  <1> QED
    BY <1>1, <1>2, <1>3, <1>4 DEF Next, Terminated, Aborted, vars

(* The phases are an invariant.                                               *)
LEMMA PhaseStep == TypeOK /\ LifeInv /\ PhaseInv /\ [Next]_vars => PhaseInv'
  <1> SUFFICES ASSUME TypeOK, LifeInv, PhaseInv, [Next]_vars, Orderly'
               PROVE  Good'
    BY DEF PhaseInv
  <1>1. Orderly
    BY UseKept DEF Orderly
  <1>2. Good
    BY <1>1 DEF PhaseInv
  <1> QED
    BY <1>1, <1>2, PhaseBase, PhaseFunctor, PhaseEvent, PhaseUser, PhaseStutter
       DEF Next, Terminated, Aborted

(* They hold before the connection is accepted.                               *)
LEMMA PhaseInit == Init => PhaseInv
  <1> SUFFICES ASSUME Init
               PROVE  Good
    BY DEF PhaseInv
  <1>1. OnlySend
    BY DEF Init, OnlySend
  <1>2. SendersHold /\ DestroyedOnce
    BY DEF Init, SendersHold, DestroyedOnce
  <1>3. Fresh
    BY DEF Init, Fresh
  <1> QED
    BY <1>1, <1>2, <1>3 DEF Init, Good, Phase

(* Orderly use trips no assert of TcpConnection, TcpServer, Channel or the    *)
(* poller and uses nothing deleted; and in any use connectEstablished() only  *)
(* meets kConnecting and handleClose() only an open connection.               *)
THEOREM AssertsNeverFail == Spec => []ConnectionAsserts
  <1>1. LifeInv /\ PhaseInv => ConnectionAsserts
    BY DEF ConnectionAsserts, LifeInv, LifeRest, NoStateFault, PhaseInv, Good
  <1> QED
    BY <1>1, TypeInit, TypeStep, LifeInit, LifeStep, PhaseInit, PhaseStep, PTL DEF Spec

(* In orderly use, when the last pointer to the connection goes, it is        *)
(* disconnected, the poller has forgotten its channel, and the application    *)
(* was told of the close exactly once.                                        *)
THEOREM DestroyedCleanly == Spec => []OrderlyDestroyed
  <1>1. TypeOK /\ PhaseInv => OrderlyDestroyed
    <2> SUFFICES ASSUME TypeOK, PhaseInv, Orderly
                 PROVE  /\ downs <= 1
                        /\ Deleted => state_ = "kDisconnected" /\ ~registered /\ downs = 1
      BY DEF OrderlyDestroyed
    <2>1. Phase
      BY DEF PhaseInv, Good
    <2>2. downs \in {0, 1}
      BY <2>1 DEF Phase, Fresh, Accepted, Established, Closed, Removed, Gone
    <2>3. ASSUME Deleted
          PROVE  Gone
      <3>1. /\ state_ /= "kConnecting" /\ ~inMap
            /\ \A i \in 1..Len(pendingFunctors_) : ~Shared(pendingFunctors_[i])
        BY <2>3 DEF Deleted, Held
      <3>2. ~Destroying
        BY <3>1 DEF Destroying, Shared
      <3> QED
        BY <2>1, <3>1, <3>2 DEF Phase, Fresh, Accepted, Established, Closed, Removed
    <2> QED
      BY <2>2, <2>3 DEF Gone
  <1> QED
    BY <1>1, TypeInit, TypeStep, LifeInit, LifeStep, PhaseInit, PhaseStep, PTL DEF Spec
=============================================================================
