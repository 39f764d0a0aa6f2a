-------------------------- MODULE TimerQueueProofs --------------------------
(***************************************************************************)
(* Proofs about TimerQueue, for any set of addresses, delays and intervals *)
(* and any units of time: the two sets of timers and the heap agree, the   *)
(* alarm is never late, and, as long as a TimerId reaches the loop thread  *)
(* only after its timer was added, a cancelled timer stays out.            *)
(***************************************************************************)
EXTENDS TimerQueue, WellFoundedInduction, TLAPS

Ids == Addr \X Nat
Timer == [live : BOOLEAN, exp : Int, interval : Nat, seq : Nat]

TypeOK ==
    /\ heap \in [Addr -> Timer]
    /\ numCreated \in Nat
    /\ timers_ \subseteq Int \X Addr
    /\ activeTimers_ \subseteq Ids
    /\ callingExpiredTimers_ \in BOOLEAN
    /\ cancelingTimers_ \subseteq Ids
    /\ expired \subseteq Int \X Addr /\ toRun \subseteq expired
    /\ readTime \in Nat /\ now \in Nat
    /\ alarm \in Nat \cup {None}
    /\ routines \in Nat /\ tokens \in Nat
    /\ pending \in Seq({"add", "cancel"} \X Ids)
    /\ reading \in Addr \cup {None}
    /\ ids \subseteq Ids /\ added \subseteq Ids /\ cancelled \subseteq Ids

(* The batch lives in handleRead() only, and a queued addTimerInLoop owns   *)
(* its timer alone: it is neither active, nor in the batch, nor queued twice. *)
QueuedInv ==
    /\ ~callingExpiredTimers_ => expired = {}
    /\ \A i \in 1..Len(pending) : pending[i][1] = "add" =>
          /\ pending[i][2] \notin activeTimers_
          /\ \A e \in expired : e[2] # pending[i][2][1]
          /\ \A j \in 1..Len(pending) :
                j # i /\ pending[j][1] = "add" => pending[j][2] # pending[i][2]

(* TimersAgree, address by address. *)
Agree ==
    /\ \A id \in activeTimers_ : id[2] = heap[id[1]].seq /\ heap[id[1]].live
    /\ \A t \in Int, a \in Addr :
          <<t, a>> \in timers_ <=> Id(a) \in activeTimers_ /\ heap[a].exp = t
    /\ \A e \in expired : Id(e[2]) \notin activeTimers_ /\ heap[e[2]].live
    /\ \A i \in 1..Len(pending) : pending[i][1] = "add" =>
          heap[pending[i][2][1]].live /\ Id(pending[i][2][1]) = pending[i][2]

(* timers_, a std::set, has a first element, and so has every part of it.   *)
WellOrdered(ts) == \A S \in SUBSET ts : S # {} => \E e \in S : \A f \in S : e[1] <= f[1]

MemInv == TypeOK /\ Agree /\ QueuedInv /\ WellOrdered(timers_)

-----------------------------------------------------------------------------
(* Sets whose elements are naturals have a least one. *)
LEMMA LeastNatural ==
  ASSUME NEW T \in SUBSET Nat, T # {} PROVE \E m \in T : \A n \in T : m <= n
<1>1. PICK m \in T : \A n \in T : ~(<<n, m>> \in OpToRel(<, Nat))
  BY NatLessThanWellFounded, WFMin
<1>2. ASSUME NEW n \in T PROVE m <= n
  <2>1. ~(n < m)
    BY <1>1 DEF OpToRel
  <2> QED
    BY <2>1
<1> QED
  BY <1>2

(* A set of timers that expire at a natural time is well ordered. *)
LEMMA NaturalOrdered ==
  ASSUME NEW ts, \A e \in ts : e[1] \in Nat PROVE WellOrdered(ts)
<1> SUFFICES ASSUME NEW S \in SUBSET ts, S # {}
             PROVE  \E e \in S : \A f \in S : e[1] <= f[1]
  BY DEF WellOrdered
<1> DEFINE T == {e[1] : e \in S}
<1>1. T \in SUBSET Nat /\ T # {}
  OBVIOUS
<1>2. PICK m \in T : \A n \in T : m <= n
  BY <1>1, LeastNatural
<1>3. PICK e \in S : e[1] = m
  OBVIOUS
<1> QED
  BY <1>2, <1>3

(* A part of a well ordered set is one, ... *)
LEMMA SubsetOrdered ==
  ASSUME NEW A, NEW B, A \subseteq B, WellOrdered(B) PROVE WellOrdered(A)
BY DEF WellOrdered

(* ... and so is the union of two of them. *)
LEMMA UnionOrdered ==
  ASSUME NEW A, NEW B, WellOrdered(A), WellOrdered(B), \A e \in A \cup B : e[1] \in Int
  PROVE  WellOrdered(A \cup B)
<1> SUFFICES ASSUME NEW S \in SUBSET (A \cup B), S # {}
             PROVE  \E e \in S : \A f \in S : e[1] <= f[1]
  BY DEF WellOrdered
<1>1. CASE S \cap A = {}
  <2>1. S \in SUBSET B
    BY <1>1
  <2> QED
    BY <2>1 DEF WellOrdered
<1>2. CASE S \cap B = {}
  <2>1. S \in SUBSET A
    BY <1>2
  <2> QED
    BY <2>1 DEF WellOrdered
<1>3. CASE S \cap A # {} /\ S \cap B # {}
  <2>1. PICK x \in S \cap A : \A f \in S \cap A : x[1] <= f[1]
    BY <1>3 DEF WellOrdered
  <2>2. PICK y \in S \cap B : \A f \in S \cap B : y[1] <= f[1]
    BY <1>3 DEF WellOrdered
  <2>3. CASE x[1] <= y[1]
    BY <2>1, <2>2, <2>3
  <2>4. CASE y[1] <= x[1]
    BY <2>1, <2>2, <2>4
  <2> QED
    BY <2>3, <2>4
<1> QED
  BY <1>1, <1>2, <1>3

(* One more timer leaves a well ordered set. *)
LEMMA InsertOrdered ==
  ASSUME NEW ts, WellOrdered(ts), NEW t \in Int, NEW a, \A e \in ts : e[1] \in Int
  PROVE  WellOrdered(ts \cup {<<t, a>>})
<1>1. WellOrdered({<<t, a>>})
  <2> SUFFICES ASSUME NEW S \in SUBSET {<<t, a>>}, S # {}
               PROVE  \E e \in S : \A f \in S : e[1] <= f[1]
    BY DEF WellOrdered
  <2>1. S = {<<t, a>>}
    OBVIOUS
  <2> QED
    BY <2>1
<1> QED
  BY <1>1, UnionOrdered

(* The first timer is one of them, and none is earlier. *)
LEMMA EarliestFacts ==
  ASSUME NEW ts, WellOrdered(ts), ts # {}
  PROVE  Earliest(ts) \in ts /\ \A f \in ts : Earliest(ts)[1] <= f[1]
<1>1. \E e \in ts : \A f \in ts : e[1] <= f[1]
  BY DEF WellOrdered
<1> QED
  BY <1>1 DEF Earliest

-----------------------------------------------------------------------------
(* resetTimerWin(): the alarm is set for now or later, and at most MinDelay *)
(* or the delay asked for from now, whatever the DWORD cuts off.            *)
LEMMA DueTimeFacts ==
  ASSUME NEW us \in Int
  PROVE  /\ DueTime(us) * Ms \in Nat
         /\ us < MinDelay => DueTime(us) * Ms <= MinDelay
         /\ us >= MinDelay => DueTime(us) * Ms <= us
<1> USE TimerQueueAssumption
<1> DEFINE d == IF us < MinDelay THEN MinDelay ELSE us
           w == d % Word
<1>1. d \in Nat /\ (us < MinDelay => d = MinDelay) /\ (us >= MinDelay => d = us)
  OBVIOUS
<1>2. w \in Nat /\ w <= d
  BY <1>1
<1> HIDE DEF w, d
<1>3. w \div Ms \in Nat /\ (w \div Ms) * Ms <= w
  BY <1>2
<1>4. DueTime(us) = w \div Ms
  BY DEF DueTime, w, d
<1> QED
  BY <1>1, <1>2, <1>3, <1>4

(* resetTimerWin() leaves an alarm. *)
LEMMA AlarmSet ==
  ASSUME now \in Nat, NEW t \in Int, ResetTimer(t) PROVE alarm' \in Nat
BY DueTimeFacts DEF ResetTimer

(* A new TimerQueue is empty. *)
LEMMA InitMem == Init => MemInv
<1> SUFFICES ASSUME Init PROVE MemInv
  OBVIOUS
<1> USE TimerQueueAssumption DEF Init
<1>1. heap \in [Addr -> Timer]
  BY DEF Timer
<1>2. pending \in Seq({"add", "cancel"} \X Ids) /\ Len(pending) = 0
  OBVIOUS
<1>3. TypeOK
  BY <1>1, <1>2 DEF TypeOK
<1>4. Agree
  BY <1>2 DEF Agree
<1>5. QueuedInv
  BY <1>2 DEF QueuedInv
<1>6. WellOrdered(timers_)
  BY DEF WellOrdered
<1> QED
  BY <1>3, <1>4, <1>5, <1>6 DEF MemInv

(* The two forms of the invariant agree. *)
LEMMA AgreeIsTimersAgree == MemInv => TimersAgree
<1> SUFFICES ASSUME MemInv PROVE TimersAgree
  OBVIOUS
<1> USE DEF MemInv
<1>1. \A id \in activeTimers_ : id[1] \in Addr /\ id = Id(id[1]) /\ heap[id[1]].exp \in Int
  BY DEF TypeOK, Agree, Id, Ids, Timer
<1>2. ASSUME NEW e \in timers_
      PROVE  \E id \in activeTimers_ : e = <<heap[id[1]].exp, id[1]>>
  <2>1. e = <<e[1], e[2]>> /\ e[1] \in Int /\ e[2] \in Addr
    BY DEF TypeOK
  <2>2. Id(e[2]) \in activeTimers_ /\ heap[e[2]].exp = e[1]
    BY <2>1 DEF Agree
  <2> QED
    BY <2>1, <2>2 DEF Id
<1>3. ASSUME NEW id \in activeTimers_
      PROVE  <<heap[id[1]].exp, id[1]>> \in timers_
  BY <1>1 DEF Agree
<1>4. timers_ = {<<heap[id[1]].exp, id[1]>> : id \in activeTimers_}
  BY <1>2, <1>3
<1>5. \A e \in timers_ : heap[e[2]].live
  BY <1>1, <1>2 DEF Agree
<1> QED
  BY <1>1, <1>4, <1>5 DEF Agree, TimersAgree

(* What a queued functor is about. *)
LEMMA PendingType ==
  ASSUME TypeOK, NEW j \in 1..Len(pending)
  PROVE  /\ pending[j] \in {"add", "cancel"} \X Ids
         /\ pending[j] = <<pending[j][1], pending[j][2]>>
         /\ pending[j][2] \in Ids
         /\ pending[j][2][1] \in Addr /\ pending[j][2][2] \in Nat
<1>1. pending[j] \in {"add", "cancel"} \X Ids
  BY DEF TypeOK
<1> QED
  BY <1>1 DEF Ids

(* The client's addTimer() takes a free address, so nothing points to it yet. *)
LEMMA ClientAddMem ==
  ASSUME MemInv, NEW a \in Addr, NEW d \in Delays, NEW i \in Intervals, ClientAdd(a, d, i)
  PROVE  MemInv'
<1> DEFINE p == <<"add", <<a, numCreated + 1>>>>
           n == Len(pending)
<1>0. TypeOK /\ Agree /\ QueuedInv
  BY DEF MemInv
<1>1. TypeOK'
  <2>1. heap' \in [Addr -> Timer]
    BY <1>0, TimerQueueAssumption DEF TypeOK, ClientAdd, NewTimer, Timer
  <2>2. pending' \in Seq({"add", "cancel"} \X Ids)
    <3>1. p \in {"add", "cancel"} \X Ids
      BY <1>0 DEF TypeOK, Ids
    <3> QED BY <1>0, <3>1 DEF TypeOK, ClientAdd
  <2> QED
    BY <1>0, <2>1, <2>2 DEF TypeOK, ClientAdd, NewTimer
<1>2. /\ Len(pending') = n + 1 /\ n \in Nat
      /\ pending'[n + 1] = p
      /\ \A j \in 1..n : pending'[j] = pending[j]
      /\ \A j \in 1..n : pending[j] \in {"add", "cancel"} \X Ids
  BY <1>0 DEF TypeOK, ClientAdd
<1>3. /\ heap'[a].live /\ heap'[a].seq = numCreated + 1
      /\ \A b \in Addr : b # a => heap'[b] = heap[b]
  BY <1>0 DEF TypeOK, ClientAdd, NewTimer
<1>4. /\ \A id \in activeTimers_ : id[1] # a
      /\ \A e \in expired : e[2] # a
      /\ \A j \in 1..n : pending[j][1] = "add" => pending[j][2][1] # a
  BY <1>0 DEF Agree, ClientAdd, NewTimer
<1>5. UNCHANGED <<timers_, activeTimers_, expired, callingExpiredTimers_>>
  BY DEF ClientAdd
<1> HIDE DEF n
<1>6. Agree'
  <2>1. \A id \in activeTimers_' : id[2] = heap'[id[1]].seq /\ heap'[id[1]].live
    BY <1>0, <1>3, <1>4, <1>5 DEF Agree, TypeOK, Ids
  <2>2. \A t \in Int, b \in Addr :
          <<t, b>> \in timers_' <=> Id(b)' \in activeTimers_' /\ heap'[b].exp = t
    <3> SUFFICES ASSUME NEW t \in Int, NEW b \in Addr
                 PROVE  <<t, b>> \in timers_' <=> Id(b)' \in activeTimers_' /\ heap'[b].exp = t
      OBVIOUS
    <3>1. CASE b = a
      <4>1. Id(b) \notin activeTimers_ /\ Id(b)' \notin activeTimers_
        BY <1>4, <3>1 DEF Id
      <4> QED
        BY <1>0, <1>5, <4>1 DEF Agree
    <3>2. CASE b # a
      BY <1>0, <1>3, <1>5, <3>2 DEF Agree, Id
    <3> QED
      BY <3>1, <3>2
  <2>3. \A e \in expired' : Id(e[2])' \notin activeTimers_' /\ heap'[e[2]].live
    BY <1>0, <1>3, <1>4, <1>5 DEF Agree, Id, TypeOK
  <2>4. \A j \in 1..Len(pending') : pending'[j][1] = "add" =>
          (heap[pending[j][2][1]].live /\ Id(pending[j][2][1]) = pending[j][2])'
    <3> SUFFICES ASSUME NEW j \in 1..Len(pending'), pending'[j][1] = "add"
                 PROVE  (heap[pending[j][2][1]].live /\ Id(pending[j][2][1]) = pending[j][2])'
      OBVIOUS
    <3>1. CASE j = n + 1
      BY <1>2, <1>3, <3>1 DEF Id
    <3>2. CASE j \in 1..n
      BY <1>0, <1>2, <1>3, <1>4, <3>2 DEF Agree, Id, Ids, n
    <3> QED
      BY <1>2, <3>1, <3>2
  <2> QED
    BY <2>1, <2>2, <2>3, <2>4 DEF Agree
<1>7. QueuedInv'
  <2>1. \A j \in 1..Len(pending') : j \in 1..n \/ j = n + 1
    BY <1>2
  <2>2. ASSUME NEW j \in 1..n, pending[j][1] = "add"
        PROVE  /\ pending[j][2] \notin activeTimers_
               /\ \A e \in expired : e[2] # pending[j][2][1]
               /\ \A l \in 1..n : l # j /\ pending[l][1] = "add" => pending[l][2] # pending[j][2]
    BY <1>0, <2>2 DEF QueuedInv, n
  <2>3. ASSUME NEW j \in 1..Len(pending'), pending'[j][1] = "add"
        PROVE  /\ pending'[j][2] \notin activeTimers_
               /\ \A e \in expired : e[2] # pending'[j][2][1]
    <3>1. CASE j \in 1..n
      BY <1>2, <2>2, <2>3, <3>1
    <3>2. CASE j = n + 1
      <4>1. pending'[j][2][1] = a
        BY <1>2, <3>2
      <4> QED
        BY <1>4, <4>1
    <3> QED
      BY <2>1, <3>1, <3>2
  <2>4. ASSUME NEW j \in 1..Len(pending'), NEW l \in 1..Len(pending'), l # j,
               pending'[j][1] = "add", pending'[l][1] = "add"
        PROVE  pending'[l][2] # pending'[j][2]
    <3>1. CASE j \in 1..n /\ l \in 1..n
      BY <1>2, <2>2, <2>4, <3>1
    <3>2. CASE j = n + 1 /\ l \in 1..n
      <4>1. pending'[j][2][1] = a /\ pending'[l] = pending[l]
        BY <1>2, <3>2
      <4> QED
        BY <1>4, <2>4, <3>2, <4>1
    <3>3. CASE j \in 1..n /\ l = n + 1
      <4>1. pending'[l][2][1] = a /\ pending'[j] = pending[j]
        BY <1>2, <3>3
      <4> QED
        BY <1>4, <2>4, <3>3, <4>1
    <3> QED
      BY <2>1, <2>4, <3>1, <3>2, <3>3
  <2> QED
    BY <1>0, <1>5, <2>3, <2>4 DEF QueuedInv
<1>8. WellOrdered(timers_)'
  BY <1>5 DEF MemInv, WellOrdered
<1> QED
  BY <1>1, <1>6, <1>7, <1>8 DEF MemInv

(* insert() of one timer. *)
LEMMA InsertOne ==
  ASSUME NEW a, NEW t, NEW q, Insert({<<a, t, q>>})
  PROVE  timers_' = timers_ \cup {<<t, a>>} /\ activeTimers_' = activeTimers_ \cup {<<a, q>>}
BY DEF Insert

(* addTimer() on the loop thread, also of an address that is free because a  *)
(* timer of the batch was deleted.                                           *)
LEMMA LoopAddMem ==
  ASSUME MemInv, NEW a \in Addr, NEW d \in Delays, NEW i \in Intervals, LoopAdd(a, d, i)
  PROVE  MemInv'
<1> DEFINE t == now + d
           q == numCreated + 1
<1>0. TypeOK /\ Agree /\ QueuedInv
  BY DEF MemInv
<1>1. t \in Int /\ q \in Nat /\ i \in Nat
  BY <1>0, TimerQueueAssumption DEF TypeOK
<1>2. timers_' = timers_ \cup {<<t, a>>} /\ activeTimers_' = activeTimers_ \cup {<<a, q>>}
  BY InsertOne DEF LoopAdd, AddTimerInLoop
<1>3. heap' = [heap EXCEPT ![a] = [live |-> TRUE, exp |-> t, interval |-> i, seq |-> q]]
  BY DEF LoopAdd, NewTimer
<1>4. /\ ~heap[a].live /\ numCreated' = q
      /\ ids' = ids \cup {<<a, q>>} /\ added' = added \cup {<<a, q>>}
      /\ UNCHANGED <<pending, expired, toRun, callingExpiredTimers_>>
  BY DEF LoopAdd, NewTimer, AddTimerInLoop
<1> HIDE DEF t, q
<1>5. TypeOK'
  <2>1. heap' \in [Addr -> Timer]
    BY <1>0, <1>1, <1>3 DEF TypeOK, Timer
  <2>2. alarm' \in Nat \cup {None}
    BY <1>0, <1>1, AlarmSet DEF TypeOK, LoopAdd, AddTimerInLoop, t
  <2>3. <<a, q>> \in Ids /\ <<t, a>> \in Int \X Addr
    BY <1>1 DEF Ids
  <2> QED
    BY <1>0, <1>1, <1>2, <1>4, <2>1, <2>2, <2>3 DEF TypeOK, LoopAdd
<1>6. /\ heap'[a].live /\ heap'[a].exp = t /\ heap'[a].seq = q
      /\ \A b \in Addr : b # a => heap'[b] = heap[b]
  BY <1>0, <1>3 DEF TypeOK
<1>7. /\ \A id \in activeTimers_ : id[1] # a
      /\ \A e \in expired : e[2] # a
      /\ \A j \in 1..Len(pending) : pending[j][1] = "add" => pending[j][2][1] # a
  BY <1>0, <1>4 DEF Agree
<1>8. Agree'
  <2>1. \A id \in activeTimers_' : id[2] = heap'[id[1]].seq /\ heap'[id[1]].live
    BY <1>0, <1>2, <1>6, <1>7 DEF Agree, TypeOK, Ids
  <2>2. ASSUME NEW u \in Int, NEW b \in Addr
        PROVE  (<<u, b>> \in timers_ <=> Id(b) \in activeTimers_ /\ heap[b].exp = u)'
    <3>1. CASE b = a
      <4>1. Id(a) \notin activeTimers_ /\ <<a, q>> = Id(a)'
        BY <1>6, <1>7 DEF Id
      <4>2. <<u, a>> \notin timers_
        BY <1>0, <4>1 DEF Agree
      <4> QED
        BY <1>2, <1>6, <3>1, <4>1, <4>2
    <3>2. CASE b # a
      <4>1. Id(b)' = Id(b) /\ heap'[b].exp = heap[b].exp
        BY <1>6, <3>2 DEF Id
      <4>2. Id(b) # <<a, q>> /\ <<u, b>> # <<t, a>>
        BY <3>2 DEF Id
      <4> QED
        BY <1>0, <1>2, <4>1, <4>2 DEF Agree
    <3> QED
      BY <3>1, <3>2
  <2>3. \A e \in expired' : (Id(e[2]) \notin activeTimers_ /\ heap[e[2]].live)'
    BY <1>0, <1>2, <1>4, <1>6, <1>7 DEF Agree, Id, TypeOK
  <2>4. \A j \in 1..Len(pending') :
          (pending[j][1] = "add" => heap[pending[j][2][1]].live /\ Id(pending[j][2][1]) = pending[j][2])'
    BY <1>0, <1>4, <1>6, <1>7, PendingType DEF Agree, Id
  <2> QED
    BY <2>1, <2>2, <2>3, <2>4 DEF Agree
<1>9. QueuedInv'
  <2>1. \A j \in 1..Len(pending) : pending[j][1] = "add" => pending[j][2] # <<a, q>>
    BY <1>7
  <2> QED
    BY <1>0, <1>2, <1>4, <2>1 DEF QueuedInv
<1>10. WellOrdered(timers_)'
  BY <1>0, <1>1, <1>2, InsertOrdered DEF MemInv, TypeOK
<1> QED
  BY <1>5, <1>8, <1>9, <1>10 DEF MemInv

(* The queue without its first functor. *)
LEMMA PendingTail ==
  ASSUME TypeOK, pending # <<>>, pending' = Tail(pending)
  PROVE  /\ Len(pending') = Len(pending) - 1 /\ Len(pending) \in Nat \ {0}
         /\ pending' \in Seq({"add", "cancel"} \X Ids)
         /\ \A j \in 1..Len(pending') : pending'[j] = pending[j + 1] /\ j + 1 \in 1..Len(pending)
         /\ Head(pending) = pending[1] /\ pending[1] \in {"add", "cancel"} \X Ids
BY DEF TypeOK

(* A queued addTimerInLoop inserts a timer nobody else has. *)
LEMMA RunPendingAddMem ==
  ASSUME MemInv, RunPendingAdd PROVE MemInv'
<1> DEFINE a == pending[1][2][1]
           t == heap[a].exp
           q == heap[a].seq
<1>0. TypeOK /\ Agree /\ QueuedInv
  BY DEF MemInv
<1>1. pending # <<>> /\ pending' = Tail(pending) /\ pending[1][1] = "add" /\ ~callingExpiredTimers_
  BY <1>0, PendingTail DEF RunPendingAdd
<1>2. a \in Addr /\ t \in Int /\ q \in Nat /\ pending[1][2] = <<a, q>> /\ heap[a].live
  <2>1. 1 \in 1..Len(pending)
    BY <1>0, <1>1, PendingTail
  <2>2. a \in Addr /\ pending[1][2] = Id(a) /\ heap[a].live
    BY <1>0, <1>1, <2>1, PendingType DEF Agree
  <2> QED
    BY <1>0, <2>2 DEF TypeOK, Id, Timer
<1>3. /\ timers_' = timers_ \cup {<<t, a>>} /\ activeTimers_' = activeTimers_ \cup {<<a, q>>}
      /\ added' = added \cup {<<a, q>>}
      /\ IF EarliestChanged(t) THEN ResetTimer(t) ELSE UNCHANGED alarm
  BY <1>0, <1>1, PendingTail, InsertOne DEF RunPendingAdd, AddTimerInLoop
<1>4. UNCHANGED <<heap, expired, toRun, callingExpiredTimers_>> /\ expired = {}
  BY <1>0, <1>1 DEF RunPendingAdd, QueuedInv
<1>5. Id(a) = <<a, q>>
  BY DEF Id
<1> HIDE DEF a, t, q
<1>6. TypeOK'
  <2>1. alarm' \in Nat \cup {None}
    BY <1>0, <1>2, <1>3, AlarmSet DEF TypeOK
  <2>2. <<a, q>> \in Ids /\ <<t, a>> \in Int \X Addr
    BY <1>2 DEF Ids
  <2> QED
    BY <1>0, <1>1, <1>3, <1>4, <2>1, <2>2, PendingTail DEF TypeOK, RunPendingAdd
<1>7. Agree'
  <2>1. \A id \in activeTimers_' : id[2] = heap'[id[1]].seq /\ heap'[id[1]].live
    BY <1>0, <1>2, <1>3, <1>4, <1>5 DEF Agree, Id
  <2>2. ASSUME NEW u \in Int, NEW b \in Addr
        PROVE  (<<u, b>> \in timers_ <=> Id(b) \in activeTimers_ /\ heap[b].exp = u)'
    <3>1. Id(b)' = Id(b)
      BY <1>4 DEF Id
    <3>2. CASE b = a
      <4>1. <<u, a>> \in timers_ => u = t
        BY <1>0, <1>2, <3>2 DEF Agree, t
      <4> QED
        BY <1>3, <1>4, <1>5, <3>1, <3>2, <4>1 DEF t
    <3>3. CASE b # a
      <4>1. Id(b) # <<a, q>> /\ <<u, b>> # <<t, a>>
        BY <3>3 DEF Id
      <4> QED
        BY <1>0, <1>3, <1>4, <3>1, <4>1 DEF Agree
    <3> QED
      BY <3>2, <3>3
  <2>3. \A j \in 1..Len(pending') :
          (pending[j][1] = "add" => heap[pending[j][2][1]].live /\ Id(pending[j][2][1]) = pending[j][2])'
    BY <1>0, <1>1, <1>4, PendingTail DEF Agree, Id
  <2> QED
    BY <1>4, <2>1, <2>2, <2>3 DEF Agree
<1>8. QueuedInv'
  <2>1. \A j \in 1..Len(pending') : pending'[j][1] = "add" =>
           pending'[j][2] # <<a, q>> /\ pending'[j][2] \notin activeTimers_
    <3> SUFFICES ASSUME NEW j \in 1..Len(pending'), pending'[j][1] = "add"
                 PROVE  pending'[j][2] # <<a, q>> /\ pending'[j][2] \notin activeTimers_
      OBVIOUS
    <3>1. /\ j + 1 \in 1..Len(pending) /\ 1 \in 1..Len(pending) /\ j + 1 # 1
          /\ pending'[j] = pending[j + 1]
      BY <1>0, <1>1, PendingTail
    <3> QED
      BY <1>0, <1>1, <1>2, <3>1 DEF QueuedInv
  <2>2. \A j, k \in 1..Len(pending') : j # k /\ pending'[j][1] = "add" /\ pending'[k][1] = "add"
           => pending'[j][2] # pending'[k][2]
    BY <1>0, <1>1, PendingTail DEF QueuedInv
  <2> QED
    BY <1>3, <1>4, <2>1, <2>2 DEF QueuedInv
<1>9. WellOrdered(timers_)'
  BY <1>0, <1>2, <1>3, InsertOrdered DEF MemInv, TypeOK
<1> QED
  BY <1>6, <1>7, <1>8, <1>9 DEF MemInv

(* A deleted timer keeps its sequence number. *)
LEMMA DeletedFacts ==
  ASSUME NEW r \in Timer
  PROVE  /\ Deleted(r) \in Timer
         /\ Deleted(r).seq = r.seq /\ ~Deleted(r).live
<1>1. Deleted(r).seq = r.seq /\ ~Deleted(r).live
  BY DEF Deleted, Timer
<1>2. [r EXCEPT !.live = FALSE] \in Timer
  BY DEF Timer
<1>3. \A t \in Timer : [t EXCEPT !.exp = 0] \in Timer
  BY DEF Timer
<1>4. \A t \in Timer : [t EXCEPT !.interval = 0] \in Timer
  BY DEF Timer
<1> QED
  BY <1>1, <1>2, <1>3, <1>4 DEF Deleted

(* cancelInLoop() deletes a timer only when it is the active one, so neither *)
(* the batch nor the queue has it.                                           *)
LEMMA CancelMem ==
  ASSUME TypeOK, Agree, QueuedInv, NEW id \in Ids, CancelInLoop(id),
         UNCHANGED <<expired, callingExpiredTimers_>>,
         NEW s \in {0, 1}, Len(pending') = Len(pending) - s,
         \A j \in 1..Len(pending') : pending'[j] = pending[j + s] /\ j + s \in 1..Len(pending)
  PROVE  /\ Agree' /\ QueuedInv'
         /\ heap' \in [Addr -> Timer]
         /\ timers_' \subseteq timers_ /\ activeTimers_' \subseteq activeTimers_
         /\ cancelingTimers_' \subseteq Ids /\ cancelled' \subseteq Ids
<1> DEFINE a == id[1]
<1>0. a \in Addr /\ id[2] \in Nat /\ id = <<a, id[2]>>
  BY DEF Ids
<1>1. CASE id \in activeTimers_
  <2>1. /\ timers_' = timers_ \ {<<heap[a].exp, a>>}
        /\ activeTimers_' = activeTimers_ \ {id}
        /\ heap' = [heap EXCEPT ![a] = Deleted(@)]
        /\ UNCHANGED cancelingTimers_ /\ cancelled' = cancelled \cup {id}
    BY <1>1 DEF CancelInLoop
  <2>2. id = Id(a) /\ heap[a].live
    BY <1>0, <1>1 DEF Agree, Id
  <2>3. /\ heap' \in [Addr -> Timer]
        /\ heap'[a].seq = heap[a].seq
        /\ \A b \in Addr : b # a => heap'[b] = heap[b]
    <3>1. heap[a] \in Timer
      BY <1>0 DEF TypeOK
    <3>2. /\ Deleted(heap[a]) \in Timer
          /\ Deleted(heap[a]).seq = heap[a].seq
      BY <3>1, DeletedFacts
    <3>3. heap' = [heap EXCEPT ![a] = Deleted(heap[a])]
      BY <2>1
    <3> HIDE DEF a
    <3> QED
      BY <1>0, <3>2, <3>3 DEF TypeOK
  <2>4. /\ \A e \in expired : e[2] # a
        /\ \A x \in activeTimers_ : x # id => x[1] # a /\ x[1] \in Addr
        /\ \A j \in 1..Len(pending) : pending[j][1] = "add" => pending[j][2][1] # a
    <3>1. \A e \in expired : e[2] # a
      BY <1>1, <2>2 DEF Agree
    <3>2. \A x \in activeTimers_ : x = <<x[1], x[2]>> /\ x[1] \in Addr /\ x[2] = heap[x[1]].seq
      BY DEF Agree, TypeOK, Ids
    <3>3. \A x \in activeTimers_ : x # id => x[1] # a
      BY <2>2, <3>2 DEF Id
    <3>4. \A j \in 1..Len(pending) : pending[j][1] = "add" => pending[j][2][1] # a
      BY <1>1, <2>2 DEF Agree, QueuedInv
    <3> QED
      BY <3>1, <3>2, <3>3, <3>4
  <2> HIDE DEF a
  <2>5. \A x \in activeTimers_' : x[2] = heap'[x[1]].seq /\ heap'[x[1]].live
    BY <2>1, <2>3, <2>4 DEF Agree
  <2>6. ASSUME NEW u \in Int, NEW b \in Addr
        PROVE  (<<u, b>> \in timers_ <=> Id(b) \in activeTimers_ /\ heap[b].exp = u)'
    <3>1. CASE b = a
      <4>1. Id(b)' = id
        BY <2>2, <2>3, <3>1 DEF Id
      <4>2. <<u, a>> \in timers_ => u = heap[a].exp
        BY <3>1 DEF Agree
      <4> QED
        BY <2>1, <3>1, <4>1, <4>2
    <3>2. CASE b # a
      <4>1. Id(b)' = Id(b) /\ Id(b) # id /\ heap'[b].exp = heap[b].exp /\ <<u, b>> # <<heap[a].exp, a>>
        BY <2>2, <2>3, <3>2 DEF Id
      <4> QED
        BY <2>1, <4>1 DEF Agree
    <3> QED
      BY <3>1, <3>2
  <2>7. \A e \in expired' : (Id(e[2]) \notin activeTimers_ /\ heap[e[2]].live)'
    BY <2>1, <2>3, <2>4 DEF Agree, Id, TypeOK
  <2>8. \A j \in 1..Len(pending') :
          (pending[j][1] = "add" => heap[pending[j][2][1]].live /\ Id(pending[j][2][1]) = pending[j][2])'
    <3> SUFFICES ASSUME NEW j \in 1..Len(pending'), pending'[j][1] = "add"
                 PROVE  (heap[pending[j][2][1]].live /\ Id(pending[j][2][1]) = pending[j][2])'
      OBVIOUS
    <3>1. j + s \in 1..Len(pending) /\ pending'[j] = pending[j + s]
      OBVIOUS
    <3>2. pending[j + s][2][1] # a /\ pending[j + s][2][1] \in Addr
      BY <2>4, <3>1, PendingType
    <3> QED
      BY <2>3, <3>1, <3>2 DEF Agree, Id
  <2>9. QueuedInv'
    BY <2>1 DEF QueuedInv
  <2> QED
    BY <2>1, <2>3, <2>5, <2>6, <2>7, <2>8, <2>9 DEF Agree, TypeOK
<1>2. CASE id \notin activeTimers_
  <2>1. /\ UNCHANGED <<timers_, activeTimers_, heap>>
        /\ cancelingTimers_' \subseteq cancelingTimers_ \cup {id}
        /\ cancelled' = cancelled \cup {id}
    BY <1>2 DEF CancelInLoop
  <2>2. \A j \in 1..Len(pending') :
          (pending[j][1] = "add" => heap[pending[j][2][1]].live /\ Id(pending[j][2][1]) = pending[j][2])'
    BY <2>1 DEF Agree, Id
  <2>3. Agree'
    BY <2>1, <2>2 DEF Agree, Id
  <2>4. QueuedInv'
    BY <2>1 DEF QueuedInv
  <2> QED
    BY <2>1, <2>3, <2>4 DEF TypeOK
<1> QED
  BY <1>1, <1>2

(* A queued cancelInLoop. *)
LEMMA RunPendingCancelMem ==
  ASSUME MemInv, RunPendingCancel PROVE MemInv'
<1>0. TypeOK /\ Agree /\ QueuedInv
  BY DEF MemInv
<1>1. pending # <<>> /\ pending' = Tail(pending) /\ CancelInLoop(Head(pending)[2])
  BY DEF RunPendingCancel
<1>2. Head(pending)[2] \in Ids
  BY <1>0, <1>1, PendingTail, PendingType
<1>3. UNCHANGED <<expired, callingExpiredTimers_>>
  BY DEF RunPendingCancel
<1>4. /\ Agree' /\ QueuedInv'
      /\ heap' \in [Addr -> Timer]
      /\ timers_' \subseteq timers_ /\ activeTimers_' \subseteq activeTimers_
      /\ cancelingTimers_' \subseteq Ids /\ cancelled' \subseteq Ids
  BY <1>0, <1>1, <1>2, <1>3, PendingTail, CancelMem
<1>5. pending' \in Seq({"add", "cancel"} \X Ids)
  BY <1>0, <1>1, PendingTail
<1>6. TypeOK'
  BY <1>0, <1>4, <1>5 DEF TypeOK, RunPendingCancel
<1>7. WellOrdered(timers_)'
  BY <1>4, SubsetOrdered DEF MemInv
<1> QED
  BY <1>4, <1>6, <1>7 DEF MemInv

(* cancel() on the loop thread. *)
LEMMA LoopCancelMem ==
  ASSUME MemInv, NEW id \in ids, LoopCancel(id) PROVE MemInv'
<1>0. TypeOK /\ Agree /\ QueuedInv
  BY DEF MemInv
<1>1. CancelInLoop(id) /\ UNCHANGED <<expired, callingExpiredTimers_, pending>> /\ id \in Ids
  BY <1>0 DEF LoopCancel, TypeOK
<1>2. /\ Len(pending') = Len(pending) - 0
      /\ \A j \in 1..Len(pending') : pending'[j] = pending[j + 0] /\ j + 0 \in 1..Len(pending)
  BY <1>0, <1>1 DEF TypeOK
<1>3. /\ Agree' /\ QueuedInv'
      /\ heap' \in [Addr -> Timer]
      /\ timers_' \subseteq timers_ /\ activeTimers_' \subseteq activeTimers_
      /\ cancelingTimers_' \subseteq Ids /\ cancelled' \subseteq Ids
  BY <1>0, <1>1, <1>2, CancelMem
<1>4. TypeOK'
  BY <1>0, <1>3 DEF TypeOK, LoopCancel
<1>5. WellOrdered(timers_)'
  BY <1>3, SubsetOrdered DEF MemInv
<1> QED
  BY <1>3, <1>4, <1>5 DEF MemInv

(* getExpired() moves the timers that are due from both sets to the batch. *)
LEMMA HandleReadMem ==
  ASSUME MemInv, HandleRead PROVE MemInv'
<1>0. TypeOK /\ Agree /\ QueuedInv
  BY DEF MemInv
<1>1. /\ expired' = {e \in timers_ : e[1] <= now}
      /\ timers_' = timers_ \ expired'
      /\ activeTimers_' = activeTimers_ \ {Id(e[2]) : e \in expired'}
      /\ UNCHANGED <<heap, pending>> /\ callingExpiredTimers_' = TRUE
  BY DEF HandleRead, GetExpired
<1>2. ASSUME NEW e \in expired'
      PROVE  /\ e = <<e[1], e[2]>> /\ e[1] \in Int /\ e[2] \in Addr
             /\ Id(e[2]) \in activeTimers_ /\ heap[e[2]].exp = e[1]
             /\ Id(e[2]) \notin activeTimers_' /\ heap[e[2]].live
  <2>1. e \in timers_ /\ e = <<e[1], e[2]>> /\ e[1] \in Int /\ e[2] \in Addr
    BY <1>0, <1>1 DEF TypeOK
  <2>2. Id(e[2]) \in activeTimers_ /\ heap[e[2]].exp = e[1]
    BY <1>0, <2>1 DEF Agree
  <2>3. heap[e[2]].live
    BY <1>0, <2>2 DEF Agree, Id
  <2> QED
    BY <1>1, <2>1, <2>2, <2>3
<1>3. TypeOK'
  BY <1>0, <1>1 DEF TypeOK, HandleRead
<1>4. Agree'
  <2>1. \A id \in activeTimers_' : (id[2] = heap[id[1]].seq /\ heap[id[1]].live)'
    BY <1>0, <1>1 DEF Agree
  <2>2. ASSUME NEW u \in Int, NEW b \in Addr
        PROVE  (<<u, b>> \in timers_ <=> Id(b) \in activeTimers_ /\ heap[b].exp = u)'
    <3>1. Id(b)' = Id(b)
      BY <1>1 DEF Id
    <3>2. <<u, b>> \in expired' => Id(b) \notin activeTimers_'
      BY <1>2
    <3>3. ASSUME NEW e \in expired', Id(e[2]) = Id(b), heap[b].exp = u PROVE e = <<u, b>>
      BY <1>2, <3>3 DEF Id
    <3>4. <<u, b>> \in timers_ <=> Id(b) \in activeTimers_ /\ heap[b].exp = u
      BY <1>0 DEF Agree
    <3> QED
      BY <1>1, <3>1, <3>2, <3>3, <3>4
  <2>3. \A e \in expired' : (Id(e[2]) \notin activeTimers_ /\ heap[e[2]].live)'
    BY <1>1, <1>2 DEF Id
  <2>4. \A j \in 1..Len(pending') :
          (pending[j][1] = "add" => heap[pending[j][2][1]].live /\ Id(pending[j][2][1]) = pending[j][2])'
    BY <1>0, <1>1 DEF Agree, Id
  <2> QED
    BY <2>1, <2>2, <2>3, <2>4 DEF Agree
<1>5. QueuedInv'
  <2>1. ASSUME NEW j \in 1..Len(pending), pending[j][1] = "add", NEW e \in expired'
        PROVE  e[2] # pending[j][2][1]
    BY <1>0, <1>2, <2>1 DEF Agree, QueuedInv
  <2> QED
    BY <1>0, <1>1, <2>1 DEF QueuedInv
<1>6. WellOrdered(timers_)'
  BY <1>1, SubsetOrdered DEF MemInv
<1> QED
  BY <1>3, <1>4, <1>5, <1>6 DEF MemInv

(* Addresses of the timers of the batch that reset() inserts again. *)
Again == {e[2] : e \in {x \in expired : Repeats(x)}}

(* reset(), address by address. *)
LEMMA ResetFacts ==
  ASSUME TypeOK, Agree, Reset
  PROVE  /\ Again \subseteq Addr
         /\ \A a \in Again : \E e \in expired : e[2] = a
         /\ heap' \in [Addr -> Timer]
         /\ \A a \in Addr : heap'[a].seq = heap[a].seq
         /\ \A a \in Again : heap'[a].live = heap[a].live /\ heap'[a].exp \in Nat
         /\ \A a \in Addr : (\A e \in expired : e[2] # a) => heap'[a] = heap[a]
         /\ timers_' = timers_ \cup {<<heap'[a].exp, a>> : a \in Again}
         /\ activeTimers_' = activeTimers_ \cup {Id(a) : a \in Again}
<1>1. Again \subseteq Addr /\ \A a \in Again : \E e \in expired : e[2] = a
  BY DEF Again, TypeOK
<1>2. heap' = [a \in Addr |->
         IF a \in Again THEN [heap[a] EXCEPT !.exp = readTime + heap[a].interval]
         ELSE IF \E e \in expired : e[2] = a THEN Deleted(heap[a])
         ELSE heap[a]]
  BY DEF Reset, Again
<1>3. Insert({<<a, heap'[a].exp, heap[a].seq>> : a \in Again})
  BY DEF Reset, Again
<1>4. ASSUME NEW a \in Addr
      PROVE  /\ heap'[a] \in Timer
             /\ heap'[a].seq = heap[a].seq
             /\ a \in Again => heap'[a].live = heap[a].live /\ heap'[a].exp \in Nat
             /\ (\A e \in expired : e[2] # a) => heap'[a] = heap[a]
  <2>1. heap[a] \in Timer /\ readTime \in Nat
    BY DEF TypeOK
  <2>2. CASE a \in Again
    <3>1. heap'[a] = [heap[a] EXCEPT !.exp = readTime + heap[a].interval]
      BY <1>2, <2>2
    <3>2. readTime + heap[a].interval \in Nat
      BY <2>1 DEF Timer
    <3> QED
      BY <1>1, <2>1, <2>2, <3>1, <3>2 DEF Timer
  <2>3. CASE a \notin Again /\ \E e \in expired : e[2] = a
    <3>1. heap'[a] = Deleted(heap[a])
      BY <1>2, <2>3
    <3> QED
      BY <2>1, <2>3, <3>1, DeletedFacts
  <2>4. CASE a \notin Again /\ ~\E e \in expired : e[2] = a
    BY <1>2, <2>1, <2>4
  <2> QED
    BY <2>2, <2>3, <2>4
<1>5. heap' \in [Addr -> Timer]
  BY <1>2, <1>4
<1> DEFINE new == {<<a, heap'[a].exp, heap[a].seq>> : a \in Again}
<1>5a. ASSUME NEW a \in Again
       PROVE  \E n \in new : <<heap'[a].exp, a>> = <<n[2], n[1]>> /\ Id(a) = <<n[1], n[3]>>
  <2>1. <<a, heap'[a].exp, heap[a].seq>> \in new
    OBVIOUS
  <2> HIDE DEF new
  <2> QED
    BY <2>1 DEF Id
<1>5b. ASSUME NEW n \in new
       PROVE  \E a \in Again : <<n[2], n[1]>> = <<heap'[a].exp, a>> /\ <<n[1], n[3]>> = Id(a)
  BY DEF Id
<1> HIDE DEF new
<1>6. {<<n[2], n[1]>> : n \in new} = {<<heap'[a].exp, a>> : a \in Again}
  BY <1>5a, <1>5b
<1>7. {<<n[1], n[3]>> : n \in new} = {Id(a) : a \in Again}
  BY <1>5a, <1>5b
<1>8. /\ timers_' = timers_ \cup {<<heap'[a].exp, a>> : a \in Again}
      /\ activeTimers_' = activeTimers_ \cup {Id(a) : a \in Again}
  BY <1>3, <1>6, <1>7 DEF Insert, new
<1> QED
  BY <1>1, <1>4, <1>5, <1>8

(* reset() deletes and inserts timers of the batch only. *)
LEMMA ResetMem ==
  ASSUME MemInv, Reset PROVE MemInv'
<1>0. TypeOK /\ Agree /\ QueuedInv
  BY DEF MemInv
<1>1. /\ Again \subseteq Addr
      /\ \A a \in Again : \E e \in expired : e[2] = a
      /\ heap' \in [Addr -> Timer]
      /\ \A a \in Addr : heap'[a].seq = heap[a].seq
      /\ \A a \in Again : heap'[a].live = heap[a].live /\ heap'[a].exp \in Nat
      /\ \A a \in Addr : (\A e \in expired : e[2] # a) => heap'[a] = heap[a]
      /\ timers_' = timers_ \cup {<<heap'[a].exp, a>> : a \in Again}
      /\ activeTimers_' = activeTimers_ \cup {Id(a) : a \in Again}
  BY <1>0, ResetFacts
<1>2. UNCHANGED <<pending, toRun>> /\ expired' = {} /\ callingExpiredTimers_' = FALSE /\ toRun = {}
  BY DEF Reset
<1>3. \A a \in Addr : Id(a)' = Id(a) /\ Id(a) \in Ids
  BY <1>0, <1>1 DEF Id, Ids, TypeOK, Timer
<1>4. \A a \in Again : Id(a) \notin activeTimers_ /\ heap[a].live
  BY <1>0, <1>1 DEF Agree
<1>5. \A id \in activeTimers_ : id = Id(id[1]) /\ id[1] \in Addr /\ \A e \in expired : e[2] # id[1]
  BY <1>0 DEF Agree, TypeOK, Ids, Id
<1>6. WellOrdered(timers_')
  <2>1. WellOrdered({<<heap'[a].exp, a>> : a \in Again})
    BY <1>1, NaturalOrdered
  <2>2. \A e \in timers_ \cup {<<heap'[a].exp, a>> : a \in Again} : e[1] \in Int
    BY <1>0, <1>1 DEF TypeOK
  <2> QED
    BY <1>1, <2>1, <2>2, UnionOrdered DEF MemInv
<1>7. TypeOK'
  <2>1. timers_' \subseteq Int \X Addr
    BY <1>0, <1>1 DEF TypeOK
  <2>2. activeTimers_' \subseteq Ids
    BY <1>0, <1>1, <1>3 DEF TypeOK
  <2>3. alarm' \in Nat \cup {None}
    <3>1. CASE timers_' # {}
      <4>1. Earliest(timers_')[1] \in Int
        BY <1>6, <2>1, <3>1, EarliestFacts
      <4> QED
        BY <1>0, <3>1, <4>1, AlarmSet DEF Reset, TypeOK
    <3>2. CASE timers_' = {}
      BY <1>0, <3>2 DEF Reset, TypeOK
    <3> QED
      BY <3>1, <3>2
  <2> QED
    BY <1>0, <1>1, <1>2, <2>1, <2>2, <2>3 DEF TypeOK, Reset
<1>8. Agree'
  <2>1. ASSUME NEW id \in activeTimers_' PROVE (id[2] = heap[id[1]].seq /\ heap[id[1]].live)'
    <3>1. CASE id \in activeTimers_
      BY <1>0, <1>1, <1>5, <3>1 DEF Agree
    <3>2. CASE id \notin activeTimers_
      <4>1. PICK a \in Again : id = Id(a)
        BY <1>1, <3>2
      <4> QED
        BY <1>1, <1>4, <4>1 DEF Id
    <3> QED
      BY <3>1, <3>2
  <2>2. ASSUME NEW u \in Int, NEW b \in Addr
        PROVE  (<<u, b>> \in timers_ <=> Id(b) \in activeTimers_ /\ heap[b].exp = u)'
    <3>1. CASE b \in Again
      <4>1. <<u, b>> \notin timers_
        BY <1>0, <1>4, <3>1 DEF Agree
      <4>2. Id(b)' \in activeTimers_'
        BY <1>1, <1>3, <3>1
      <4>3. <<u, b>> \in {<<heap'[a].exp, a>> : a \in Again} <=> heap'[b].exp = u
        BY <3>1
      <4> QED
        BY <1>1, <4>1, <4>2, <4>3
    <3>2. CASE b \notin Again
      <4>1. <<u, b>> \in timers_' <=> <<u, b>> \in timers_
        BY <1>1, <3>2
      <4>2. Id(b)' \in activeTimers_' <=> Id(b) \in activeTimers_
        BY <1>1, <1>3, <3>2 DEF Id
      <4>3. Id(b) \in activeTimers_ => heap'[b] = heap[b]
        BY <1>1, <1>5 DEF Id
      <4> QED
        BY <1>0, <4>1, <4>2, <4>3 DEF Agree
    <3> QED
      BY <3>1, <3>2
  <2>3. ASSUME NEW j \in 1..Len(pending'), pending'[j][1] = "add"
        PROVE  (heap[pending[j][2][1]].live /\ Id(pending[j][2][1]) = pending[j][2])'
    <3>1. pending[j][2][1] \in Addr /\ \A e \in expired : e[2] # pending[j][2][1]
      BY <1>0, <1>2, <2>3, PendingType DEF QueuedInv
    <3> QED
      BY <1>0, <1>1, <1>2, <2>3, <3>1 DEF Agree, Id
  <2> QED
    BY <1>2, <2>1, <2>2, <2>3 DEF Agree
<1>9. QueuedInv'
  <2>1. ASSUME NEW j \in 1..Len(pending), pending[j][1] = "add"
        PROVE  pending[j][2] \notin activeTimers_'
    <3>1. pending[j][2][1] \notin Again
      BY <1>0, <1>1, <2>1 DEF QueuedInv
    <3> QED
      BY <1>0, <1>1, <2>1, <3>1 DEF QueuedInv, Id
  <2> QED
    BY <1>0, <1>2, <2>1 DEF QueuedInv
<1> QED
  BY <1>6, <1>7, <1>8, <1>9 DEF MemInv

(* The client's cancel() queues a functor that owns nothing. *)
LEMMA ClientCancelMem ==
  ASSUME MemInv, NEW id \in ids, ClientCancel(id) PROVE MemInv'
<1>0. TypeOK /\ Agree /\ QueuedInv
  BY DEF MemInv
<1>1. UNCHANGED <<heap, timers_, activeTimers_, expired, callingExpiredTimers_>>
  BY DEF ClientCancel
<1>2. <<"cancel", id>> \in {"add", "cancel"} \X Ids
  BY <1>0 DEF TypeOK
<1>3. /\ pending' \in Seq({"add", "cancel"} \X Ids)
      /\ Len(pending') = Len(pending) + 1 /\ Len(pending) \in Nat
      /\ \A j \in 1..Len(pending) : pending'[j] = pending[j]
      /\ pending'[Len(pending) + 1][1] # "add"
  BY <1>0, <1>2 DEF TypeOK, ClientCancel
<1>4. TypeOK'
  BY <1>0, <1>3 DEF TypeOK, ClientCancel
<1>5. \A j \in 1..Len(pending') : pending'[j][1] = "add" =>
        j \in 1..Len(pending) /\ pending'[j] = pending[j]
  BY <1>3
<1>6. Agree'
  BY <1>0, <1>1, <1>5 DEF Agree, Id
<1>7. QueuedInv'
  BY <1>0, <1>1, <1>5 DEF QueuedInv
<1>8. WellOrdered(timers_)'
  BY <1>1 DEF MemInv, WellOrdered
<1> QED
  BY <1>4, <1>6, <1>7, <1>8 DEF MemInv

(* The steps that touch neither the heap, nor the sets, nor the queue. *)
LEMMA OtherMem ==
  ASSUME MemInv,
         ClientReadSequence \/ RunTimer \/ AlarmFires \/ TimerRoutine \/ Tick \/ UNCHANGED vars
  PROVE  MemInv'
<1>1. UNCHANGED <<heap, timers_, activeTimers_, expired, callingExpiredTimers_, pending>>
  BY DEF ClientReadSequence, RunTimer, AlarmFires, TimerRoutine, Tick, vars
<1>2. Agree' /\ QueuedInv' /\ WellOrdered(timers_)'
  BY <1>1 DEF MemInv, Agree, QueuedInv, Id, WellOrdered
<1>3. TypeOK'
  <2>1. CASE ClientReadSequence
    <3>1. PICK s \in {heap[reading].seq} \cup (IF heap[reading].live THEN {} ELSE {0}) :
            ids' = ids \cup {<<reading, s>>}
      BY <2>1 DEF ClientReadSequence
    <3>2. reading \in Addr /\ s \in Nat
      BY <2>1, <3>1 DEF ClientReadSequence, MemInv, TypeOK, Timer
    <3> QED
      BY <2>1, <3>1, <3>2 DEF ClientReadSequence, MemInv, TypeOK, Ids
  <2>2. CASE RunTimer
    BY <2>2 DEF RunTimer, MemInv, TypeOK
  <2>3. CASE AlarmFires \/ TimerRoutine \/ Tick
    BY <2>3 DEF AlarmFires, TimerRoutine, Tick, MemInv, TypeOK
  <2>4. CASE UNCHANGED vars
    BY <2>4 DEF vars, MemInv, TypeOK
  <2> QED
    BY <2>1, <2>2, <2>3, <2>4
<1> QED
  BY <1>2, <1>3 DEF MemInv

(* Every step keeps the memory invariant. *)
LEMMA MemStep == MemInv /\ [Next]_vars => MemInv'
BY ClientAddMem, LoopAddMem, RunPendingAddMem, RunPendingCancelMem, LoopCancelMem,
   HandleReadMem, ResetMem, ClientCancelMem, OtherMem DEF Next, LoopStep

(* The memory invariant holds throughout. *)
LEMMA MemAlways == Spec => []MemInv
<1> QED
  BY InitMem, MemStep, PTL DEF Spec

(* The sets of TimerQueue.cpp agree, and nothing points to a deleted timer:  *)
(* the asserts of insert(), cancelInLoop() and getExpired() hold, whatever   *)
(* the callbacks and the client do, for any number of timers.                *)
THEOREM SetsAgree == Spec => []TimersAgree
<1> QED
  BY MemAlways, AgreeIsTimersAgree, PTL

-----------------------------------------------------------------------------
(* The alarm. *)

(* An alarm set for t goes off by t, or MinDelay from now. *)
LEMMA AlarmBound ==
  ASSUME now \in Nat, NEW t \in Int, ResetTimer(t)
  PROVE  alarm' \in Nat /\ (alarm' <= t \/ alarm' <= now + MinDelay)
<1>1. t - now \in Int
  OBVIOUS
<1>2. alarm' = now + DueTime(t - now) * Ms
  BY DEF ResetTimer
<1>3. /\ DueTime(t - now) * Ms \in Nat
      /\ t - now < MinDelay => DueTime(t - now) * Ms <= MinDelay
      /\ t - now >= MinDelay => DueTime(t - now) * Ms <= t - now
  BY <1>1, DueTimeFacts
<1> DEFINE x == DueTime(t - now) * Ms
<1>4. x \in Nat /\ (t - now < MinDelay => x <= MinDelay) /\ (t - now >= MinDelay => x <= t - now)
  BY <1>3
<1> HIDE DEF x
<1>5. alarm' = now + x
  BY <1>2 DEF x
<1> QED
  BY <1>4, <1>5, TimerQueueAssumption

(* insert() sets the alarm when the new timer is the first one, and only     *)
(* then is the alarm there is too late.                                      *)
LEMMA AddAlarm ==
  ASSUME MemInv, MemInv', AlarmInTime, NEW t \in Int, NEW a \in Addr,
         timers_' = timers_ \cup {<<t, a>>},
         IF EarliestChanged(t) THEN ResetTimer(t) ELSE UNCHANGED alarm,
         UNCHANGED <<tokens, routines, now, callingExpiredTimers_>>
  PROVE  AlarmInTime'
<1> SUFFICES ASSUME ~callingExpiredTimers_, ~(tokens + routines > 0)
             PROVE  /\ alarm' # None
                    /\ alarm' <= Earliest(timers_')[1] \/ alarm' <= now + MinDelay
  BY DEF AlarmInTime
<1> DEFINE e == Earliest(timers_')
<1>1. e \in timers_' /\ \A f \in timers_' : e[1] <= f[1]
  BY EarliestFacts DEF MemInv
<1>2. now \in Nat /\ e[1] \in Int /\ e[1] <= t /\ \A f \in timers_ : f[1] \in Int
  <2>1. now \in Nat /\ \A f \in timers_' : f[1] \in Int
    BY DEF MemInv, TypeOK
  <2>2. <<t, a>> \in timers_'
    OBVIOUS
  <2> HIDE DEF e
  <2>3. e[1] <= t
    BY <1>1, <2>2
  <2> QED
    BY <1>1, <2>1, <2>3
<1> HIDE DEF e
<1>3. CASE EarliestChanged(t)
  <2>1. \A f \in timers_ : t <= f[1]
    <3>1. CASE timers_ = {}
      BY <3>1
    <3>2. CASE timers_ # {}
      <4>1. Earliest(timers_) \in timers_ /\ \A f \in timers_ : Earliest(timers_)[1] <= f[1]
        BY <3>2, EarliestFacts DEF MemInv
      <4>2. t < Earliest(timers_)[1]
        BY <1>3, <3>2 DEF EarliestChanged
      <4> QED
        BY <1>2, <4>1, <4>2
    <3> QED
      BY <3>1, <3>2
  <2>2. e[1] = t
    BY <1>1, <1>2, <2>1
  <2> QED
    BY <1>2, <1>3, <2>2, AlarmBound, TimerQueueAssumption DEF e
<1>4. CASE ~EarliestChanged(t)
  <2>1. timers_ # {} /\ ~(t < Earliest(timers_)[1])
    BY <1>4 DEF EarliestChanged
  <2>2. Earliest(timers_) \in timers_ /\ \A f \in timers_ : Earliest(timers_)[1] <= f[1]
    BY <2>1, EarliestFacts DEF MemInv
  <2>3. e[1] = Earliest(timers_)[1]
    BY <1>1, <1>2, <2>1, <2>2
  <2> QED
    BY <1>4, <2>1, <2>3 DEF AlarmInTime, e
<1> QED
  BY <1>3, <1>4

(* With fewer timers, more tokens or later, the alarm is still in time. *)
LEMMA ShrinkAlarm ==
  ASSUME MemInv, MemInv', AlarmInTime, timers_' \subseteq timers_,
         UNCHANGED <<alarm, callingExpiredTimers_>>,
         tokens' + routines' = tokens + routines, now' >= now
  PROVE  AlarmInTime'
<1> SUFFICES ASSUME ~callingExpiredTimers_, ~(tokens + routines > 0), timers_' # {}
             PROVE  /\ alarm # None
                    /\ alarm <= Earliest(timers_')[1] \/ alarm <= now' + MinDelay
  BY DEF AlarmInTime
<1>1. Earliest(timers_') \in timers_'
  BY EarliestFacts DEF MemInv
<1>2. \A f \in timers_ : Earliest(timers_)[1] <= f[1] /\ Earliest(timers_) \in timers_
  BY EarliestFacts DEF MemInv
<1>3. alarm # None /\ (alarm <= Earliest(timers_)[1] \/ alarm <= now + MinDelay)
  BY DEF AlarmInTime
<1>4. /\ alarm \in Nat /\ now \in Nat /\ now' \in Nat
      /\ Earliest(timers_')[1] \in Int /\ Earliest(timers_)[1] \in Int
      /\ Earliest(timers_)[1] <= Earliest(timers_')[1]
  BY <1>1, <1>2, <1>3 DEF MemInv, TypeOK
<1>5. MinDelay \in Nat
  BY TimerQueueAssumption
<1> HIDE DEF Earliest
<1>6. CASE alarm <= Earliest(timers_)[1]
  BY <1>3, <1>4, <1>6
<1>7. CASE alarm <= now + MinDelay
  <2>1. \A x, y, z, m \in Nat : x <= y + m /\ z >= y => x <= z + m
    OBVIOUS
  <2>2. alarm <= now' + MinDelay
    BY <1>4, <1>5, <1>7, <2>1
  <2> QED
    BY <1>3, <2>2
<1> QED
  BY <1>3, <1>6, <1>7

(* Every step keeps the alarm in time. *)
LEMMA AlarmStep == MemInv /\ AlarmInTime /\ [Next]_vars => AlarmInTime'
<1> SUFFICES ASSUME MemInv, AlarmInTime, [Next]_vars PROVE AlarmInTime'
  OBVIOUS
<1>0. MemInv' /\ TypeOK /\ TypeOK'
  BY MemStep DEF MemInv
<1>1. ASSUME NEW a \in Addr, NEW d \in Delays, NEW i \in Intervals, ClientAdd(a, d, i)
      PROVE  AlarmInTime'
  BY <1>0, <1>1, ShrinkAlarm DEF ClientAdd, TypeOK
<1>2. ASSUME NEW a \in Addr, NEW d \in Delays, NEW i \in Intervals, LoopAdd(a, d, i)
      PROVE  AlarmInTime'
  <2>1. now + d \in Int
    BY <1>0, TimerQueueAssumption DEF TypeOK
  <2>2. /\ timers_' = timers_ \cup {<<now + d, a>>}
        /\ IF EarliestChanged(now + d) THEN ResetTimer(now + d) ELSE UNCHANGED alarm
        /\ UNCHANGED <<tokens, routines, now, callingExpiredTimers_>>
    BY <1>2, InsertOne DEF LoopAdd, AddTimerInLoop
  <2> QED
    BY <1>0, <2>1, <2>2, AddAlarm
<1>3. ASSUME RunPendingAdd PROVE AlarmInTime'
  <2> DEFINE a == Head(pending)[2][1]
  <2>1. /\ timers_' = timers_ \cup {<<heap[a].exp, a>>}
        /\ IF EarliestChanged(heap[a].exp) THEN ResetTimer(heap[a].exp) ELSE UNCHANGED alarm
        /\ UNCHANGED <<tokens, routines, now, callingExpiredTimers_>>
        /\ pending # <<>> /\ pending' = Tail(pending)
    BY <1>3, InsertOne DEF RunPendingAdd, AddTimerInLoop
  <2>2. a \in Addr
    BY <1>0, <2>1, PendingTail, PendingType
  <2>3. heap[a].exp \in Int
    BY <1>0, <2>2 DEF TypeOK, Timer
  <2> HIDE DEF a
  <2> QED
    BY <1>0, <2>1, <2>2, <2>3, AddAlarm
<1>4. ASSUME RunPendingCancel \/ \E id \in ids : LoopCancel(id) PROVE AlarmInTime'
  <2>1. /\ timers_' \subseteq timers_
        /\ UNCHANGED <<alarm, callingExpiredTimers_, tokens, routines, now>>
    BY <1>4 DEF RunPendingCancel, LoopCancel, CancelInLoop
  <2> QED
    BY <1>0, <2>1, ShrinkAlarm DEF TypeOK
<1>5. ASSUME HandleRead PROVE AlarmInTime'
  BY <1>5 DEF HandleRead, AlarmInTime
<1>6. ASSUME Reset PROVE AlarmInTime'
  <2>1. CASE timers_' # {}
    <3>1. Earliest(timers_')[1] \in Int
      BY <1>0, <2>1, EarliestFacts DEF MemInv, TypeOK
    <3>2. ResetTimer(Earliest(timers_')[1]) /\ UNCHANGED now
      BY <1>6, <2>1 DEF Reset
    <3>3. alarm' \in Nat /\ (alarm' <= Earliest(timers_')[1] \/ alarm' <= now + MinDelay)
      BY <1>0, <3>1, <3>2, AlarmBound DEF TypeOK
    <3> QED
      BY <3>2, <3>3, TimerQueueAssumption DEF AlarmInTime
  <2>2. CASE timers_' = {}
    BY <2>2 DEF AlarmInTime
  <2> QED
    BY <2>1, <2>2
<1>7. ASSUME AlarmFires PROVE AlarmInTime'
  BY <1>0, <1>7 DEF AlarmFires, AlarmInTime, TypeOK
<1>8. ASSUME TimerRoutine \/ Tick PROVE AlarmInTime'
  <2>1. /\ UNCHANGED <<timers_, alarm, callingExpiredTimers_>>
        /\ tokens' + routines' = tokens + routines /\ now' >= now
    <3>1. CASE TimerRoutine
      BY <1>0, <3>1 DEF TimerRoutine, TypeOK
    <3>2. CASE Tick
      BY <1>0, <3>2 DEF Tick, TypeOK
    <3> QED
      BY <1>8, <3>1, <3>2
  <2> QED
    BY <1>0, <2>1, ShrinkAlarm
<1>9. ASSUME ClientReadSequence \/ RunTimer \/ \E id \in ids : ClientCancel(id) PROVE AlarmInTime'
  <2>1. UNCHANGED <<timers_, alarm, callingExpiredTimers_, tokens, routines, now>>
    BY <1>9 DEF ClientReadSequence, RunTimer, ClientCancel
  <2> QED
    BY <1>0, <2>1, ShrinkAlarm DEF TypeOK
<1>10. ASSUME UNCHANGED vars PROVE AlarmInTime'
  BY <1>0, <1>10, ShrinkAlarm DEF vars, TypeOK
<1> QED
  BY <1>1, <1>2, <1>3, <1>4, <1>5, <1>6, <1>7, <1>8, <1>9, <1>10 DEF Next, LoopStep

(* While TimerQueue.cpp has timers, a token is on its way or the alarm goes  *)
(* off when the first timer is due, or MinDelay from now, for any delays,    *)
(* any width of the DWORD and any unit of CreateTimerQueueTimer.             *)
THEOREM AlarmNeverLate == Spec => []AlarmInTime
<1>1. Init => AlarmInTime
  BY DEF Init, AlarmInTime
<1> QED
  BY <1>1, AlarmStep, MemAlways, PTL DEF Spec

-----------------------------------------------------------------------------
(* Cancellation. *)

(* The TimerId is nobody's, or its timer was added, or an addTimerInLoop for *)
(* it is among the first n queued functors.                                  *)
Known(id, n) ==
    \/ id[2] = 0 \/ id \in added
    \/ \E i \in 1..n : pending[i] = <<"add", id>>

(* Sequence numbers are never used again, a queued timer was not added yet,  *)
(* and what is to be cancelled is added first.                               *)
OrderInv ==
    /\ \A a \in Addr : heap[a].seq <= numCreated
    /\ \A a \in Addr : heap[a].live => heap[a].seq > 0
    /\ \A id \in ids \cup added \cup cancelled : id[2] <= numCreated
    /\ \A i \in 1..Len(pending) : pending[i][1] = "add" => pending[i][2] \notin added
    /\ \A i \in 1..Len(pending) : pending[i][1] = "cancel" => Known(pending[i][2], i - 1)
    /\ \A id \in ids : Known(id, Len(pending))
    /\ reading # None => Known(Id(reading), Len(pending))

(* Only what was added is cancelled, and a timer of the batch that is        *)
(* cancelled is remembered for reset().                                      *)
CancelInv ==
    /\ \A id \in cancelled : id[2] = 0 \/ id \in added
    /\ \A e \in expired : Id(e[2]) \in cancelled => Id(e[2]) \in cancelingTimers_
    /\ CancelledStaysOut

(* A functor more at the end of the queue leaves what is known. *)
LEMMA KnownAppend ==
  ASSUME TypeOK, NEW p, pending' = Append(pending, p), UNCHANGED added,
         NEW id, NEW n \in 0..Len(pending), Known(id, n)
  PROVE  Known(id, n)' /\ Known(id, Len(pending))'
<1>1. /\ Len(pending') = Len(pending) + 1 /\ Len(pending) \in Nat
      /\ \A i \in 1..Len(pending) : pending'[i] = pending[i]
  BY DEF TypeOK
<1>2. ASSUME NEW i \in 1..n, pending[i] = <<"add", id>>
      PROVE  i \in 1..Len(pending') /\ pending'[i] = <<"add", id>>
  BY <1>1, <1>2
<1> QED
  BY <1>2 DEF Known

(* What is known stays so when the first functor has run. *)
LEMMA KnownTail ==
  ASSUME TypeOK, pending # <<>>, pending' = Tail(pending),
         added \subseteq added', pending[1][1] = "add" => pending[1][2] \in added',
         NEW id, NEW n \in 0..Len(pending), Known(id, n)
  PROVE  id[2] = 0 \/ id \in added' \/ \E i \in 1..(n - 1) : pending'[i] = <<"add", id>>
<1>1. CASE id[2] = 0 \/ id \in added
  BY <1>1 DEF Known
<1>2. CASE \E i \in 1..n : pending[i] = <<"add", id>>
  <2>1. PICK i \in 1..n : pending[i] = <<"add", id>>
    BY <1>2
  <2>2. CASE i = 1
    BY <2>1, <2>2 DEF Known
  <2>3. CASE i # 1
    <3>1. i - 1 \in 1..(n - 1) /\ i - 1 \in 1..Len(pending')
      BY <2>3, PendingTail
    <3>2. pending'[i - 1] = pending[i]
      BY <3>1, PendingTail
    <3> QED
      BY <2>1, <3>1, <3>2 DEF Known
  <2> QED
    BY <2>2, <2>3
<1> QED
  BY <1>1, <1>2 DEF Known

(* Initially nothing is known. *)
LEMMA InitOrder == Init => OrderInv /\ CancelInv
BY DEF Init, OrderInv, CancelInv, CancelledStaysOut

(* The client's addTimer(). *)
LEMMA ClientAddOrder ==
  ASSUME MemInv, OrderInv, CancelInv,
         NEW a \in Addr, NEW d \in Delays, NEW i \in Intervals, ClientAdd(a, d, i)
  PROVE  OrderInv' /\ CancelInv'
<1> DEFINE p == <<"add", <<a, numCreated + 1>>>>
           n == Len(pending)
<1>0. TypeOK /\ Agree
  BY DEF MemInv
<1>1. /\ pending' = Append(pending, p) /\ reading' = a /\ numCreated' = numCreated + 1
      /\ UNCHANGED <<added, ids, cancelled, activeTimers_, expired, cancelingTimers_>>
      /\ ~heap[a].live
  BY DEF ClientAdd, NewTimer
<1>2. /\ heap'[a].seq = numCreated + 1 /\ heap'[a].live
      /\ \A b \in Addr : b # a => heap'[b] = heap[b]
      /\ numCreated \in Nat
  BY <1>0 DEF TypeOK, ClientAdd, NewTimer
<1>3. /\ Len(pending') = n + 1 /\ n \in Nat /\ pending'[n + 1] = p
      /\ \A j \in 1..n : pending'[j] = pending[j]
  BY <1>0, <1>1 DEF TypeOK
<1>4. /\ \A b \in Addr : heap[b].seq \in Nat
      /\ \A id \in ids \cup added \cup cancelled : id[2] \in Nat
      /\ None \notin Addr
  BY <1>0, TimerQueueAssumption DEF TypeOK, Timer, Ids
<1> HIDE DEF n
<1>5. \A b \in Addr : (heap[b].seq <= numCreated /\ (heap[b].live => heap[b].seq > 0))'
  BY <1>1, <1>2, <1>4 DEF OrderInv
<1>6. (\A id \in ids \cup added \cup cancelled : id[2] <= numCreated)'
  BY <1>1, <1>2, <1>4 DEF OrderInv
<1>7. ASSUME NEW j \in 1..Len(pending'), pending'[j][1] = "add" PROVE pending'[j][2] \notin added'
  <2>1. CASE j = n + 1
    <3>1. <<a, numCreated + 1>> \notin added
      BY <1>2 DEF OrderInv
    <3> QED
      BY <1>1, <1>3, <2>1, <3>1
  <2>2. CASE j \in 1..n
    BY <1>1, <1>3, <1>7, <2>2 DEF OrderInv, n
  <2> QED
    BY <1>3, <2>1, <2>2
<1>8. ASSUME NEW j \in 1..Len(pending'), pending'[j][1] = "cancel"
      PROVE  Known(pending[j][2], j - 1)'
  <2>1. j \in 1..n /\ pending'[j] = pending[j]
    BY <1>3, <1>8
  <2>2. Known(pending[j][2], j - 1) /\ j - 1 \in 0..Len(pending)
    BY <1>8, <2>1 DEF OrderInv, n
  <2>3. \A id : Known(id, j - 1) => Known(id, j - 1)'
    BY <1>0, <1>1, <2>2, KnownAppend
  <2> QED
    BY <2>1, <2>2, <2>3 DEF Known
<1>9. ASSUME NEW id \in ids PROVE Known(id, Len(pending))'
  BY <1>0, <1>1, <1>3, KnownAppend DEF OrderInv, n
<1>10. Known(Id(reading), Len(pending))'
  <2>1. Id(reading)' = <<a, numCreated + 1>>
    BY <1>1, <1>2 DEF Id
  <2> QED
    BY <1>3, <2>1 DEF Known
<1>11. OrderInv'
  BY <1>1, <1>5, <1>6, <1>7, <1>8, <1>9, <1>10 DEF OrderInv
<1>12. CancelInv'
  <2>1. \A e \in expired : Id(e[2])' = Id(e[2])
    BY <1>0, <1>1, <1>2 DEF Agree, Id, TypeOK
  <2> QED
    BY <1>1, <2>1 DEF CancelInv, CancelledStaysOut
<1> QED
  BY <1>11, <1>12

(* What is known stays so while the queue does and more is added. *)
LEMMA KnownKept ==
  ASSUME UNCHANGED pending, added \subseteq added', NEW id, NEW n, Known(id, n)
  PROVE  Known(id, n)'
BY DEF Known

(* addTimer() on the loop thread has a number no TimerId has. *)
LEMMA LoopAddOrder ==
  ASSUME MemInv, OrderInv, CancelInv,
         NEW a \in Addr, NEW d \in Delays, NEW i \in Intervals, LoopAdd(a, d, i)
  PROVE  OrderInv' /\ CancelInv'
<1> DEFINE new == <<a, numCreated + 1>>
<1>0. TypeOK /\ Agree
  BY DEF MemInv
<1>1. /\ numCreated' = numCreated + 1 /\ added' = added \cup {new} /\ ids' = ids \cup {new}
      /\ UNCHANGED <<cancelled, expired, cancelingTimers_, pending, reading>>
      /\ ~heap[a].live
  BY DEF LoopAdd, NewTimer, AddTimerInLoop
<1>2. activeTimers_' = activeTimers_ \cup {new}
  BY InsertOne DEF LoopAdd, AddTimerInLoop
<1>3. /\ heap'[a].seq = numCreated + 1 /\ heap'[a].live
      /\ \A b \in Addr : b # a => heap'[b] = heap[b]
      /\ numCreated \in Nat
  BY <1>0 DEF TypeOK, LoopAdd, NewTimer
<1>4. /\ \A b \in Addr : heap[b].seq \in Nat
      /\ \A id \in ids \cup added \cup cancelled : id[2] \in Nat
      /\ None \notin Addr
  BY <1>0, TimerQueueAssumption DEF TypeOK, Timer, Ids
<1>5. new \notin added /\ new \notin cancelled
  BY <1>3, <1>4 DEF OrderInv
<1>6. \A b \in Addr : (heap[b].seq <= numCreated /\ (heap[b].live => heap[b].seq > 0))'
  BY <1>1, <1>3, <1>4 DEF OrderInv
<1>7. (\A id \in ids \cup added \cup cancelled : id[2] <= numCreated)'
  BY <1>1, <1>3, <1>4 DEF OrderInv
<1>8. ASSUME NEW j \in 1..Len(pending), pending[j][1] = "add" PROVE pending[j][2] \notin added'
  <2>1. pending[j][2][1] \in Addr /\ pending[j][2][2] = heap[pending[j][2][1]].seq
    BY <1>0, <1>8, PendingType DEF Agree, Id
  <2>2. pending[j][2][2] <= numCreated /\ pending[j][2][2] \in Nat
    BY <1>4, <2>1 DEF OrderInv
  <2>3. pending[j][2] # new
    BY <1>3, <2>2
  <2> QED
    BY <1>1, <1>8, <2>3 DEF OrderInv
<1>9. ASSUME NEW id, NEW n, Known(id, n) PROVE Known(id, n)'
  BY <1>1, <1>9, KnownKept
<1>10. \A j \in 1..Len(pending) : pending[j][1] = "cancel" => Known(pending[j][2], j - 1)'
  BY <1>1, <1>9 DEF OrderInv, Known
<1>11. \A id \in ids' : Known(id, Len(pending))'
  BY <1>1, <1>9 DEF OrderInv, Known
<1>12. ASSUME reading # None PROVE Known(Id(reading), Len(pending))'
  <2>1. CASE reading = a
    <3>1. Id(reading)' = new
      BY <1>1, <1>3, <2>1 DEF Id
    <3> QED
      BY <1>1, <3>1 DEF Known
  <2>2. CASE reading # a
    <3>1. Id(reading)' = Id(reading)
      BY <1>0, <1>1, <1>3, <1>12, <2>2 DEF Id, TypeOK
    <3> QED
      BY <1>1, <1>9, <1>12, <3>1 DEF OrderInv, Known
  <2> QED
    BY <2>1, <2>2
<1>13. OrderInv'
  BY <1>1, <1>6, <1>7, <1>8, <1>10, <1>11, <1>12 DEF OrderInv
<1>14. CancelInv'
  <2>1. \A e \in expired : Id(e[2])' = Id(e[2])
    BY <1>0, <1>1, <1>3 DEF Agree, Id, TypeOK
  <2> QED
    BY <1>1, <1>2, <1>5, <2>1 DEF CancelInv, CancelledStaysOut
<1> QED
  BY <1>13, <1>14

(* A queued addTimerInLoop adds what was never cancelled. *)
LEMMA RunPendingAddOrder ==
  ASSUME MemInv, OrderInv, CancelInv, RunPendingAdd
  PROVE  OrderInv' /\ CancelInv'
<1> DEFINE p == pending[1][2]
<1>0. TypeOK /\ Agree /\ QueuedInv
  BY DEF MemInv
<1>1. pending # <<>> /\ pending' = Tail(pending) /\ pending[1][1] = "add" /\ expired = {}
  BY <1>0, PendingTail DEF RunPendingAdd, QueuedInv
<1>2. /\ Len(pending') = Len(pending) - 1 /\ Len(pending) \in Nat \ {0}
      /\ \A j \in 1..Len(pending') : pending'[j] = pending[j + 1] /\ j + 1 \in 1..Len(pending)
      /\ Head(pending) = pending[1] /\ 1 \in 1..Len(pending)
  BY <1>0, <1>1, PendingTail
<1>3. p[1] \in Addr /\ p = Id(p[1]) /\ heap[p[1]].live
  BY <1>0, <1>1, <1>2, PendingType DEF Agree
<1>4. added' = added \cup {p} /\ activeTimers_' = activeTimers_ \cup {p}
  <2>1. AddTimerInLoop(p[1], heap[p[1]])
    BY <1>2 DEF RunPendingAdd
  <2>2. p = <<p[1], heap[p[1]].seq>>
    BY <1>3 DEF Id
  <2>3. activeTimers_' = activeTimers_ \cup {<<p[1], heap[p[1]].seq>>}
    <3>1. Insert({<<p[1], heap[p[1]].exp, heap[p[1]].seq>>})
      BY <2>1 DEF AddTimerInLoop
    <3> HIDE DEF p
    <3> QED
      BY <3>1 DEF Insert
  <2> QED
    BY <2>1, <2>2, <2>3 DEF AddTimerInLoop
<1>5. UNCHANGED <<heap, numCreated, reading, ids, cancelled, expired>>
  BY DEF RunPendingAdd
<1>6. p[2] > 0 /\ p[2] <= numCreated /\ p \notin added
  BY <1>1, <1>2, <1>3 DEF OrderInv, Id
<1> HIDE DEF p
<1>7. (\A id \in ids \cup added \cup cancelled : id[2] <= numCreated)'
  BY <1>4, <1>5, <1>6 DEF OrderInv
<1>8. ASSUME NEW j \in 1..Len(pending'), pending'[j][1] = "add" PROVE pending'[j][2] \notin added'
  <2>1. j + 1 # 1 /\ j + 1 \in 1..Len(pending) /\ pending'[j] = pending[j + 1]
    BY <1>2
  <2>2. pending[j + 1][2] # p
    BY <1>0, <1>1, <1>2, <1>8, <2>1 DEF QueuedInv, p
  <2> QED
    BY <1>4, <1>8, <2>1, <2>2 DEF OrderInv
<1>9. ASSUME NEW id, NEW n \in 0..Len(pending), Known(id, n)
      PROVE  id[2] = 0 \/ id \in added' \/ \E i \in 1..(n - 1) : pending'[i] = <<"add", id>>
  BY <1>0, <1>1, <1>4, <1>9, KnownTail DEF p
<1>10. ASSUME NEW j \in 1..Len(pending'), pending'[j][1] = "cancel"
       PROVE  Known(pending[j][2], j - 1)'
  <2>1. /\ pending'[j] = pending[j + 1] /\ j + 1 \in 1..Len(pending)
        /\ (j + 1) - 1 = j /\ j \in 0..Len(pending)
    BY <1>2
  <2>2. Known(pending[j + 1][2], j)
    BY <1>10, <2>1 DEF OrderInv
  <2> QED
    BY <1>9, <2>1, <2>2 DEF Known
<1>11. Len(pending) \in 0..Len(pending)
  BY <1>2
<1>12. \A id \in ids : Known(id, Len(pending))'
  BY <1>2, <1>9, <1>11 DEF OrderInv, Known
<1>13. reading # None => Known(Id(reading), Len(pending))'
  <2>1. Id(reading)' = Id(reading)
    BY <1>5 DEF Id
  <2> QED
    <3>1. reading' # None => Known(Id(reading), Len(pending))
      BY <1>5 DEF OrderInv
    <3>2. reading' # None =>
             \/ Id(reading)[2] = 0 \/ Id(reading) \in added'
             \/ \E i \in 1..(Len(pending) - 1) : pending'[i] = <<"add", Id(reading)>>
      BY <1>9, <1>11, <3>1
    <3> QED
      BY <1>2, <1>5, <2>1, <3>2 DEF Known
<1>14. OrderInv'
  BY <1>5, <1>7, <1>8, <1>10, <1>12, <1>13 DEF OrderInv
<1>15. p \notin cancelled
  BY <1>6 DEF CancelInv
<1>16. CancelInv'
  BY <1>1, <1>4, <1>5, <1>15 DEF CancelInv, CancelledStaysOut
<1> QED
  BY <1>14, <1>16

(* The client gets the TimerId of a timer that is known, or of none. *)
LEMMA ClientReadOrder ==
  ASSUME MemInv, OrderInv, CancelInv, ClientReadSequence
  PROVE  OrderInv' /\ CancelInv'
<1>0. TypeOK
  BY DEF MemInv
<1>1. PICK s \in {heap[reading].seq} \cup (IF heap[reading].live THEN {} ELSE {0}) :
        ids' = ids \cup {<<reading, s>>}
  BY DEF ClientReadSequence
<1>2. reading # None /\ reading' = None
      /\ UNCHANGED <<heap, numCreated, activeTimers_, expired, cancelingTimers_, pending,
                     added, cancelled>>
  BY DEF ClientReadSequence
<1>3. reading \in Addr /\ heap[reading].seq <= numCreated /\ numCreated \in Nat
  BY <1>0, <1>2 DEF TypeOK, OrderInv
<1>4. s = heap[reading].seq \/ s = 0
  BY <1>1
<1>5. Known(<<reading, s>>, Len(pending)) /\ s <= numCreated
  <2>1. CASE s = 0
    BY <1>3, <2>1 DEF Known
  <2>2. CASE s = heap[reading].seq
    BY <1>2, <1>3, <2>2 DEF OrderInv, Id
  <2> QED
    BY <1>4, <2>1, <2>2
<1>6. \A id \in ids' : Known(id, Len(pending))
  BY <1>1, <1>5 DEF OrderInv
<1>7. \A id \in ids' \cup added \cup cancelled : id[2] <= numCreated
  BY <1>1, <1>5 DEF OrderInv
<1>8. OrderInv'
  BY <1>2, <1>6, <1>7 DEF OrderInv, Known
<1>9. CancelInv'
  BY <1>2 DEF CancelInv, CancelledStaysOut, Id
<1> QED
  BY <1>8, <1>9

(* The client's cancel() is queued behind the addTimer() it is about. *)
LEMMA ClientCancelOrder ==
  ASSUME MemInv, OrderInv, CancelInv, NEW x \in ids, ClientCancel(x)
  PROVE  OrderInv' /\ CancelInv'
<1> DEFINE n == Len(pending)
<1>0. TypeOK
  BY DEF MemInv
<1>1. /\ pending' = Append(pending, <<"cancel", x>>) /\ reading = None
      /\ UNCHANGED <<heap, numCreated, activeTimers_, expired, cancelingTimers_, reading, ids,
                     added, cancelled>>
  BY DEF ClientCancel
<1>2. /\ Len(pending') = n + 1 /\ n \in Nat /\ pending'[n + 1] = <<"cancel", x>>
      /\ \A j \in 1..n : pending'[j] = pending[j]
  BY <1>0, <1>1 DEF TypeOK
<1>3. ASSUME NEW id, NEW m \in 0..n, Known(id, m) PROVE Known(id, m)' /\ Known(id, Len(pending))'
  BY <1>0, <1>1, <1>3, KnownAppend
<1> HIDE DEF n
<1>4. ASSUME NEW j \in 1..Len(pending'), pending'[j][1] = "cancel"
      PROVE  Known(pending[j][2], j - 1)'
  <2>1. CASE j = n + 1
    <3>1. Known(x, n)
      BY DEF OrderInv, n
    <3> QED
      BY <1>1, <1>2, <2>1, <3>1 DEF Known
  <2>2. CASE j \in 1..n
    <3>1. Known(pending[j][2], j - 1) /\ pending'[j] = pending[j] /\ j - 1 \in 0..n
      BY <1>2, <1>4, <2>2 DEF OrderInv, n
    <3>2. \A i \in 1..(j - 1) : pending'[i] = pending[i]
      BY <1>2, <2>2
    <3> QED
      BY <1>1, <3>1, <3>2 DEF Known
  <2> QED
    BY <1>2, <2>1, <2>2
<1>5. \A j \in 1..Len(pending') : pending'[j][1] = "add" => pending'[j][2] \notin added
  BY <1>2 DEF OrderInv, n
<1>6. \A id \in ids : Known(id, Len(pending))'
  BY <1>2, <1>3 DEF OrderInv, n
<1>7. OrderInv'
  BY <1>1, <1>4, <1>5, <1>6 DEF OrderInv
<1>8. CancelInv'
  BY <1>1 DEF CancelInv, CancelledStaysOut, Id
<1> QED
  BY <1>7, <1>8

(* cancelInLoop() of a timer that was added. *)
LEMMA CancelKeeps ==
  ASSUME MemInv, OrderInv, CancelInv, NEW x \in Ids, x[2] = 0 \/ x \in added,
         CancelInLoop(x), UNCHANGED <<expired, added>>
  PROVE  /\ CancelInv'
         /\ \A a \in Addr : Id(a)' = Id(a) /\ (heap'[a].live => heap[a].live)
<1>0. TypeOK /\ Agree /\ QueuedInv
  BY DEF MemInv
<1>1. cancelled' = cancelled \cup {x}
  BY DEF CancelInLoop
<1>2. x[1] \in Addr /\ x = <<x[1], x[2]>>
  BY DEF Ids
<1>3. CASE x \in activeTimers_
  <2>1. /\ activeTimers_' = activeTimers_ \ {x}
        /\ heap' = [heap EXCEPT ![x[1]] = Deleted(heap[x[1]])]
        /\ UNCHANGED cancelingTimers_
    BY <1>3 DEF CancelInLoop
  <2>2. heap[x[1]] \in Timer
    BY <1>0, <1>2 DEF TypeOK
  <2>3. Deleted(heap[x[1]]).seq = heap[x[1]].seq /\ ~Deleted(heap[x[1]]).live
    BY <2>2, DeletedFacts
  <2>4. ASSUME NEW a \in Addr PROVE heap'[a].seq = heap[a].seq /\ (heap'[a].live => heap[a].live)
    <3>1. CASE a = x[1]
      BY <1>0, <2>1, <2>3, <3>1 DEF TypeOK
    <3>2. CASE a # x[1]
      BY <1>0, <2>1, <3>2 DEF TypeOK
    <3> QED
      BY <3>1, <3>2
  <2>5. \A a \in Addr : Id(a)' = Id(a)
    BY <2>4 DEF Id
  <2>6. \A e \in expired : e[2] \in Addr /\ Id(e[2]) # x
    BY <1>0, <1>3 DEF Agree, TypeOK
  <2> QED
    BY <1>1, <2>1, <2>4, <2>5, <2>6 DEF CancelInv, CancelledStaysOut
<1>4. CASE x \notin activeTimers_
  <2>1. /\ UNCHANGED <<activeTimers_, heap>>
        /\ cancelingTimers_' = IF callingExpiredTimers_ THEN cancelingTimers_ \cup {x}
                               ELSE cancelingTimers_
    BY <1>4 DEF CancelInLoop
  <2>2. \A a \in Addr : Id(a)' = Id(a)
    BY <2>1 DEF Id
  <2>3. \A e \in expired : e[2] \in Addr /\ callingExpiredTimers_
    BY <1>0 DEF QueuedInv, TypeOK
  <2> QED
    BY <1>1, <1>4, <2>1, <2>2, <2>3 DEF CancelInv, CancelledStaysOut
<1> QED
  BY <1>3, <1>4

(* The parts of OrderInv about the heap follow the heap. *)
LEMMA CancelBounds ==
  ASSUME MemInv, OrderInv, UNCHANGED <<numCreated, ids, added>>,
         \A a \in Addr : Id(a)' = Id(a) /\ (heap'[a].live => heap[a].live),
         NEW x, x[2] <= numCreated, cancelled' = cancelled \cup {x}
  PROVE  /\ \A a \in Addr : (heap[a].seq <= numCreated /\ (heap[a].live => heap[a].seq > 0))'
         /\ (\A id \in ids \cup added \cup cancelled : id[2] <= numCreated)'
<1>1. \A a \in Addr : heap'[a].seq = heap[a].seq
  BY DEF Id
<1> QED
  BY <1>1 DEF OrderInv

(* A queued cancelInLoop runs after the addTimerInLoop it is about. *)
LEMMA RunPendingCancelOrder ==
  ASSUME MemInv, OrderInv, CancelInv, RunPendingCancel
  PROVE  OrderInv' /\ CancelInv'
<1> DEFINE x == pending[1][2]
<1>0. TypeOK
  BY DEF MemInv
<1>1. /\ pending # <<>> /\ pending' = Tail(pending) /\ pending[1][1] = "cancel"
      /\ CancelInLoop(x)
      /\ UNCHANGED <<numCreated, reading, ids, added, expired>>
  BY <1>0, PendingTail DEF RunPendingCancel
<1>2. /\ Len(pending') = Len(pending) - 1 /\ Len(pending) \in Nat \ {0}
      /\ \A j \in 1..Len(pending') : pending'[j] = pending[j + 1] /\ j + 1 \in 1..Len(pending)
      /\ 1 \in 1..Len(pending) /\ Len(pending) \in 0..Len(pending)
  BY <1>0, <1>1, PendingTail
<1>3. x \in Ids /\ (x[2] = 0 \/ x \in added)
  <2>1. Known(x, 1 - 1)
    BY <1>1, <1>2 DEF OrderInv
  <2> QED
    BY <1>0, <1>2, <2>1, PendingType DEF Known
<1> HIDE DEF x
<1>4. /\ CancelInv'
      /\ \A a \in Addr : Id(a)' = Id(a) /\ (heap'[a].live => heap[a].live)
  BY <1>1, <1>3, CancelKeeps
<1>5. x[2] <= numCreated /\ cancelled' = cancelled \cup {x}
  BY <1>0, <1>1, <1>3 DEF OrderInv, TypeOK, CancelInLoop
<1>6. /\ \A a \in Addr : (heap[a].seq <= numCreated /\ (heap[a].live => heap[a].seq > 0))'
      /\ (\A id \in ids \cup added \cup cancelled : id[2] <= numCreated)'
  BY <1>1, <1>4, <1>5, CancelBounds
<1>7. ASSUME NEW id, NEW n \in 0..Len(pending), Known(id, n)
      PROVE  id[2] = 0 \/ id \in added' \/ \E i \in 1..(n - 1) : pending'[i] = <<"add", id>>
  BY <1>0, <1>1, <1>7, KnownTail
<1>8. \A j \in 1..Len(pending') : pending'[j][1] = "add" => pending'[j][2] \notin added'
  BY <1>1, <1>2 DEF OrderInv
<1>9. ASSUME NEW j \in 1..Len(pending'), pending'[j][1] = "cancel"
      PROVE  Known(pending[j][2], j - 1)'
  <2>1. /\ pending'[j] = pending[j + 1] /\ j + 1 \in 1..Len(pending)
        /\ (j + 1) - 1 = j /\ j \in 0..Len(pending)
    BY <1>2
  <2>2. Known(pending[j + 1][2], j)
    BY <1>9, <2>1 DEF OrderInv
  <2> QED
    BY <1>7, <2>1, <2>2 DEF Known
<1>10. \A id \in ids : Known(id, Len(pending))'
  BY <1>2, <1>7 DEF OrderInv, Known
<1>11. reading # None => Known(Id(reading), Len(pending))'
  <2> SUFFICES ASSUME reading # None PROVE Known(Id(reading), Len(pending))'
    OBVIOUS
  <2>1. reading \in Addr /\ Known(Id(reading), Len(pending))
    BY <1>0 DEF OrderInv, TypeOK
  <2>2. Id(reading)' = Id(reading)
    BY <1>1, <1>4, <2>1 DEF Id
  <2>3. \/ Id(reading)[2] = 0 \/ Id(reading) \in added'
        \/ \E i \in 1..(Len(pending) - 1) : pending'[i] = <<"add", Id(reading)>>
    BY <1>2, <1>7, <2>1
  <2> QED
    BY <1>2, <2>2, <2>3 DEF Known
<1>12. OrderInv'
  BY <1>1, <1>6, <1>8, <1>9, <1>10, <1>11 DEF OrderInv
<1> QED
  BY <1>4, <1>12

(* cancel() on the loop thread, of a TimerId whose timer was added. *)
LEMMA LoopCancelOrder ==
  ASSUME ~ShareIds, MemInv, OrderInv, CancelInv, NEW x \in ids, LoopCancel(x)
  PROVE  OrderInv' /\ CancelInv'
<1>0. TypeOK
  BY DEF MemInv
<1>1. /\ x \in added /\ CancelInLoop(x)
      /\ UNCHANGED <<numCreated, reading, ids, added, expired, pending>>
  BY DEF LoopCancel
<1>2. x \in Ids /\ x[2] <= numCreated /\ cancelled' = cancelled \cup {x}
  BY <1>0, <1>1 DEF OrderInv, TypeOK, CancelInLoop
<1>3. /\ CancelInv'
      /\ \A a \in Addr : Id(a)' = Id(a) /\ (heap'[a].live => heap[a].live)
  BY <1>1, <1>2, CancelKeeps
<1>4. /\ \A a \in Addr : (heap[a].seq <= numCreated /\ (heap[a].live => heap[a].seq > 0))'
      /\ (\A id \in ids \cup added \cup cancelled : id[2] <= numCreated)'
  BY <1>1, <1>2, <1>3, CancelBounds
<1>5. reading # None => Id(reading)' = Id(reading)
  <2>1. reading # None => reading \in Addr
    BY <1>0 DEF TypeOK
  <2> QED
    BY <1>1, <1>3, <2>1 DEF Id
<1>6. OrderInv'
  BY <1>1, <1>4, <1>5 DEF OrderInv, Known
<1> QED
  BY <1>3, <1>6

(* handleRead() takes timers that were not cancelled. *)
LEMMA HandleReadOrder ==
  ASSUME MemInv, OrderInv, CancelInv, HandleRead
  PROVE  OrderInv' /\ CancelInv'
<1>0. TypeOK /\ Agree
  BY DEF MemInv
<1>1. /\ expired' = {e \in timers_ : e[1] <= now}
      /\ activeTimers_' \subseteq activeTimers_
      /\ UNCHANGED <<heap, numCreated, pending, reading, ids, added, cancelled>>
  BY DEF HandleRead, GetExpired
<1>2. ASSUME NEW e \in expired' PROVE Id(e[2])' \notin cancelled'
  <2>1. e = <<e[1], e[2]>> /\ e[1] \in Int /\ e[2] \in Addr /\ e \in timers_
    BY <1>0, <1>1 DEF TypeOK
  <2>2. Id(e[2]) \in activeTimers_
    BY <1>0, <2>1 DEF Agree
  <2> QED
    BY <1>1, <2>2 DEF CancelInv, CancelledStaysOut, Id
<1>3. OrderInv'
  BY <1>1 DEF OrderInv, Known, Id
<1>4. CancelInv'
  <2>1. \A e \in expired' : (Id(e[2]) \in cancelled => Id(e[2]) \in cancelingTimers_)'
    BY <1>2
  <2> QED
    BY <1>1, <2>1 DEF CancelInv, CancelledStaysOut
<1> QED
  BY <1>3, <1>4

(* reset() inserts again what was not cancelled. *)
LEMMA ResetOrder ==
  ASSUME MemInv, OrderInv, CancelInv, Reset
  PROVE  OrderInv' /\ CancelInv'
<1>0. TypeOK /\ Agree
  BY DEF MemInv
<1>1. /\ Again \subseteq Addr
      /\ \A a \in Again : \E e \in expired : e[2] = a
      /\ heap' \in [Addr -> Timer]
      /\ \A a \in Addr : heap'[a].seq = heap[a].seq
      /\ \A a \in Again : heap'[a].live = heap[a].live
      /\ \A a \in Addr : (\A e \in expired : e[2] # a) => heap'[a] = heap[a]
      /\ activeTimers_' = activeTimers_ \cup {Id(a) : a \in Again}
  BY <1>0, ResetFacts
<1>2. /\ UNCHANGED <<numCreated, pending, reading, ids, added, cancelled>>
      /\ expired' = {}
  BY DEF Reset
<1>3. \A a \in Addr : Id(a)' = Id(a)
  BY <1>1 DEF Id
<1>4. \A a \in Again : Id(a) \notin cancelled
  BY DEF Again, Repeats, CancelInv
<1>5. \A a \in Addr : heap'[a].live => heap[a].live
  <2> SUFFICES ASSUME NEW a \in Addr, heap'[a].live PROVE heap[a].live
    OBVIOUS
  <2>1. CASE \E e \in expired : e[2] = a
    BY <1>0, <2>1 DEF Agree
  <2>2. CASE \A e \in expired : e[2] # a
    BY <1>1, <2>2
  <2> QED
    BY <2>1, <2>2
<1>6. reading # None => Id(reading)' = Id(reading)
  <2>1. reading # None => reading \in Addr
    BY <1>0 DEF TypeOK
  <2> QED
    BY <1>2, <1>3, <2>1 DEF Id
<1>7. OrderInv'
  BY <1>1, <1>2, <1>5, <1>6 DEF OrderInv, Known
<1>8. CancelInv'
  BY <1>1, <1>2, <1>4 DEF CancelInv, CancelledStaysOut
<1> QED
  BY <1>7, <1>8

(* The steps that neither add nor cancel. *)
LEMMA OtherOrder ==
  ASSUME OrderInv, CancelInv,
         RunTimer \/ AlarmFires \/ TimerRoutine \/ Tick \/ UNCHANGED vars
  PROVE  OrderInv' /\ CancelInv'
<1>1. UNCHANGED <<heap, numCreated, pending, reading, ids, added, cancelled, expired,
                  activeTimers_, cancelingTimers_>>
  BY DEF RunTimer, AlarmFires, TimerRoutine, Tick, vars
<1> QED
  BY <1>1 DEF OrderInv, CancelInv, CancelledStaysOut, Known, Id

(* Once cancelInLoop() (TimerQueue.cpp) was called for a timer, it is not    *)
(* active and never becomes so again, even when it repeats and is being      *)
(* called: for any number of timers, if no thread hands a TimerId to the     *)
(* loop thread before addTimerInLoop() ran (~ShareIds; the run               *)
(* TimerQueue_lostcancel shows what happens otherwise).                      *)
THEOREM CancelIsFinal == ~ShareIds => (Spec => []CancelledStaysOut)
<1> SUFFICES ASSUME ~ShareIds PROVE Spec => []CancelledStaysOut
  OBVIOUS
<1>1. MemInv /\ OrderInv /\ CancelInv /\ [Next]_vars => OrderInv' /\ CancelInv'
  BY ClientAddOrder, LoopAddOrder, RunPendingAddOrder, ClientReadOrder, ClientCancelOrder,
     RunPendingCancelOrder, LoopCancelOrder, HandleReadOrder, ResetOrder, OtherOrder
     DEF Next, LoopStep
<1>2. CancelInv => CancelledStaysOut
  BY DEF CancelInv
<1> QED
  BY <1>1, <1>2, InitOrder, MemAlways, PTL DEF Spec
=============================================================================
