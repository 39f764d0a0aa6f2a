--------------------------- MODULE EventLoopProofs ---------------------------
(***************************************************************************)
(* Proofs about EventLoop, for any number of threads and calls and any     *)
(* socket buffer: type correctness, no lost wakeup, no lost quit, and that *)
(* the event loop implements the FIFO executor.                            *)
(***************************************************************************)
EXTENDS EventLoop, TLAPS

(* doPendingFunctors' flag and local vector, by where the loop thread is. *)
FlagInv ==
    /\ callingPendingFunctors_ <=> lpc \in {"swap", "run", "body", "send"}
    /\ lpc \notin {"run", "body", "send"} => functors = <<>>

(* A wakeup event found active has its token still unread. *)
TokenInv == "wakeup" \in active => tokens > 0

(* NoLostWakeup extended to the steps on the way to poll(). *)
WakeupInv ==
    lpc \in {"created", "run", "body", "test", "poll"}
      /\ ~(Elements(pendingFunctors_) \subseteq early) => WakeupComing

(* The inductive invariant. *)
IInv == TypeOK /\ FlagInv /\ TokenInv /\ WakeupInv /\ NoLostQuit

(* What a queue holds after a push. *)
LEMMA AppendElements ==
    ASSUME NEW S, NEW s \in Seq(S), NEW e \in S
    PROVE  /\ Append(s, e) \in Seq(S)
           /\ Elements(Append(s, e)) = Elements(s) \cup {e}
  BY DEF Elements

(* An empty queue holds nothing. *)
LEMMA EmptyElements == Elements(<<>>) = {}
  BY DEF Elements

(* A call stays within its bound and submits a functor. *)
LEMMA NewFunctorType ==
    ASSUME TypeOK, NEW a \in Actors, Call(a)
    PROVE  /\ NewFunctor(a) \in Functor
           /\ calls' \in [Actors -> Nat]
           /\ \A b \in Actors : calls'[b] <= CallBound(b)
  BY EventLoopAssumption DEF TypeOK, Call, NewFunctor, Functor, CallBound, Actors

(* The invariant holds before loop() is called. *)
LEMMA InitIInv == Init => IInv
<1> SUFFICES ASSUME Init PROVE IInv
  OBVIOUS
<1>1. \A a \in Actors : 0 <= CallBound(a)
  BY EventLoopAssumption DEF CallBound
<1>2. pendingFunctors_ \in Seq(Functor) /\ functors \in Seq(Functor) /\ ran \in Seq(Functor)
  BY DEF Init
<1>3. TypeOK
  <2>1. calls \in [Actors -> Nat] /\ \A a \in Actors : calls[a] <= CallBound(a)
    BY <1>1 DEF Init
  <2>2. tokens \in 0..WakeupCapacity
    BY EventLoopAssumption DEF Init
  <2>3. lpc \in LoopPC /\ tpc \in [Threads -> ThreadPC]
    BY DEF Init, LoopPC, ThreadPC
  <2>4. looping_ \in BOOLEAN /\ quit_ \in BOOLEAN /\ callingPendingFunctors_ \in BOOLEAN
    BY DEF Init
  <2> QED
    BY <1>2, <2>1, <2>2, <2>3, <2>4 DEF Init, TypeOK
<1>4. FlagInv /\ TokenInv /\ WakeupInv /\ NoLostQuit
  BY EmptyElements DEF Init, FlagInv, TokenInv, WakeupInv, NoLostQuit
<1> QED
  BY <1>3, <1>4 DEF IInv

(* Every step keeps the invariant: one case per action. *)
LEMMA NextIInv == IInv /\ [Next]_vars => IInv'
<1> SUFFICES ASSUME IInv, [Next]_vars PROVE IInv'
  OBVIOUS
<1> USE EventLoopAssumption
<1> USE DEF IInv, TypeOK, FlagInv, TokenInv, WakeupInv, NoLostQuit,
            WakeupComing, LoopPC, ThreadPC
<1>1. ASSUME NEW t \in Threads, QueueInLoop(t) PROVE IInv'
  <2>1. t \in Actors
    BY DEF Actors
  <2>2. /\ NewFunctor(t) \in Functor
        /\ calls' \in [Actors -> Nat]
        /\ \A b \in Actors : calls'[b] <= CallBound(b)
    BY <1>1, <2>1, NewFunctorType DEF QueueInLoop
  <2>3. pendingFunctors_' \in Seq(Functor)
    BY <1>1, <2>2, AppendElements DEF QueueInLoop
  <2>4. tpc' \in [Threads -> ThreadPC] /\ tpc'[t] = "send"
    BY <1>1 DEF QueueInLoop
  <2> QED
    BY <1>1, <2>2, <2>3, <2>4 DEF QueueInLoop
<1>2. ASSUME NEW t \in Threads, Quit(t) PROVE IInv'
  <2>1. t \in Actors
    BY DEF Actors
  <2>2. /\ calls' \in [Actors -> Nat]
        /\ \A b \in Actors : calls'[b] <= CallBound(b)
    BY <1>2, <2>1, NewFunctorType DEF Quit
  <2>3. tpc' \in [Threads -> ThreadPC] /\ tpc'[t] = "send"
    BY <1>2 DEF Quit
  <2> QED
    BY <1>2, <2>2, <2>3 DEF Quit
<1>3. ASSUME NEW t \in Threads, Wakeup(t) PROVE IInv'
  BY <1>3 DEF Wakeup
<1>4. CASE LoopRunInLoop
  <2>1. /\ NewFunctor(Loop) \in Functor
        /\ calls' \in [Actors -> Nat]
        /\ \A b \in Actors : calls'[b] <= CallBound(b)
    BY <1>4, NewFunctorType DEF LoopRunInLoop, Actors
  <2>2. ran' \in Seq(Functor)
    BY <1>4, <2>1, AppendElements DEF LoopRunInLoop
  <2> QED
    BY <1>4, <2>1, <2>2 DEF LoopRunInLoop
<1>5. CASE LoopQueueInLoop
  <2>1. /\ NewFunctor(Loop) \in Functor
        /\ calls' \in [Actors -> Nat]
        /\ \A b \in Actors : calls'[b] <= CallBound(b)
    BY <1>5, NewFunctorType DEF LoopQueueInLoop, Actors
  <2>2. /\ pendingFunctors_' \in Seq(Functor)
        /\ Elements(pendingFunctors_') = Elements(pendingFunctors_) \cup {NewFunctor(Loop)}
    BY <1>5, <2>1, AppendElements DEF LoopQueueInLoop
  <2>3. TypeOK' /\ FlagInv' /\ TokenInv' /\ NoLostQuit'
    BY <1>5, <2>1, <2>2 DEF LoopQueueInLoop, InCallback
  <2>4. WakeupInv'
    <3>1. CASE lpc = "created"
      BY <1>5, <3>1, <2>2 DEF LoopQueueInLoop
    <3>2. CASE lpc # "created"
      BY <1>5, <3>2, <2>2 DEF LoopQueueInLoop, InCallback
    <3> QED BY <3>1, <3>2
  <2> QED
    BY <2>3, <2>4
<1>6. CASE LoopWakeup
  BY <1>6 DEF LoopWakeup
<1>7. CASE LoopQuit
  <2>1. /\ calls' \in [Actors -> Nat]
        /\ \A b \in Actors : calls'[b] <= CallBound(b)
    BY <1>7, NewFunctorType DEF LoopQuit, Actors
  <2> QED
    BY <1>7, <2>1 DEF LoopQuit, InCallback
<1>8. CASE StartLoop
  BY <1>8 DEF StartLoop
<1>9. CASE TestQuit
  BY <1>9 DEF TestQuit
<1>10. ASSUME NEW ready \in SUBSET Channels, PollReturn(ready) PROVE IInv'
  BY <1>10 DEF PollReturn
<1>11. CASE HandleRead
  BY <1>11 DEF HandleRead
<1>12. CASE HandleIO
  BY <1>12 DEF HandleIO
<1>13. CASE ReturnIO
  BY <1>13 DEF ReturnIO
<1>14. CASE EventsDone
  BY <1>14 DEF EventsDone
<1>15. CASE SwapFunctors
  BY <1>15, EmptyElements DEF SwapFunctors
<1>16. CASE CallFunctor
  <2>1. Head(functors) \in Functor /\ Tail(functors) \in Seq(Functor)
    BY <1>16 DEF CallFunctor
  <2>2. ran' \in Seq(Functor)
    BY <1>16, <2>1, AppendElements DEF CallFunctor
  <2> QED
    BY <1>16, <2>1, <2>2 DEF CallFunctor
<1>17. CASE ReturnFunctor
  BY <1>17 DEF ReturnFunctor
<1>18. CASE FunctorsDone
  BY <1>18 DEF FunctorsDone
<1>19. CASE Terminated \/ UNCHANGED vars
  BY <1>19 DEF Terminated, vars, Elements
<1>20. CASE PollWakeup \/ PollIO \/ PollTimeout
  BY <1>10, <1>20 DEF PollWakeup, PollIO, PollTimeout, Channels
<1> QED
  BY <1>1, <1>2, <1>3, <1>4, <1>5, <1>6, <1>7, <1>8, <1>9, <1>11, <1>12,
     <1>13, <1>14, <1>15, <1>16, <1>17, <1>18, <1>19, <1>20 DEF Next, LoopStep

(* The inductive invariant holds in every reachable state. *)
THEOREM Invariance == Spec => []IInv
  BY InitIInv, NextIInv, PTL DEF Spec

(* Every variable keeps its type: in particular the tokens in the socket    *)
(* pair stay within its capacity (wakeup, handleRead).                      *)
THEOREM TypeCorrect == Spec => []TypeOK
<1>1. IInv => TypeOK
  BY DEF IInv
<1> QED
  BY <1>1, Invariance, PTL

(* No functor submitted while the loop runs, or by another thread, is slept *)
(* through in poll() (queueInLoop, wakeup, doPendingFunctors).              *)
THEOREM WakeupNotLost == Spec => []NoLostWakeup
<1>1. IInv => NoLostWakeup
  BY DEF IInv, WakeupInv, NoLostWakeup
<1> QED
  BY <1>1, Invariance, PTL

(* No quit() that finds loop() running is slept through in poll(). *)
THEOREM QuitNotLost == Spec => []NoLostQuit
<1>1. IInv => NoLostQuit
  BY DEF IInv
<1> QED
  BY <1>1, Invariance, PTL

-----------------------------------------------------------------------------
(* Every functor queued or called has been submitted: its number is at most *)
(* the number of calls its submitter has made.                              *)
Submitted(f) == f[2] <= calls[f[1]]
UsedInv ==
    \A f \in Functor :
        f \in Elements(ran) \cup Elements(functors) \cup Elements(pendingFunctors_)
            => Submitted(f)

(* What the concatenation of the local vector and pendingFunctors_ holds,   *)
(* and where its head is.                                                   *)
LEMMA ConcatFacts ==
    ASSUME NEW S, NEW s \in Seq(S), NEW u \in Seq(S), NEW e \in S
    PROVE  /\ s \o Append(u, e) = Append(s \o u, e)
           /\ <<>> \o s = s
           /\ s \o <<>> = s
           /\ Elements(s \o u) = Elements(s) \cup Elements(u)
           /\ s # <<>> => /\ Elements(s) = {Head(s)} \cup Elements(Tail(s))
                          /\ s \o u # <<>>
                          /\ Head(s \o u) = Head(s)
                          /\ Tail(s \o u) = Tail(s) \o u
<1>1. s \o Append(u, e) = Append(s \o u, e) /\ <<>> \o s = s /\ s \o <<>> = s
  OBVIOUS
<1>2. Elements(s \o u) = Elements(s) \cup Elements(u)
  <2>1. ASSUME NEW x \in Elements(s \o u) PROVE x \in Elements(s) \cup Elements(u)
    <3>1. PICK i \in 1..Len(s \o u) : x = (s \o u)[i]
      BY DEF Elements
    <3>2. CASE i <= Len(s)
      BY <3>1, <3>2 DEF Elements
    <3>3. CASE i > Len(s)
      <4>1. i - Len(s) \in 1..Len(u) /\ x = u[i - Len(s)]
        BY <3>1, <3>3
      <4> QED BY <4>1 DEF Elements
    <3> QED BY <3>2, <3>3
  <2>2. ASSUME NEW x \in Elements(s) PROVE x \in Elements(s \o u)
    <3>1. PICK i \in 1..Len(s) : x = s[i]
      BY <2>2 DEF Elements
    <3>2. i \in 1..Len(s \o u) /\ (s \o u)[i] = x
      BY <3>1
    <3> QED BY <3>2 DEF Elements
  <2>3. ASSUME NEW x \in Elements(u) PROVE x \in Elements(s \o u)
    <3>1. PICK i \in 1..Len(u) : x = u[i]
      BY <2>3 DEF Elements
    <3>2. i + Len(s) \in 1..Len(s \o u) /\ (s \o u)[i + Len(s)] = x
      BY <3>1
    <3> QED BY <3>2 DEF Elements
  <2> QED BY <2>1, <2>2, <2>3
<1>3. ASSUME s # <<>>
      PROVE  /\ Elements(s) = {Head(s)} \cup Elements(Tail(s))
             /\ s \o u # <<>>
             /\ Head(s \o u) = Head(s)
             /\ Tail(s \o u) = Tail(s) \o u
  <2>1. s \o u # <<>> /\ Head(s \o u) = Head(s) /\ Tail(s \o u) = Tail(s) \o u
    BY <1>3
  <2>2. ASSUME NEW x \in Elements(s) PROVE x \in {Head(s)} \cup Elements(Tail(s))
    <3>1. PICK i \in 1..Len(s) : x = s[i]
      BY <2>2 DEF Elements
    <3>2. CASE i = 1
      BY <3>1, <3>2
    <3>3. CASE i # 1
      <4>1. i - 1 \in 1..Len(Tail(s)) /\ x = Tail(s)[i - 1]
        BY <1>3, <3>1, <3>3
      <4> QED BY <4>1 DEF Elements
    <3> QED BY <3>2, <3>3
  <2>3. ASSUME NEW x \in Elements(Tail(s)) PROVE x \in Elements(s)
    <3>1. PICK i \in 1..Len(Tail(s)) : x = Tail(s)[i]
      BY <2>3 DEF Elements
    <3>2. i + 1 \in 1..Len(s) /\ s[i + 1] = x
      BY <1>3, <3>1
    <3> QED BY <3>2 DEF Elements
  <2>4. Head(s) \in Elements(s)
    BY <1>3 DEF Elements
  <2> QED BY <2>1, <2>2, <2>3, <2>4
<1> QED BY <1>1, <1>2, <1>3

(* A call submits a functor that was never queued or called before. *)
LEMMA CallFresh ==
    ASSUME TypeOK, UsedInv, NEW a \in Actors, Call(a)
    PROVE  /\ NewFunctor(a) \in Functor
           /\ NewFunctor(a) \notin Elements(ran) \cup Elements(functors) \cup Elements(pendingFunctors_)
           /\ \A f \in Functor : f = NewFunctor(a) \/ Submitted(f) => Submitted(f)'
<1>1. NewFunctor(a) \in Functor
  BY NewFunctorType
<1>2. ~Submitted(NewFunctor(a))
  BY DEF TypeOK, NewFunctor, Submitted
<1>3. \A f \in Functor : f[1] \in Actors /\ f[2] \in Nat
  BY EventLoopAssumption DEF Functor
<1>4. \A f \in Functor : f = NewFunctor(a) \/ Submitted(f) => Submitted(f)'
  BY <1>3 DEF TypeOK, Call, NewFunctor, Submitted
<1> QED
  BY <1>1, <1>2, <1>4 DEF UsedInv

(* Every step keeps it that only submitted functors are queued or called. *)
LEMMA NextUsedInv == IInv /\ UsedInv /\ [Next]_vars => UsedInv'
<1> SUFFICES ASSUME IInv, UsedInv, [Next]_vars PROVE UsedInv'
  OBVIOUS
<1> USE DEF IInv, TypeOK
<1>1. ASSUME NEW t \in Threads, QueueInLoop(t) PROVE UsedInv'
  <2>1. t \in Actors
    BY DEF Actors
  <2>2. Elements(pendingFunctors_') = Elements(pendingFunctors_) \cup {NewFunctor(t)}
    BY <1>1, <2>1, CallFresh, AppendElements DEF QueueInLoop
  <2> QED
    BY <1>1, <2>1, <2>2, CallFresh DEF QueueInLoop, UsedInv
<1>2. ASSUME NEW t \in Threads, Quit(t) PROVE UsedInv'
  <2>1. t \in Actors
    BY DEF Actors
  <2> QED
    BY <1>2, <2>1, CallFresh DEF Quit, UsedInv
<1>3. CASE LoopRunInLoop
  <2>1. Loop \in Actors
    BY DEF Actors
  <2>2. Elements(ran') = Elements(ran) \cup {NewFunctor(Loop)}
    BY <1>3, <2>1, CallFresh, AppendElements DEF LoopRunInLoop
  <2> QED
    BY <1>3, <2>1, <2>2, CallFresh DEF LoopRunInLoop, UsedInv
<1>4. CASE LoopQueueInLoop
  <2>1. Loop \in Actors
    BY DEF Actors
  <2>2. Elements(pendingFunctors_') = Elements(pendingFunctors_) \cup {NewFunctor(Loop)}
    BY <1>4, <2>1, CallFresh, AppendElements DEF LoopQueueInLoop
  <2> QED
    BY <1>4, <2>1, <2>2, CallFresh DEF LoopQueueInLoop, UsedInv
<1>5. CASE LoopQuit
  <2>1. Loop \in Actors
    BY DEF Actors
  <2> QED
    BY <1>5, <2>1, CallFresh DEF LoopQuit, UsedInv
<1>6. CASE SwapFunctors
  BY <1>6, EmptyElements DEF SwapFunctors, UsedInv, Submitted
<1>7. CASE CallFunctor
  <2>1. Head(functors) \in Functor
    BY <1>7 DEF CallFunctor
  <2>2. Elements(ran') = Elements(ran) \cup {Head(functors)}
    BY <1>7, <2>1, AppendElements DEF CallFunctor
  <2>3. Elements(functors) = {Head(functors)} \cup Elements(functors')
    BY <1>7, <2>1, ConcatFacts DEF CallFunctor
  <2> QED
    BY <1>7, <2>2, <2>3 DEF CallFunctor, UsedInv, Submitted
<1>8. CASE UNCHANGED <<ran, functors, pendingFunctors_, calls>>
  BY <1>8 DEF UsedInv, Submitted
<1>9. CASE \/ \E t \in Threads : Wakeup(t)
           \/ LoopWakeup \/ StartLoop \/ TestQuit \/ HandleRead \/ HandleIO
           \/ ReturnIO \/ EventsDone \/ ReturnFunctor \/ FunctorsDone
           \/ PollWakeup \/ PollIO \/ PollTimeout \/ Terminated \/ UNCHANGED vars
  BY <1>8, <1>9
     DEF Wakeup, LoopWakeup, StartLoop, TestQuit, HandleRead, HandleIO,
         ReturnIO, EventsDone, ReturnFunctor, FunctorsDone, PollWakeup, PollIO,
         PollTimeout, PollReturn, Terminated, vars
<1> QED
  BY <1>1, <1>2, <1>3, <1>4, <1>5, <1>6, <1>7, <1>9 DEF Next, LoopStep

(* Every step of the loop is a step of the executor, or leaves its queue    *)
(* alone.                                                                   *)
LEMMA NextSimulates == IInv /\ UsedInv /\ [Next]_vars
                         => [Executor!Next]_<<functors \o pendingFunctors_, ran>>
<1> SUFFICES ASSUME IInv, UsedInv, [Next]_vars
             PROVE  Executor!Next \/ UNCHANGED <<functors \o pendingFunctors_, ran>>
  OBVIOUS
<1> DEFINE queue == functors \o pendingFunctors_
<1> USE DEF IInv, TypeOK
<1>1. Elements(queue) = Elements(functors) \cup Elements(pendingFunctors_)
  <2>1. CASE Functor = {}
    <3>1. functors = <<>> /\ pendingFunctors_ = <<>>
      BY <2>1
    <3> QED BY <3>1
  <2>2. CASE Functor # {}
    <3>1. PICK e : e \in Functor
      BY <2>2
    <3> QED BY <3>1, ConcatFacts
  <2> QED BY <2>1, <2>2
<1>2. ASSUME NEW a \in Actors, Call(a) PROVE Executor!New(NewFunctor(a))
  BY <1>1, <1>2, CallFresh DEF Executor!New, Executor!Occurs, Elements
<1>3. ASSUME NEW a \in Actors, Call(a), UNCHANGED <<functors, ran>>,
             pendingFunctors_' = Append(pendingFunctors_, NewFunctor(a))
      PROVE  Executor!Next
  <2>1. NewFunctor(a) \in Functor
    BY <1>3, CallFresh
  <2>2. queue' = Append(queue, NewFunctor(a))
    BY <1>3, <2>1, ConcatFacts
  <2>3. Executor!Submit(NewFunctor(a))
    BY <1>2, <1>3, <2>2 DEF Executor!Submit
  <2> QED
    BY <2>1, <2>3 DEF Executor!Next
<1>4. ASSUME NEW t \in Threads, QueueInLoop(t) PROVE Executor!Next
  BY <1>3, <1>4 DEF QueueInLoop, Actors
<1>5. CASE LoopQueueInLoop
  BY <1>3, <1>5 DEF LoopQueueInLoop, Actors
<1>6. CASE LoopRunInLoop
  <2>1. Loop \in Actors
    BY DEF Actors
  <2>2. Executor!CallNow(NewFunctor(Loop))
    BY <1>2, <1>6, <2>1 DEF LoopRunInLoop, Executor!CallNow
  <2> QED
    BY <1>6, <2>1, <2>2, CallFresh DEF LoopRunInLoop, Executor!Next
<1>7. CASE CallFunctor
  <2>1. Head(functors) \in Functor
    BY <1>7 DEF CallFunctor
  <2>2. queue # <<>> /\ Head(queue) = Head(functors) /\ Tail(queue) = queue'
    BY <1>7, <2>1, ConcatFacts DEF CallFunctor
  <2>3. Executor!CallHead
    BY <1>7, <2>2 DEF CallFunctor, Executor!CallHead
  <2> QED
    BY <2>3 DEF Executor!Next
<1>8. CASE SwapFunctors
  <2>1. functors = <<>>
    BY <1>8 DEF SwapFunctors, FlagInv
  <2>2. queue = pendingFunctors_ /\ queue' = pendingFunctors_
    BY <1>8, <2>1 DEF SwapFunctors
  <2> QED
    BY <1>8, <2>2 DEF SwapFunctors
<1>9. CASE UNCHANGED <<ran, functors, pendingFunctors_>>
  BY <1>9
<1>10. CASE \/ \E t \in Threads : Wakeup(t) \/ Quit(t)
            \/ LoopWakeup \/ LoopQuit \/ StartLoop \/ TestQuit \/ HandleRead
            \/ HandleIO \/ ReturnIO \/ EventsDone \/ ReturnFunctor \/ FunctorsDone
            \/ PollWakeup \/ PollIO \/ PollTimeout \/ Terminated \/ UNCHANGED vars
  BY <1>9, <1>10
     DEF Wakeup, Quit, LoopWakeup, LoopQuit, StartLoop, TestQuit, HandleRead,
         HandleIO, ReturnIO, EventsDone, ReturnFunctor, FunctorsDone, PollWakeup,
         PollIO, PollTimeout, PollReturn, Terminated, vars
<1> QED
  BY <1>4, <1>5, <1>6, <1>7, <1>8, <1>10 DEF Next, LoopStep

(* The event loop implements the FIFO executor: functors are called once    *)
(* each and in the order they were queued (queueInLoop, doPendingFunctors). *)
THEOREM Refinement == Spec => ImplementsExecutor
<1>1. Init => UsedInv
  BY EmptyElements DEF Init, UsedInv
<1>2. Init => Executor!Init
  <2>1. <<>> \o <<>> = <<>>
    OBVIOUS
  <2> QED BY <2>1 DEF Init, Executor!Init
<1> QED
  BY <1>1, <1>2, Invariance, NextUsedInv, NextSimulates, PTL
     DEF Spec, ImplementsExecutor, Executor!Spec

=============================================================================
