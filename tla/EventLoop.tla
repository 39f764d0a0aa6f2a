------------------------------ MODULE EventLoop ------------------------------
(***************************************************************************)
(* The cross-thread half of net/EventLoop.cpp: loop(), quit(),             *)
(* runInLoop(), queueInLoop(), wakeup(), handleRead() and                  *)
(* doPendingFunctors(), run by one loop thread and by other threads.       *)
(*                                                                         *)
(* A functor is identified by its submitter and the submitter's call       *)
(* number; what it does when it is called is arbitrary: it may call        *)
(* queueInLoop, runInLoop and quit any number of times.  The wakeup socket *)
(* pair is the number of 8-byte tokens written to wakeupFd_[1] and not yet *)
(* read from wakeupFd_[0].  The write end is a BLOCKING socket (the        *)
(* constructor makes wakeupFd_[0] non-blocking twice), so a send into a    *)
(* full socket buffer waits.                                               *)
(***************************************************************************)
EXTENDS Naturals, Sequences

CONSTANTS
    Threads,         \* the threads other than the loop thread
    Loop,            \* the thread that created the EventLoop
    WakeupCapacity,  \* tokens the socket pair buffers before send() blocks
    MaxCalls,        \* bound: calls into the EventLoop per foreign thread
    MaxLoopCalls     \* bound: calls by the loop thread's own callbacks

ASSUME EventLoopAssumption ==
    /\ Loop \notin Threads
    /\ WakeupCapacity \in Nat \ {0}
    /\ MaxCalls \in Nat
    /\ MaxLoopCalls \in Nat

VARIABLES
    lpc,                      \* where the loop thread is
    tpc,                      \* where each other thread is
    looping_, quit_,
    callingPendingFunctors_,
    pendingFunctors_,         \* guarded by mutex_
    functors,                 \* doPendingFunctors' local vector, what is left of it
    active,                   \* activeChannels_ still to be handled
    tokens,                   \* unread tokens of the wakeup socket pair
    calls,                    \* history: calls made by each thread
    early,                    \* history: functors the loop thread queued before loop()
    ran                       \* history: functors in the order they were called

vars == <<lpc, tpc, looping_, quit_, callingPendingFunctors_,
          pendingFunctors_, functors, active, tokens, calls, early, ran>>

Actors == Threads \cup {Loop}
CallBound(a) == IF a = Loop THEN MaxLoopCalls ELSE MaxCalls
Functor == {f \in Actors \X (1..(MaxCalls + MaxLoopCalls)) : f[2] <= CallBound(f[1])}
Channels == {"wakeup", "io"}

(* Loop thread: "created" is the owner's code before loop(); "io" and       *)
(* "body" are inside an I/O callback and inside a functor; "send" is inside *)
(* the wakeup() of a queueInLoop() made by a functor.                       *)
LoopPC == {"created", "test", "poll", "events", "io", "swap", "run", "body",
           "send", "exited"}

(* A thread other than the loop thread is outside the EventLoop, or about   *)
(* to send in wakeup().                                                     *)
ThreadPC == {"outside", "send"}

TypeOK ==
    /\ lpc \in LoopPC
    /\ tpc \in [Threads -> ThreadPC]
    /\ looping_ \in BOOLEAN
    /\ quit_ \in BOOLEAN
    /\ callingPendingFunctors_ \in BOOLEAN
    /\ pendingFunctors_ \in Seq(Functor)
    /\ functors \in Seq(Functor)
    /\ active \in SUBSET Channels
    /\ tokens \in 0..WakeupCapacity
    /\ calls \in [Actors -> Nat]
    /\ \A a \in Actors : calls[a] <= CallBound(a)
    /\ early \in SUBSET Functor
    /\ ran \in Seq(Functor)

Init ==
    /\ lpc = "created"
    /\ tpc = [t \in Threads |-> "outside"]
    /\ looping_ = FALSE
    /\ quit_ = FALSE
    /\ callingPendingFunctors_ = FALSE
    /\ pendingFunctors_ = <<>>
    /\ functors = <<>>
    /\ active = {}
    /\ tokens = 0
    /\ calls = [a \in Actors |-> 0]
    /\ early = {}
    /\ ran = <<>>

(* The next call of actor a, and the functor it submits. *)
Call(a) ==
    /\ calls[a] < CallBound(a)
    /\ calls' = [calls EXCEPT ![a] = @ + 1]

NewFunctor(a) == <<a, calls[a] + 1>>

-----------------------------------------------------------------------------
(* Threads other than the loop thread. *)

(* Mutant: the push without the wakeup(). *)
QueueInLoopNoWakeup(t) ==
    /\ tpc[t] = "outside"
    /\ Call(t)
    /\ pendingFunctors_' = Append(pendingFunctors_, NewFunctor(t))
    /\ UNCHANGED <<lpc, tpc, looping_, quit_, callingPendingFunctors_, functors,
                   active, tokens, early, ran>>

(* runInLoop() and queueInLoop() from another thread: push under mutex_. *)
QueueInLoop(t) ==
    /\ tpc[t] = "outside"
    /\ Call(t)
    /\ pendingFunctors_' = Append(pendingFunctors_, NewFunctor(t))
    /\ tpc' = [tpc EXCEPT ![t] = "send"]
    /\ UNCHANGED <<lpc, looping_, quit_, callingPendingFunctors_, functors,
                   active, tokens, early, ran>>

(* Mutant: the flag without the wakeup(). *)
QuitNoWakeup(t) ==
    /\ tpc[t] = "outside"
    /\ Call(t)
    /\ quit_' = TRUE
    /\ UNCHANGED <<lpc, tpc, looping_, callingPendingFunctors_, pendingFunctors_,
                   functors, active, tokens, early, ran>>

(* quit() from another thread: set the flag, then wake the loop up. *)
Quit(t) ==
    /\ tpc[t] = "outside"
    /\ Call(t)
    /\ quit_' = TRUE
    /\ tpc' = [tpc EXCEPT ![t] = "send"]
    /\ UNCHANGED <<lpc, looping_, callingPendingFunctors_, pendingFunctors_,
                   functors, active, tokens, early, ran>>

(* wakeup() from another thread: send() returns once there is room. *)
Wakeup(t) ==
    /\ tpc[t] = "send"
    /\ tokens < WakeupCapacity
    /\ tokens' = tokens + 1
    /\ tpc' = [tpc EXCEPT ![t] = "outside"]
    /\ UNCHANGED <<lpc, looping_, quit_, callingPendingFunctors_,
                   pendingFunctors_, functors, active, calls, early, ran>>

-----------------------------------------------------------------------------
(* Calls the loop thread makes: from its own code before loop(), from an    *)
(* I/O callback, or from a functor.                                         *)
InCallback == lpc \in {"created", "io", "body"}

(* runInLoop() in the loop thread calls the functor at once. *)
LoopRunInLoop ==
    /\ InCallback
    /\ Call(Loop)
    /\ ran' = Append(ran, NewFunctor(Loop))
    /\ UNCHANGED <<lpc, tpc, looping_, quit_, callingPendingFunctors_,
                   pendingFunctors_, functors, active, tokens, early>>

(* Mutant: queueInLoop() in the loop thread never calls wakeup(). *)
LoopQueueInLoopNoWakeup ==
    /\ InCallback
    /\ Call(Loop)
    /\ pendingFunctors_' = Append(pendingFunctors_, NewFunctor(Loop))
    /\ early' = IF lpc = "created" THEN early \cup {NewFunctor(Loop)} ELSE early
    /\ UNCHANGED <<lpc, tpc, looping_, quit_, callingPendingFunctors_, functors,
                   active, tokens, ran>>

(* queueInLoop() in the loop thread: wakeup() only while the pending        *)
(* functors are being called.                                               *)
LoopQueueInLoop ==
    /\ InCallback
    /\ Call(Loop)
    /\ pendingFunctors_' = Append(pendingFunctors_, NewFunctor(Loop))
    /\ lpc' = IF callingPendingFunctors_ THEN "send" ELSE lpc
    /\ early' = IF lpc = "created" THEN early \cup {NewFunctor(Loop)} ELSE early
    /\ UNCHANGED <<tpc, looping_, quit_, callingPendingFunctors_, functors,
                   active, tokens, ran>>

LoopWakeup ==
    /\ lpc = "send"
    /\ tokens < WakeupCapacity
    /\ tokens' = tokens + 1
    /\ lpc' = "body"
    /\ UNCHANGED <<tpc, looping_, quit_, callingPendingFunctors_,
                   pendingFunctors_, functors, active, calls, early, ran>>

LoopQuit ==
    /\ InCallback
    /\ Call(Loop)
    /\ quit_' = TRUE
    /\ UNCHANGED <<lpc, tpc, looping_, callingPendingFunctors_,
                   pendingFunctors_, functors, active, tokens, early, ran>>

-----------------------------------------------------------------------------
(* loop() *)

StartLoop ==
    /\ lpc = "created"
    /\ looping_' = TRUE
    /\ quit_' = FALSE
    /\ lpc' = "test"
    /\ UNCHANGED <<tpc, callingPendingFunctors_, pendingFunctors_, functors,
                   active, tokens, calls, early, ran>>

TestQuit ==
    /\ lpc = "test"
    /\ lpc' = IF quit_ THEN "exited" ELSE "poll"
    /\ looping_' = ~quit_
    /\ UNCHANGED <<tpc, quit_, callingPendingFunctors_, pendingFunctors_,
                   functors, active, tokens, calls, early, ran>>

(* poll() returns with the active channels: the wakeup channel whenever its *)
(* socket is readable, and possibly another channel.                        *)
PollReturn(ready) ==
    /\ lpc = "poll"
    /\ ("wakeup" \in ready) <=> (tokens > 0)
    /\ active' = ready
    /\ lpc' = "events"
    /\ UNCHANGED <<tpc, looping_, quit_, callingPendingFunctors_,
                   pendingFunctors_, functors, tokens, calls, early, ran>>

PollWakeup == \E ready \in SUBSET Channels : "wakeup" \in ready /\ PollReturn(ready)
PollIO == PollReturn({"io"})
PollTimeout == PollReturn({})      \* kPollTimeMs elapsed

(* Mutant: the token is left in the socket pair. *)
HandleReadNoRecv ==
    /\ lpc = "events"
    /\ "wakeup" \in active
    /\ active' = active \ {"wakeup"}
    /\ UNCHANGED <<lpc, tpc, looping_, quit_, callingPendingFunctors_,
                   pendingFunctors_, functors, tokens, calls, early, ran>>

(* handleRead() of the wakeup channel: one recv() of one token. *)
HandleRead ==
    /\ lpc = "events"
    /\ "wakeup" \in active
    /\ active' = active \ {"wakeup"}
    /\ tokens' = tokens - 1
    /\ UNCHANGED <<lpc, tpc, looping_, quit_, callingPendingFunctors_,
                   pendingFunctors_, functors, calls, early, ran>>

HandleIO ==
    /\ lpc = "events"
    /\ "io" \in active
    /\ active' = active \ {"io"}
    /\ lpc' = "io"
    /\ UNCHANGED <<tpc, looping_, quit_, callingPendingFunctors_,
                   pendingFunctors_, functors, tokens, calls, early, ran>>

ReturnIO ==
    /\ lpc = "io"
    /\ lpc' = "events"
    /\ UNCHANGED <<tpc, looping_, quit_, callingPendingFunctors_,
                   pendingFunctors_, functors, active, tokens, calls, early, ran>>

EventsDone ==
    /\ lpc = "events"
    /\ active = {}
    /\ lpc' = "swap"
    /\ callingPendingFunctors_' = TRUE
    /\ UNCHANGED <<tpc, looping_, quit_, pendingFunctors_, functors, active,
                   tokens, calls, early, ran>>

(* Mutant: a copy instead of the swap. *)
SwapFunctorsCopy ==
    /\ lpc = "swap"
    /\ functors' = pendingFunctors_
    /\ lpc' = "run"
    /\ UNCHANGED <<tpc, looping_, quit_, callingPendingFunctors_,
                   pendingFunctors_, active, tokens, calls, early, ran>>

(* doPendingFunctors(): swap under mutex_, then call one after the other. *)
SwapFunctors ==
    /\ lpc = "swap"
    /\ functors' = pendingFunctors_
    /\ pendingFunctors_' = <<>>
    /\ lpc' = "run"
    /\ UNCHANGED <<tpc, looping_, quit_, callingPendingFunctors_, active,
                   tokens, calls, early, ran>>

CallFunctor ==
    /\ lpc = "run"
    /\ functors # <<>>
    /\ ran' = Append(ran, Head(functors))
    /\ functors' = Tail(functors)
    /\ lpc' = "body"
    /\ UNCHANGED <<tpc, looping_, quit_, callingPendingFunctors_,
                   pendingFunctors_, active, tokens, calls, early>>

ReturnFunctor ==
    /\ lpc = "body"
    /\ lpc' = "run"
    /\ UNCHANGED <<tpc, looping_, quit_, callingPendingFunctors_,
                   pendingFunctors_, functors, active, tokens, calls, early, ran>>

FunctorsDone ==
    /\ lpc = "run"
    /\ functors = <<>>
    /\ callingPendingFunctors_' = FALSE
    /\ lpc' = "test"
    /\ UNCHANGED <<tpc, looping_, quit_, pendingFunctors_, functors, active,
                   tokens, calls, early, ran>>

-----------------------------------------------------------------------------
(* What the loop thread does by itself, callbacks returning included; not   *)
(* the poll results that depend on the network or on the clock.             *)
LoopStep ==
    \/ StartLoop \/ TestQuit \/ PollWakeup \/ HandleRead \/ HandleIO
    \/ ReturnIO \/ EventsDone \/ SwapFunctors \/ CallFunctor \/ ReturnFunctor
    \/ FunctorsDone \/ LoopWakeup

(* After loop() returned nobody reads the socket pair: a thread whose send  *)
(* found it full stays there.                                               *)
Terminated ==
    /\ lpc = "exited"
    /\ \A t \in Threads : tpc[t] = "outside" \/ tokens = WakeupCapacity
    /\ UNCHANGED vars

Next ==
    \/ LoopStep
    \/ PollIO \/ PollTimeout
    \/ LoopRunInLoop \/ LoopQueueInLoop \/ LoopQuit
    \/ \E t \in Threads : QueueInLoop(t) \/ Quit(t) \/ Wakeup(t)
    \/ Terminated

Spec == Init /\ [][Next]_vars

(* The loop thread and a thread inside wakeup() keep running.  Nothing is   *)
(* assumed of poll timeouts, of I/O events, or of calls being made.         *)
FairSpec ==
    /\ Spec
    /\ WF_vars(LoopStep)
    /\ \A t \in Threads : WF_vars(Wakeup(t))

-----------------------------------------------------------------------------
Elements(s) == {s[i] : i \in 1..Len(s)}

(* A wakeup token is in the socket pair, or a thread is about to send one. *)
WakeupComing == tokens > 0 \/ \E t \in Threads : tpc[t] = "send"

(* No lost wakeup (queueInLoop pushes and then wakes, doPendingFunctors     *)
(* swaps outside the wakeup): whenever the loop thread is blocked in poll() *)
(* or is on its way there and a functor is pending that was not queued by   *)
(* the loop thread before loop(), a token is in the socket pair or a thread *)
(* is about to send one, so poll() returns without waiting for kPollTimeMs. *)
NoLostWakeup ==
    lpc \in {"test", "poll"} /\ ~(Elements(pendingFunctors_) \subseteq early)
        => WakeupComing

(* A quit() that finds the loop running is not slept through: while quit_   *)
(* is set and the loop thread is in poll(), a wakeup is coming.             *)
NoLostQuit == lpc = "poll" /\ quit_ => WakeupComing

(* The loop thread never waits in its own wakeup() for room in a socket     *)
(* only it reads (EventLoop constructor: both ends are asserted to be       *)
(* non-blocking).                                                           *)
LoopNeverBlocksItself == lpc = "send" => tokens < WakeupCapacity

(* Every functor that was queued after loop() started, or by another        *)
(* thread, is called in the end without help from the poll timeout, unless  *)
(* the loop is told to quit (runInLoop, queueInLoop).                       *)
QueuedIsCalled ==
    \A f \in Functor :
        (f \in Elements(pendingFunctors_) \ early) ~> (f \in Elements(ran) \/ quit_)

(* quit() while loop() is running makes loop() return. *)
QuitStopsLoop == (quit_ /\ looping_) ~> (lpc = "exited")

(* A thread that calls queueInLoop() or quit() returns from it as long as   *)
(* the loop runs, even when the socket pair is full.                        *)
WakeupReturns ==
    \A t \in Threads : (tpc[t] = "send") ~> (tpc[t] = "outside" \/ ~looping_)

(* The EventLoop is a FIFO executor of functors: FunctorExecutor's queue is *)
(* what is left of doPendingFunctors' vector followed by pendingFunctors_.  *)
Executor == INSTANCE FunctorExecutor WITH
    Functor <- Functor,
    queue   <- functors \o pendingFunctors_,
    done    <- ran

(* Every step of the event loop is a step of that executor or changes       *)
(* nothing of it: functors are called once each, in queueInLoop order,      *)
(* except the ones runInLoop calls at once in the loop thread.              *)
ImplementsExecutor == Executor!Spec

=============================================================================
