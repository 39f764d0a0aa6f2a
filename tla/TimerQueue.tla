----------------------------- MODULE TimerQueue -----------------------------
(***************************************************************************)
(* net/TimerQueue.cpp with net/Timer.h, on its Windows path: the two sets  *)
(* of timers, the alarm of the Windows timer queue that writes a token to  *)
(* a socket pair, handleRead() and the cancellation protocol.              *)
(*                                                                         *)
(* Timers are heap objects at addresses that are used again; a TimerId is  *)
(* an address and a sequence number.  One client thread calls addTimer()   *)
(* and cancel() through EventLoop::runInLoop's queue (modelled and checked *)
(* as EventLoop.tla), and the loop thread calls them directly, from timer  *)
(* callbacks or in between.  Time is counted in units of which the real    *)
(* code has 100 in MinDelay, 1000 in Ms and 2^32 in Word.                  *)
(***************************************************************************)
EXTENDS Integers, Sequences, FiniteSets

CONSTANTS
    Addr,       \* addresses a Timer may be allocated at
    None,       \* no address, no alarm
    Delays,     \* delays a caller may ask for; a delay may lie in the past
    Intervals,  \* intervals a caller may ask for; 0 is "once"
    MinDelay,   \* resetTimerWin's smallest delay
    Ms,         \* time units per millisecond, CreateTimerQueueTimer's unit
    Word,       \* the range of a DWORD
    MaxTimers,  \* bound: timers created
    MaxTime,    \* bound: the clock
    ShareIds    \* TRUE: the client passes a TimerId to the loop thread at once

ASSUME TimerQueueAssumption ==
    /\ None \notin Addr /\ None \notin Nat
    /\ Delays \subseteq Int /\ Intervals \subseteq Nat
    /\ MinDelay \in Nat \ {0} /\ Ms \in Nat \ {0} /\ Word \in Nat \ {0}
    /\ MaxTimers \in Nat /\ MaxTime \in Nat
    /\ ShareIds \in BOOLEAN

VARIABLES
    heap,             \* address -> the Timer there, possibly deleted
    numCreated,       \* Timer::s_numCreated_
    timers_,          \* set of <<expiration, address>>
    activeTimers_,    \* set of <<address, sequence>>
    callingExpiredTimers_,
    cancelingTimers_,
    expired,          \* handleRead's local vector, as a set
    toRun,            \* the part of it not called yet
    readTime,         \* handleRead's local now
    now,              \* the clock
    alarm,            \* when hTimer_ goes off, or None
    routines,         \* TimerRoutine calls that have not written yet
    tokens,           \* unread tokens of the socket pair
    pending,          \* the client's calls queued in the EventLoop
    reading,          \* the Timer whose sequence() the client's addTimer() will read
    ids,              \* TimerIds returned to callers
    added,            \* history: TimerIds addTimerInLoop has inserted
    cancelled         \* history: TimerIds cancelInLoop has been called with

vars == <<heap, numCreated, timers_, activeTimers_, callingExpiredTimers_,
          cancelingTimers_, expired, toRun, readTime, now, alarm, routines,
          tokens, pending, reading, ids, added, cancelled>>

Seqs == 0..MaxTimers           \* 0 is no timer's sequence number
TimerIds == Addr \X Seqs

Init ==
    /\ heap = [a \in Addr |-> [live |-> FALSE, exp |-> 0, interval |-> 0, seq |-> 0]]
    /\ numCreated = 0
    /\ timers_ = {} /\ activeTimers_ = {}
    /\ callingExpiredTimers_ = FALSE /\ cancelingTimers_ = {}
    /\ expired = {} /\ toRun = {} /\ readTime = 0
    /\ now = 0 /\ alarm = None /\ routines = 0 /\ tokens = 0
    /\ pending = <<>> /\ reading = None
    /\ ids = {} /\ added = {} /\ cancelled = {}

Id(a) == <<a, heap[a].seq>>

(* delete: of the freed memory only the sequence number can still be read. *)
Deleted(timer) == [timer EXCEPT !.live = FALSE, !.exp = 0, !.interval = 0]

Earliest(ts) == CHOOSE e \in ts : \A f \in ts : e[1] <= f[1]

-----------------------------------------------------------------------------
(* resetTimerWin(): at least MinDelay; the 64-bit difference is cut to a    *)
(* DWORD before it is divided down to milliseconds.                         *)
DueTime(us) == ((IF us < MinDelay THEN MinDelay ELSE us) % Word) \div Ms

(* The old alarm is deleted without waiting for a TimerRoutine under way. *)
ResetTimer(expiration) == alarm' = now + DueTime(expiration - now) * Ms

(* Mutants: only the first timer, and never the first timer, sets the alarm. *)
EarliestChangedFirst(when) == timers_ = {}
EarliestChangedLater(when) == timers_ /= {} /\ when < Earliest(timers_)[1]

(* insert() of a timer whose expiration is when: earliestChanged, ... *)
EarliestChanged(when) == timers_ = {} \/ when < Earliest(timers_)[1]

(* ... and both sets, for a set of timers <<address, expiration, sequence>>. *)
Insert(new) ==
    /\ timers_' = timers_ \cup {<<n[2], n[1]>> : n \in new}
    /\ activeTimers_' = activeTimers_ \cup {<<n[1], n[3]>> : n \in new}

(* getExpired(): every timer that is due leaves both sets. *)
GetExpired ==
    /\ expired' = {e \in timers_ : e[1] <= now}
    /\ timers_' = timers_ \ expired'
    /\ activeTimers_' = activeTimers_ \ {Id(e[2]) : e \in expired'}

(* new Timer(cb, when, interval) at a free address. *)
NewTimer(a, when, interval) ==
    /\ numCreated < MaxTimers
    /\ ~heap[a].live
    /\ numCreated' = numCreated + 1
    /\ heap' = [heap EXCEPT ![a] =
          [live |-> TRUE, exp |-> when, interval |-> interval, seq |-> numCreated + 1]]

(* addTimerInLoop() *)
AddTimerInLoop(a, timer) ==
    /\ Insert({<<a, timer.exp, timer.seq>>})
    /\ added' = added \cup {<<a, timer.seq>>}
    /\ IF EarliestChanged(timer.exp) THEN ResetTimer(timer.exp) ELSE UNCHANGED alarm

(* Mutant: the timer is erased from activeTimers_ only. *)
CancelInLoopHalf(id) ==
    /\ IF id \in activeTimers_
       THEN /\ activeTimers_' = activeTimers_ \ {id}
            /\ heap' = [heap EXCEPT ![id[1]] = Deleted(@)]
            /\ UNCHANGED <<timers_, cancelingTimers_>>
       ELSE /\ cancelingTimers_' = IF callingExpiredTimers_
                                   THEN cancelingTimers_ \cup {id} ELSE cancelingTimers_
            /\ UNCHANGED <<timers_, activeTimers_, heap>>
    /\ cancelled' = cancelled \cup {id}

(* cancelInLoop(): an active timer is erased and deleted, one that is being *)
(* called is remembered for reset().                                        *)
CancelInLoop(id) ==
    /\ IF id \in activeTimers_
       THEN /\ timers_' = timers_ \ {<<heap[id[1]].exp, id[1]>>}
            /\ activeTimers_' = activeTimers_ \ {id}
            /\ heap' = [heap EXCEPT ![id[1]] = Deleted(@)]
            /\ UNCHANGED cancelingTimers_
       ELSE /\ cancelingTimers_' = IF callingExpiredTimers_
                                   THEN cancelingTimers_ \cup {id} ELSE cancelingTimers_
            /\ UNCHANGED <<timers_, activeTimers_, heap>>
    /\ cancelled' = cancelled \cup {id}

-----------------------------------------------------------------------------
(* The client thread: addTimer() allocates and queues, then builds the      *)
(* TimerId from the Timer it no longer owns.                                *)
ClientAdd(a, delay, interval) ==
    /\ reading = None
    /\ NewTimer(a, now + delay, interval)
    /\ pending' = Append(pending, <<"add", <<a, numCreated + 1>>>>)
    /\ reading' = a
    /\ UNCHANGED <<timers_, activeTimers_, callingExpiredTimers_, cancelingTimers_,
                   expired, toRun, readTime, now, alarm, routines, tokens, ids,
                   added, cancelled>>

(* timer->sequence(): of freed memory, it is what was there or anything     *)
(* else (0 stands for a number no timer has).                               *)
ClientReadSequence ==
    /\ reading # None
    /\ \E s \in {heap[reading].seq} \cup (IF heap[reading].live THEN {} ELSE {0}) :
          ids' = ids \cup {<<reading, s>>}
    /\ reading' = None
    /\ UNCHANGED <<heap, numCreated, timers_, activeTimers_, callingExpiredTimers_,
                   cancelingTimers_, expired, toRun, readTime, now, alarm, routines,
                   tokens, pending, added, cancelled>>

ClientCancel(id) ==
    /\ reading = None
    /\ id \in ids
    /\ <<"cancel", id>> \notin {pending[i] : i \in 1..Len(pending)}
    /\ pending' = Append(pending, <<"cancel", id>>)
    /\ UNCHANGED <<heap, numCreated, timers_, activeTimers_, callingExpiredTimers_,
                   cancelingTimers_, expired, toRun, readTime, now, alarm, routines,
                   tokens, reading, ids, added, cancelled>>

(* doPendingFunctors() calls the client's next queued functor. *)
RunPendingAdd ==
    /\ ~callingExpiredTimers_
    /\ pending # <<>> /\ Head(pending)[1] = "add"
    /\ LET a == Head(pending)[2][1] IN AddTimerInLoop(a, heap[a])
    /\ pending' = Tail(pending)
    /\ UNCHANGED <<heap, numCreated, callingExpiredTimers_, cancelingTimers_, expired,
                   toRun, readTime, now, routines, tokens, reading, ids, cancelled>>

RunPendingCancel ==
    /\ ~callingExpiredTimers_
    /\ pending # <<>> /\ Head(pending)[1] = "cancel"
    /\ CancelInLoop(Head(pending)[2])
    /\ pending' = Tail(pending)
    /\ UNCHANGED <<numCreated, callingExpiredTimers_, expired, toRun, readTime, now,
                   alarm, routines, tokens, reading, ids, added>>

-----------------------------------------------------------------------------
(* The loop thread, in a timer callback or in between. *)
InCallback == callingExpiredTimers_ => toRun # expired

LoopAdd(a, delay, interval) ==
    /\ InCallback
    /\ NewTimer(a, now + delay, interval)
    /\ AddTimerInLoop(a, [exp |-> now + delay, seq |-> numCreated + 1])
    /\ ids' = ids \cup {<<a, numCreated + 1>>}
    /\ UNCHANGED <<callingExpiredTimers_, cancelingTimers_, expired, toRun, readTime,
                   now, routines, tokens, pending, reading, cancelled>>

LoopCancel(id) ==
    /\ InCallback
    /\ id \in ids
    /\ ShareIds \/ id \in added
    /\ CancelInLoop(id)
    /\ UNCHANGED <<numCreated, callingExpiredTimers_, expired, toRun, readTime, now,
                   alarm, routines, tokens, pending, reading, ids, added>>

-----------------------------------------------------------------------------
(* handleRead(): one token is read, and the expired timers are to be run.   *)
HandleRead ==
    /\ ~callingExpiredTimers_
    /\ tokens > 0
    /\ tokens' = tokens - 1
    /\ readTime' = now
    /\ GetExpired
    /\ toRun' = expired'
    /\ callingExpiredTimers_' = TRUE
    /\ cancelingTimers_' = {}
    /\ UNCHANGED <<heap, numCreated, now, alarm, routines, pending, reading, ids,
                   added, cancelled>>

(* it->second->run(), in the order of timers_. *)
RunTimer ==
    /\ toRun # {}
    /\ \E e \in toRun : /\ \A f \in toRun : e[1] <= f[1]
                        /\ toRun' = toRun \ {e}
    /\ UNCHANGED <<heap, numCreated, timers_, activeTimers_, callingExpiredTimers_,
                   cancelingTimers_, expired, readTime, now, alarm, routines, tokens,
                   pending, reading, ids, added, cancelled>>

(* Mutant: a cancellation during the callbacks is forgotten. *)
RepeatsAlways(e) == heap[e[2]].interval > 0

(* reset(): what repeats and was not cancelled is inserted again, the rest  *)
(* is deleted; the alarm is set for the earliest timer there is.            *)
Repeats(e) == heap[e[2]].interval > 0 /\ Id(e[2]) \notin cancelingTimers_

Reset ==
    /\ callingExpiredTimers_
    /\ toRun = {}
    /\ callingExpiredTimers_' = FALSE
    /\ LET again == {e[2] : e \in {x \in expired : Repeats(x)}}
       IN  /\ heap' = [a \in Addr |->
                 IF a \in again THEN [heap[a] EXCEPT !.exp = readTime + heap[a].interval]
                 ELSE IF \E e \in expired : e[2] = a THEN Deleted(heap[a])
                 ELSE heap[a]]
           /\ Insert({<<a, heap'[a].exp, heap[a].seq>> : a \in again})
    /\ IF timers_' # {} THEN ResetTimer(Earliest(timers_')[1]) ELSE UNCHANGED alarm
    /\ expired' = {} /\ readTime' = 0        \* the locals end here
    /\ UNCHANGED <<numCreated, cancelingTimers_, toRun, now, routines, tokens,
                   pending, reading, ids, added, cancelled>>

-----------------------------------------------------------------------------
(* The Windows timer queue: TimerRoutine starts in a pool thread, and then  *)
(* writes a token.                                                          *)
AlarmFires ==
    /\ alarm # None
    /\ now >= alarm
    /\ alarm' = None
    /\ routines' = routines + 1
    /\ UNCHANGED <<heap, numCreated, timers_, activeTimers_, callingExpiredTimers_,
                   cancelingTimers_, expired, toRun, readTime, now, tokens, pending,
                   reading, ids, added, cancelled>>

TimerRoutine ==
    /\ routines > 0
    /\ routines' = routines - 1
    /\ tokens' = tokens + 1
    /\ UNCHANGED <<heap, numCreated, timers_, activeTimers_, callingExpiredTimers_,
                   cancelingTimers_, expired, toRun, readTime, now, alarm, pending,
                   reading, ids, added, cancelled>>

Tick ==
    /\ now < MaxTime
    /\ now' = now + 1
    /\ UNCHANGED <<heap, numCreated, timers_, activeTimers_, callingExpiredTimers_,
                   cancelingTimers_, expired, toRun, readTime, alarm, routines, tokens,
                   pending, reading, ids, added, cancelled>>

LoopStep == HandleRead \/ RunTimer \/ Reset \/ RunPendingAdd \/ RunPendingCancel

Next ==
    \/ \E a \in Addr, d \in Delays, i \in Intervals : ClientAdd(a, d, i) \/ LoopAdd(a, d, i)
    \/ ClientReadSequence
    \/ \E id \in ids : ClientCancel(id) \/ LoopCancel(id)
    \/ LoopStep
    \/ AlarmFires \/ TimerRoutine \/ Tick

Spec == Init /\ [][Next]_vars

(* The loop thread, the timer pool threads and the clock keep going. *)
FairSpec ==
    /\ Spec
    /\ WF_vars(HandleRead) /\ WF_vars(RunTimer) /\ WF_vars(Reset)
    /\ WF_vars(RunPendingAdd) /\ WF_vars(RunPendingCancel)
    /\ WF_vars(AlarmFires) /\ WF_vars(TimerRoutine) /\ WF_vars(Tick)

-----------------------------------------------------------------------------
(* timers_ and activeTimers_ hold the same timers, each once and under its  *)
(* current expiration, none of them is in the batch being called, and all   *)
(* that the queue, the batch and a queued addTimerInLoop point to is not    *)
(* deleted (the asserts of insert, cancelInLoop and getExpired; the deletes *)
(* of cancelInLoop and reset).                                              *)
TimersAgree ==
    /\ timers_ = {<<heap[id[1]].exp, id[1]>> : id \in activeTimers_}
    /\ \A id \in activeTimers_ : id = Id(id[1])
    /\ \A e \in expired : Id(e[2]) \notin activeTimers_
    /\ \A e \in timers_ \cup expired : heap[e[2]].live
    /\ \A i \in 1..Len(pending) : pending[i][1] = "add" =>
          heap[pending[i][2][1]].live /\ Id(pending[i][2][1]) = pending[i][2]

(* The alarm is never late: while there are timers, a token is on its way   *)
(* or the alarm goes off at the latest when the earliest timer is due, or   *)
(* MinDelay from now (resetTimerWin, insert's earliestChanged, reset).      *)
AlarmInTime ==
    ~callingExpiredTimers_ /\ timers_ # {} =>
        \/ tokens + routines > 0
        \/ /\ alarm # None
           /\ alarm <= Earliest(timers_)[1] \/ alarm <= now + MinDelay

(* A cancelled timer stays out: once cancelInLoop() was called with its     *)
(* TimerId it is not, and never again becomes, one of the active timers,    *)
(* even if it is a repeating one that is being called at that time.         *)
CancelledStaysOut == cancelled \cap activeTimers_ = {}

(* A timer that is due is taken out and called, or cancelled, in the end,   *)
(* however often the alarm was reset, early or stale before.                *)
OverdueFires ==
    \A id \in TimerIds :
        (id \in activeTimers_ /\ heap[id[1]].exp <= now /\ now + MinDelay <= MaxTime)
            ~> (id \notin activeTimers_)

=============================================================================
