--------------------------- MODULE FunctorExecutor ---------------------------
(***************************************************************************)
(* What EventLoop::runInLoop and EventLoop::queueInLoop promise            *)
(* (net/EventLoop.h): a queue of functors that one thread calls one at a   *)
(* time, each once, in the order they were queued.  runInLoop in that      *)
(* thread does not queue: it calls the functor ahead of the queued ones.   *)
(***************************************************************************)
EXTENDS Sequences, Naturals

CONSTANT Functor

VARIABLES queue, done

Occurs(f, s) == \E i \in 1..Len(s) : s[i] = f

New(f) == ~Occurs(f, queue) /\ ~Occurs(f, done)

Init == queue = <<>> /\ done = <<>>

Submit(f) ==
    /\ New(f)
    /\ queue' = Append(queue, f)
    /\ UNCHANGED done

CallHead ==
    /\ queue # <<>>
    /\ done' = Append(done, Head(queue))
    /\ queue' = Tail(queue)

CallNow(f) ==
    /\ New(f)
    /\ done' = Append(done, f)
    /\ UNCHANGED queue

Next == CallHead \/ \E f \in Functor : Submit(f) \/ CallNow(f)

Spec == Init /\ [][Next]_<<queue, done>>

=============================================================================
