----------------------------- MODULE MCEventLoop -----------------------------
(* TLC instance of EventLoop with two socket pairs: a roomy one, and a full   *)
(* one that holds a single token, so that foreign threads wait in send().     *)
(* With the full one the loop's own callbacks queue nothing: the loop thread  *)
(* would wait for itself (run EventLoop_selfblock).                           *)
EXTENDS EventLoop

VARIABLE pair

Full == INSTANCE EventLoop WITH WakeupCapacity <- 1, MaxLoopCalls <- 0

MCInit == pair \in {"roomy", "full"} /\ Init

MCNext ==
    \/ pair = "roomy" /\ Next /\ UNCHANGED pair
    \/ pair = "full" /\ Full!Next /\ UNCHANGED pair

MCLoopStep ==
    \/ pair = "roomy" /\ LoopStep
    \/ pair = "full" /\ Full!LoopStep
MCWakeup(t) ==
    \/ pair = "roomy" /\ Wakeup(t)
    \/ pair = "full" /\ Full!Wakeup(t)

(* FairSpec's fairness, with either socket pair. *)
MCSpec ==
    /\ MCInit /\ [][MCNext]_<<vars, pair>>
    /\ WF_vars(MCLoopStep)
    /\ \A t \in Threads : WF_vars(MCWakeup(t))
=============================================================================
