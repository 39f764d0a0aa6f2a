----------------------------- MODULE FastMutex ------------------------------
(***************************************************************************)
(* fast_mutex: a spin lock around one integer.  try_lock() exchanges it    *)
(* with 1 and looks at what was there; lock() repeats that.  A thread that *)
(* wants the mutex takes it either with lock() or with one try_lock().     *)
(***************************************************************************)
EXTENDS Integers, FiniteSets

CONSTANT Threads

VARIABLES
    mLock,     \* 0 or 1
    pc,        \* where each thread is
    oldLock    \* what its exchange found

vars == <<mLock, pc, oldLock>>

Init ==
    /\ mLock = 0
    /\ pc = [t \in Threads |-> "out"]
    /\ oldLock = [t \in Threads |-> 0]

(* lock(), or try_lock() alone. *)
Enter(t) ==
    /\ pc[t] = "out"
    /\ \E way \in {"locking", "trying"} : pc' = [pc EXCEPT ![t] = way]
    /\ UNCHANGED <<mLock, oldLock>>

(* Mutant: a plain read in the place of the exchange.                          *)
ExchangeSplit(t) ==
    /\ pc[t] \in {"locking", "trying"}
    /\ oldLock' = [oldLock EXCEPT ![t] = mLock]
    /\ pc' = [pc EXCEPT ![t] = IF @ = "locking" THEN "lockTest" ELSE "tryTest"]
    /\ UNCHANGED mLock

(* try_lock(): xchg is one step. *)
Exchange(t) ==
    /\ pc[t] \in {"locking", "trying"}
    /\ oldLock' = [oldLock EXCEPT ![t] = mLock]
    /\ mLock' = 1
    /\ pc' = [pc EXCEPT ![t] = IF @ = "locking" THEN "lockTest" ELSE "tryTest"]

(* return (oldLock == 0): lock() sleeps and tries again, try_lock() fails.      *)
TestOld(t) ==
    /\ pc[t] \in {"lockTest", "tryTest"}
    /\ pc' = [pc EXCEPT ![t] = IF oldLock[t] = 0 THEN "in"
                               ELSE IF @ = "lockTest" THEN "locking" ELSE "out"]
    /\ UNCHANGED <<mLock, oldLock>>

unlock(t) ==
    /\ pc[t] = "in"
    /\ pc' = [pc EXCEPT ![t] = "out"]
    /\ mLock' = 0
    /\ UNCHANGED oldLock

Next == \E t \in Threads : Enter(t) \/ Exchange(t) \/ TestOld(t) \/ unlock(t)

Spec == Init /\ [][Next]_vars

-----------------------------------------------------------------------------
TypeOK ==
    /\ mLock \in {0, 1}
    /\ pc \in [Threads -> {"out", "locking", "trying", "lockTest", "tryTest", "in"}]
    /\ oldLock \in [Threads -> {0, 1}]

(* A thread whose exchange found 0 owns the mutex. *)
Owns(t) == pc[t] = "in" \/ (pc[t] \in {"lockTest", "tryTest"} /\ oldLock[t] = 0)

(* At most one thread is between lock() and unlock(), however the exchanges    *)
(* of lock() and of failing try_lock() calls interleave, and while the mutex   *)
(* is marked as taken there is a thread that will release it.                  *)
MutualExclusion ==
    /\ \A t, u \in Threads : pc[t] = "in" /\ pc[u] = "in" => t = u
    /\ mLock = 1 <=> \E t \in Threads : Owns(t)
=============================================================================
