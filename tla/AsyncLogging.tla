---------------------------- MODULE AsyncLogging ----------------------------
(***************************************************************************)
(* AsyncLogging: front-end threads append records to currentBuffer_ under  *)
(* mutex_; the logging thread swaps full buffers out, writes them to its   *)
(* LogFile and recycles two of them.  The front-end threads differ only in *)
(* the order in which they get the mutex, so one stream of numbered        *)
(* records stands for them all.  A buffer is the sequence of its records.  *)
(***************************************************************************)
EXTENDS Integers, Sequences, SequencesExt

CONSTANTS BufferSize,    \* records that fit into a buffer
          DropAbove,     \* 25: more buffers than this are dropped
          MaxRecords, MaxTime,   \* bounds on the records and on the clock
          RollSize, RollPerSeconds, CheckEveryN, FlushInterval

L == INSTANCE LogFile

VARIABLES
    running,        \* running_
    latch,          \* latch_
    caller,         \* the thread that calls start() and stop()
    currentBuffer, buffers, toWrite,
    nextBuffer, newBuffer1, newBuffer2,   \* these spare buffers exist
    writer,         \* where the logging thread is
    output,         \* its LogFile
    now,
    appended,       \* number of records appended
    dropped,        \* the records of dropped buffers
    fault

vars == <<running, latch, caller, currentBuffer, buffers, toWrite, nextBuffer,
          newBuffer1, newBuffer2, writer, output, now, appended, dropped, fault>>

frontVars == <<currentBuffer, buffers, nextBuffer>>
backVars == <<toWrite, newBuffer1, newBuffer2, output, dropped, fault>>

Init ==
    /\ running = FALSE /\ latch = 1 /\ caller = "idle"
    /\ currentBuffer = <<>> /\ buffers = <<>> /\ toWrite = <<>>
    /\ nextBuffer = TRUE /\ newBuffer1 = TRUE /\ newBuffer2 = TRUE
    /\ writer = "none" /\ output = L!Fresh(1)
    /\ now = 1 /\ appended = 0 /\ dropped = {} /\ fault = FALSE

-----------------------------------------------------------------------------
(* start() and stop(). *)
Start ==
    /\ caller = "idle" /\ caller' = "starting"
    /\ running' = TRUE /\ writer' = "created"
    /\ UNCHANGED <<latch, frontVars, backVars, now, appended>>

Started ==
    /\ caller = "starting" /\ latch = 0 /\ caller' = "started"
    /\ UNCHANGED <<running, latch, writer, frontVars, backVars, now, appended>>

(* running_ is written and cond_ notified without the lock: the notify()   *)
(* may come before the wait().                                             *)
Stop ==
    /\ caller = "started" /\ running /\ running' = FALSE
    /\ UNCHANGED <<latch, caller, writer, frontVars, backVars, now, appended>>

NotifyStop ==
    /\ caller = "started" /\ ~running /\ caller' = "joining"
    /\ writer' = IF writer = "waiting" THEN "swapping" ELSE writer
    /\ UNCHANGED <<running, latch, frontVars, backVars, now, appended>>

Join ==
    /\ caller = "joining" /\ writer = "returned" /\ caller' = "stopped"
    /\ UNCHANGED <<running, latch, writer, frontVars, backVars, now, appended>>

-----------------------------------------------------------------------------
(* append(). *)
AppendRecord ==
    /\ appended < MaxRecords /\ caller # "idle"
    /\ appended' = appended + 1
    /\ IF Len(currentBuffer) < BufferSize
       THEN /\ currentBuffer' = Append(currentBuffer, appended')
            /\ UNCHANGED <<buffers, nextBuffer, writer>>
       ELSE /\ buffers' = Append(buffers, currentBuffer)
            /\ nextBuffer' = FALSE
            /\ currentBuffer' = <<appended'>>
            /\ writer' = IF writer = "waiting" THEN "swapping" ELSE writer
    /\ UNCHANGED <<running, latch, caller, backVars, now>>

-----------------------------------------------------------------------------
(* threadFunc(). *)
CountDown ==
    /\ writer = "created" /\ latch' = latch - 1 /\ writer' = "testing"
    /\ UNCHANGED <<running, caller, frontVars, backVars, now, appended>>

TestRunning ==
    /\ writer = "testing"
    /\ writer' = IF running THEN "locking" ELSE "returned"
    /\ output' = IF running THEN output ELSE L!Flush(output)
    /\ UNCHANGED <<running, latch, caller, frontVars, toWrite, newBuffer1, newBuffer2,
                   dropped, fault, now, appended>>

(* "unusual usage": the emptiness is tested once, before the timed wait(). *)
Lock ==
    /\ writer = "locking"
    /\ writer' = IF buffers = <<>> THEN "waiting" ELSE "swapping"
    /\ UNCHANGED <<running, latch, caller, frontVars, backVars, now, appended>>

WaitTimeout ==
    /\ writer = "waiting" /\ writer' = "swapping"
    /\ UNCHANGED <<running, latch, caller, frontVars, backVars, now, appended>>

(* Mutant: the current buffer is put before the full ones. *)
SwapBuffersFront ==
    /\ writer = "swapping" /\ writer' = "dropping"
    /\ toWrite' = <<currentBuffer>> \o buffers
    /\ buffers' = <<>> /\ currentBuffer' = <<>> /\ newBuffer1' = FALSE
    /\ newBuffer2' = (newBuffer2 /\ nextBuffer) /\ nextBuffer' = TRUE
    /\ UNCHANGED <<running, latch, caller, output, dropped, fault, now, appended>>

(* Mutant: the swap only waits for a full buffer. *)
SwapBuffersFull ==
    /\ writer = "swapping" /\ writer' = "dropping"
    /\ toWrite' = buffers /\ buffers' = <<>>
    /\ newBuffer2' = (newBuffer2 /\ nextBuffer) /\ nextBuffer' = TRUE
    /\ UNCHANGED <<running, latch, caller, currentBuffer, newBuffer1, output, dropped,
                   fault, now, appended>>

SwapBuffers ==
    /\ writer = "swapping" /\ writer' = "dropping"
    /\ toWrite' = Append(buffers, currentBuffer)
    /\ buffers' = <<>> /\ currentBuffer' = <<>> /\ newBuffer1' = FALSE
    /\ newBuffer2' = (newBuffer2 /\ nextBuffer) /\ nextBuffer' = TRUE
    /\ UNCHANGED <<running, latch, caller, output, dropped, fault, now, appended>>

(* What a sequence of buffers holds. *)
RecordsOf(bufs) == UNION {ToSet(bufs[i]) : i \in DOMAIN bufs}

(* Logs that pile up: all but two buffers are dropped, with a note (0).    *)
Drop ==
    /\ writer = "dropping" /\ writer' = "writing"
    /\ IF Len(toWrite) > DropAbove
       THEN /\ output' = L!AppendTo(output, <<0>>, now)
            /\ toWrite' = SubSeq(toWrite, 1, 2)
            /\ dropped' = dropped \cup RecordsOf(SubSeq(toWrite, 3, Len(toWrite)))
       ELSE UNCHANGED <<output, toWrite, dropped>>
    /\ fault' = (fault \/ toWrite = <<>>)
    /\ UNCHANGED <<running, latch, caller, frontVars, newBuffer1, newBuffer2, now,
                   appended>>

(* The buffers that have been written are kept, empty, at the end. *)
WriteBuffer ==
    /\ writer = "writing" /\ \E i \in DOMAIN toWrite : toWrite[i] # <<>>
    /\ LET i == CHOOSE j \in DOMAIN toWrite :
                   toWrite[j] # <<>> /\ \A m \in 1..j - 1 : toWrite[m] = <<>>
       IN  /\ output' = L!AppendTo(output, toWrite[i], now)
           /\ toWrite' = [toWrite EXCEPT ![i] = <<>>]
    /\ UNCHANGED <<running, latch, caller, frontVars, newBuffer1, newBuffer2, dropped,
                   fault, writer, now, appended>>

(* newBuffer1 and newBuffer2 are filled up again from the written buffers. *)
Recycle ==
    /\ writer = "writing" /\ \A i \in DOMAIN toWrite : toWrite[i] = <<>>
    /\ LET need == (IF newBuffer1 THEN 0 ELSE 1) + (IF newBuffer2 THEN 0 ELSE 1) IN
        fault' = (fault \/ Len(toWrite) < need)
    /\ newBuffer1' = TRUE /\ newBuffer2' = TRUE
    /\ toWrite' = <<>>
    /\ output' = L!Flush(output)
    /\ writer' = "testing"
    /\ UNCHANGED <<running, latch, caller, frontVars, dropped, now, appended>>

Tick ==
    /\ now < MaxTime /\ now' = now + 1
    /\ UNCHANGED <<running, latch, caller, writer, frontVars, backVars, appended>>

-----------------------------------------------------------------------------
WriterStep ==
    \/ CountDown \/ TestRunning \/ Lock \/ WaitTimeout \/ SwapBuffers \/ Drop
    \/ WriteBuffer \/ Recycle

Next ==
    \/ Start \/ Started \/ Stop \/ NotifyStop \/ Join
    \/ AppendRecord \/ WriterStep \/ Tick

Spec == Init /\ [][Next]_vars

(* The logging thread runs, its wait() ends after flushInterval_, and a     *)
(* caller of stop() goes on to join().                                      *)
Fairness == WF_vars(WriterStep) /\ WF_vars(NotifyStop \/ Join)

-----------------------------------------------------------------------------
Written == [i \in DOMAIN output.files |-> output.files[i].content]

(* The records of a sequence of buffers come in the order in which they were *)
(* appended, and once; the notes (0) do not count.                           *)
Ordered(bufs) ==
    \A i, m \in DOMAIN bufs : \A j \in DOMAIN bufs[i], n \in DOMAIN bufs[m] :
        /\ i < m \/ (i = m /\ j < n)
        /\ bufs[i][j] # 0 /\ bufs[m][n] # 0
        => bufs[i][j] < bufs[m][n]

(* The files, the buffers that are being written, the full ones and the      *)
(* current one hold, in this order and each once, all records that were      *)
(* appended, except whole buffers that were dropped; no assert on the spare  *)
(* buffers fails, and no file is opened twice: its name holds the second in  *)
(* which the log was rolled.                                                 *)
LogExact ==
    LET line == Written \o toWrite \o buffers \o <<currentBuffer>> IN
    /\ ~fault
    /\ \A i \in 2..Len(output.files) : output.files[i - 1].second < output.files[i].second
    /\ RecordsOf(line) \ {0} = (1..appended) \ dropped
    /\ Ordered(line)

(* The records of the front-end: append() has taken them, no swap has.       *)
Waiting == RecordsOf(Append(buffers, currentBuffer))

Kept(r) == r \in dropped \/ (output.flushed /\ r \in RecordsOf(Written))

(* A record is written and flushed without further appends, even if its      *)
(* buffer never fills up: one appended before the logging thread has swapped *)
(* is, whenever stop() comes, and while the logger is not stopped the thread *)
(* always swaps again.  So what stop() leaves in the buffers for good is     *)
(* what was appended after the last swap before threadFunc() found running_  *)
(* false, and nothing it swapped.  stop() returns even if its notify() comes *)
(* too early.                                                                *)
FlushedInTime ==
    LET beforeSwap == writer \in {"locking", "waiting", "swapping"} IN
    /\ \A r \in 1..MaxRecords : r \in Waiting /\ beforeSwap ~> Kept(r)
    /\ caller = "started" /\ running ~> beforeSwap \/ ~running
    /\ [](writer = "returned" => toWrite = <<>> /\ output.flushed)
    /\ caller = "started" /\ ~running ~> caller = "stopped"
=============================================================================
