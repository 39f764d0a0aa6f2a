------------------------------ MODULE LogFile ------------------------------
(***************************************************************************)
(* LogFile over FileUtil::AppendFile as functions of a record: the files   *)
(* written so far, each with its opening second and its content, and the   *)
(* counters that decide when to roll.  A record counts for one byte.       *)
(***************************************************************************)
EXTENDS Integers, Sequences

CONSTANTS RollSize,       \* rollSize_
          RollPerSeconds, \* kRollPerSeconds_, a day
          CheckEveryN,    \* checkEveryN_
          FlushInterval   \* flushInterval_

PeriodOf(now) == now \div RollPerSeconds

(* rollFile(): the name holds the second, so at most one file a second.    *)
RollFile(lf, now) ==
    IF now > lf.lastRoll
    THEN [lf EXCEPT !.lastRoll = now, !.lastFlush = now, !.period = PeriodOf(now),
                    !.written = 0, !.flushed = TRUE,
                    !.files = Append(@, [second |-> now, content |-> <<>>])]
    ELSE lf

(* The constructor rolls once; the clock is past 0. *)
Fresh(now) ==
    RollFile([files |-> <<>>, lastRoll |-> 0, lastFlush |-> 0, period |-> 0,
              count |-> 0, written |-> 0, flushed |-> TRUE], now)

Flush(lf) == [lf EXCEPT !.flushed = TRUE]

(* AppendFile::append(): all bytes go to stdio's buffer. *)
FileAppend(lf, recs) ==
    [lf EXCEPT !.files[Len(lf.files)].content = @ \o recs,
               !.written = @ + Len(recs), !.flushed = FALSE]

(* append_unlocked(). *)
AppendTo(lf, recs, now) ==
    LET a == FileAppend(lf, recs)
        b == [a EXCEPT !.count = IF @ + 1 >= CheckEveryN THEN 0 ELSE @ + 1]
    IN  IF a.written > RollSize THEN RollFile(a, now)
        ELSE IF b.count # 0 THEN b
        ELSE IF PeriodOf(now) # b.period THEN RollFile(b, now)
        ELSE IF now - b.lastFlush > FlushInterval
             THEN Flush([b EXCEPT !.lastFlush = now])
        ELSE b
=============================================================================
