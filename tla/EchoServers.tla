---------------------------- MODULE EchoServers -----------------------------
(***************************************************************************)
(* The servers that send back what they get: the clock server of roundtrip *)
(* (whole frames, the second half replaced by the receive time) and the    *)
(* echo servers and clients of netty and pingpong, which count.            *)
(***************************************************************************)
EXTENDS Stream

NewEcho == [buf |-> <<>>, out |-> <<>>, shut |-> FALSE, abort |-> FALSE,
            transferred |-> 0, receivedMessages |-> 0]

(* A frame is two 64-bit numbers; here a number is two bytes.                *)
frameLen == 4

(* serverMessageCallback(); 0 stands for the receive time.                   *)
RECURSIVE OnClockMessage(_)
OnClockMessage(s) ==
    IF Len(s.buf) < frameLen THEN s
    ELSE OnClockMessage([SendTo(s, SubSeq(s.buf, 1, 2) \o <<0, 0>>) EXCEPT
                            !.buf = Retrieve(@, frameLen)])

(* onMessage(): everything readable is counted and sent back.                *)
OnEchoMessage(s) ==
    [s EXCEPT !.buf = <<>>, !.out = @ \o s.buf,
              !.transferred = @ + Len(s.buf), !.receivedMessages = @ + 1]

(* Reference: sendMyTime() sends a time and zeros.                           *)
EncodeClock(time) == time \o <<0, 0>>
ClockAnswers(times) == [i \in DOMAIN times |-> EncodeClock(times[i])]
=============================================================================
