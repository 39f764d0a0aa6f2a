---------------------------- MODULE PubSubCodec -----------------------------
(***************************************************************************)
(* parseMessage() and the loops of the hub and of its clients over it.     *)
(***************************************************************************)
EXTENDS Stream

(* A session of the hub; out is what it carried out.                        *)
NewHubSession == [buf |-> <<>>, out |-> <<>>, shut |-> FALSE, abort |-> FALSE]

(* parseMessage(): [result, msg, used]; a pub is taken with its content or   *)
(* not at all.                                                               *)
ParseMessage(buf) ==
    LET crlf  == FindCRLF(buf, 1)
        line  == SubSeq(buf, 1, crlf - 1)
        sp    == Find(line, " ")
        cmd   == SubSeq(line, 1, sp - 1)
        topic == Retrieve(line, sp)
        end   == FindCRLF(buf, crlf + 2)
        Result(r, content, used) ==
            [result |-> r, msg |-> <<cmd, topic, content>>, used |-> used]
    IN  CASE crlf = 0 -> Result("Continue", <<>>, 0)
          [] crlf # 0 /\ sp > Len(line) -> Result("Error", <<>>, 0)
          [] crlf # 0 /\ sp <= Len(line) /\ cmd # <<"pub">> ->
                Result("Success", <<>>, crlf + 1)
          [] crlf # 0 /\ sp <= Len(line) /\ cmd = <<"pub">> ->
                IF end = 0 THEN Result("Continue", <<>>, 0)
                ELSE Result("Success", SubSeq(buf, crlf + 2, end - 1), end + 1)

Commands == {<<"pub">>, <<"sub">>, <<"unsub">>}

(* PubSubServer::onMessage(); carrying a command out is recorded in out.      *)
RECURSIVE OnHubMessage(_)
OnHubMessage(s) ==
    LET p  == ParseMessage(s.buf)
        s1 == [s EXCEPT !.buf = Retrieve(@, p.used)]
    IN  CASE p.result = "Continue" -> s
          [] p.result = "Error" -> ShutdownConn(s)
          [] p.result = "Success" ->
                IF p.msg[1] \in Commands
                THEN OnHubMessage([s1 EXCEPT !.out = Append(@, p.msg)])
                ELSE ShutdownConn(s1)

-----------------------------------------------------------------------------
(* Reference: a command <<cmd, topic, content>>; <<>> for a line without a    *)
(* space.                                                                     *)
EncodeCommand(c) ==
    IF c = <<>> THEN <<"noise">> \o CRLF
    ELSE c[1] \o <<" ">> \o c[2] \o CRLF
         \o IF c[1] = <<"pub">> THEN c[3] \o CRLF ELSE <<>>

(* What is carried out: all but unknown commands, up to a malformed line.     *)
RECURSIVE CommandsOf(_)
CommandsOf(script) ==
    IF script = <<>> \/ Head(script) = <<>> THEN <<>>
    ELSE (IF Head(script)[1] \in Commands THEN <<Head(script)>> ELSE <<>>)
         \o CommandsOf(Tail(script))
=============================================================================
