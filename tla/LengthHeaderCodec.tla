------------------------- MODULE LengthHeaderCodec --------------------------
(***************************************************************************)
(* The chat server's codec: a frame is a signed 32-bit big-endian length   *)
(* and that many bytes.  ChatServer sends each message to every member of  *)
(* connections_; out is what one of them is sent.                          *)
(***************************************************************************)
EXTENDS Stream

kHeaderLen == 4
kMaxLen == 65536

NewChat == [buf |-> <<>>, out |-> <<>>, shut |-> FALSE, abort |-> FALSE]

(* networkToHost32() of a signed value. *)
Int32(b) ==
    ((IF b[1] < 128 THEN b[1] ELSE b[1] - 256) * 256 + b[2]) * 65536 + b[3] * 256 + b[4]

(* send(): hostToNetwork32(len) prepended to the message.                     *)
EncodeFrame(msg) ==
    <<0, Len(msg) \div 65536, (Len(msg) \div 256) % 256, Len(msg) % 256>> \o msg

(* ChatServer::onStringMessage() *)
OnStringMessage(s, msg) == SendTo(s, EncodeFrame(msg))

FrameComplete(buf, len) == Len(buf) >= len + kHeaderLen

(* onMessage(): a wrong length shuts the connection down and stays in the     *)
(* buffer.                                                                    *)
RECURSIVE OnChatMessage(_)
OnChatMessage(s) ==
    LET len == Int32(s.buf)
        msg == SubSeq(s.buf, kHeaderLen + 1, kHeaderLen + len)
    IN  IF Len(s.buf) < kHeaderLen THEN s
        ELSE IF len > kMaxLen \/ len < 0 THEN ShutdownConn(s)
        ELSE IF FrameComplete(s.buf, len)
             THEN OnChatMessage([OnStringMessage(s, msg) EXCEPT
                                    !.buf = Retrieve(@, kHeaderLen + len)])
             ELSE s

-----------------------------------------------------------------------------
(* Reference: a script is a sequence of frames, good ones and wrong headers;   *)
(* the good ones before the first wrong one come back.                         *)
WrongHeaders == {<<255, 255, 255, 255>>, <<0, 1, 0, 1>>}

RECURSIVE FramesBefore(_)
FramesBefore(script) ==
    IF script = <<>> \/ Head(script) \in WrongHeaders THEN <<>>
    ELSE <<Head(script)>> \o FramesBefore(Tail(script))
=============================================================================
