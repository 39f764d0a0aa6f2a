------------------------------- MODULE Stream -------------------------------
(***************************************************************************)
(* What the message callbacks of the example servers share: a session is a *)
(* record with the connection's input buffer (buf, a sequence of tokens),  *)
(* what was sent to the peer (out), and whether shutdown() was called      *)
(* (shut).  Session records of the protocols add their own fields.         *)
(***************************************************************************)
EXTENDS Integers, Sequences, SequencesExt, FiniteSetsExt

CRLF == <<"CR", "LF">>

(* Buffer::findCRLF(start): the index of the first CR LF at or after i, or 0. *)
FindCRLF(buf, i) ==
    LET hits == {k \in i..Len(buf) - 1 : buf[k] = "CR" /\ buf[k + 1] = "LF"}
    IN  IF hits = {} THEN 0 ELSE Min(hits)

(* std::find() over a line: the first index of t, or one past the end.      *)
Find(line, t) ==
    LET k == SelectInSeq(line, LAMBDA x : x = t) IN IF k = 0 THEN Len(line) + 1 ELSE k

(* Buffer::retrieve(). *)
Retrieve(buf, n) == SubSeq(buf, n + 1, Len(buf))

(* TcpConnection::send() is refused once the connection is not kConnected,  *)
(* shutdown() makes it kDisconnecting; input still arrives.                 *)
SendTo(s, msg) == IF s.shut THEN s ELSE [s EXCEPT !.out = Append(@, msg)]
ShutdownConn(s) == [s EXCEPT !.shut = TRUE]
=============================================================================
