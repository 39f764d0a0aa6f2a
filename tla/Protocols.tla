----------------------------- MODULE Protocols ------------------------------
(***************************************************************************)
(* The message callbacks of the protocol servers, driven by a TCP stream:  *)
(* a peer writes the messages of a script, and TcpConnection::handleRead() *)
(* appends whatever segment arrived to the input buffer and calls the      *)
(* message callback.  The peer either writes everything at once            *)
(* (pipelined) or one message after the other was read.                    *)
(***************************************************************************)
EXTENDS HttpServer, Memcached, FastCgi, PubSubCodec, LengthHeaderCodec,
        EchoServers

CONSTANTS Scripts,   \* [protocol -> its scripts, sequences of messages]
          CacheKeys  \* of memcached

VARIABLES
    proto,      \* the server's protocol
    script,     \* what the peer writes
    pipelined,
    sent,       \* how many messages are written
    wire,       \* what is written and not read
    sess        \* the session

vars == <<proto, script, pipelined, sent, wire, sess>>

Encode(p, m) ==
    CASE p \in {"http", "http404"} -> EncodeHttp(m)
      [] p = "memcached"           -> EncodeMemcached(m)
      [] p = "fastcgi"             -> EncodeFastCgi(m)
      [] p = "hub"                 -> EncodeCommand(m)
      [] p = "clock"               -> EncodeClock(m)
      [] p \in {"chat", "echo"}    -> m

NewSession(p) ==
    CASE p \in {"http", "http404"} -> NewHttp
      [] p = "memcached"           -> NewMemcached
      [] p = "fastcgi"             -> NewFastCgi
      [] p = "hub"                 -> NewHubSession
      [] p = "chat"                -> NewChat
      [] p \in {"clock", "echo"}   -> NewEcho

OnMessage(p, s) ==
    CASE p = "http"      -> OnHttpMessage(s, FALSE)
      [] p = "http404"   -> OnHttpMessage(s, TRUE)
      [] p = "memcached" -> OnMemcachedMessage(s)
      [] p = "fastcgi"   -> OnFastCgiMessage(s)
      [] p = "hub"       -> OnHubMessage(s)
      [] p = "chat"      -> OnChatMessage(s)
      [] p = "clock"     -> OnClockMessage(s)
      [] p = "echo"      -> OnEchoMessage(s)

(* What a whole script is answered. *)
Answers(p, ms) ==
    CASE p = "http"      -> HttpAnswersTo(ms, FALSE)
      [] p = "http404"   -> HttpAnswersTo(ms, TRUE)
      [] p = "memcached" -> MemcachedReplies(ms, [k \in CacheKeys |-> <<>>], 0, <<>>)
      [] p = "fastcgi"   -> FastCgiAnswersTo(ms)
      [] p = "hub"       -> CommandsOf(ms)
      [] p = "chat"      -> FramesBefore(ms)
      [] p = "clock"     -> ClockAnswers(ms)
      [] p = "echo"      -> FlattenSeq(ms)

(* A web server does not send the next FastCGI request before the last one    *)
(* is answered.                                                               *)
Init ==
    /\ proto \in DOMAIN Scripts
    /\ script \in Scripts[proto]
    /\ pipelined \in (IF proto = "fastcgi" THEN {FALSE} ELSE BOOLEAN)
    /\ sent = IF pipelined THEN Len(script) ELSE 0
    /\ wire = FlattenSeq([i \in 1..sent |-> Encode(proto, script[i])])
    /\ sess = NewSession(proto)

Write ==
    /\ wire = <<>> /\ sent < Len(script)
    /\ sent' = sent + 1
    /\ wire' = Encode(proto, script[sent + 1])
    /\ UNCHANGED <<proto, script, pipelined, sess>>

(* handleRead() with the next n tokens; a failed assert() ends the process.   *)
Read ==
    /\ ~sess.abort
    /\ \E n \in 1..Len(wire) :
        /\ wire' = Retrieve(wire, n)
        /\ sess' = OnMessage(proto, [sess EXCEPT !.buf = @ \o SubSeq(wire, 1, n)])
    /\ UNCHANGED <<proto, script, pipelined, sent>>

Next == Write \/ Read

Spec == Init /\ [][Next]_vars

-----------------------------------------------------------------------------
(* What is answered is, at all times and whatever the segments, the start of  *)
(* what the script is answered; it is all of it once everything is consumed,  *)
(* and without pipelining as soon as everything is read.                      *)
Exact ==
    /\ IsPrefix(sess.out, Answers(proto, script))
    /\ wire = <<>> /\ (sess.buf = <<>> \/ ~pipelined) =>
           sess.out = Answers(proto, SubSeq(script, 1, sent))

(* HTTP: every request gets its own answer, made from its own request line    *)
(* and headers, and a connection is closed exactly when the request asks for  *)
(* it, although a parse may stop after any token and go on in the next call.  *)
(* HttpRequest's assert(method_ == kInvalid) does fail, in one case: a line   *)
(* with a good method and a bad version has been answered with 400 and is     *)
(* still in the buffer, and the peer's next byte arrives.  It fails with that *)
(* byte, and in no other case.                                                *)
HttpExact ==
    proto \in {"http", "http404"} =>
        LET bad  == {i \in DOMAIN script : BadRequest(script[i])}
            dies == bad # {} /\ script[Min(bad)].method \in Methods
        IN  /\ Exact
            /\ sess.abort => dies /\ sess.out = Answers(proto, SubSeq(script, 1, Min(bad)))
            /\ dies /\ ~pipelined /\ sent > Min(bad) /\ wire # Encode(proto, script[sent])
               => sess.abort

(* memcached: values are binary safe, a refused or malformed value is         *)
(* discarded exactly, noreply is of one request only; what a get with a bad   *)
(* key had found comes with the next get.  No assert of Session fails; Item's *)
(* assert(valuelen_ >= 2) does, exactly at the first length that is negative  *)
(* as an int, unless one that swallows the rest came before it.               *)
MemcachedExact ==
    proto = "memcached" =>
        LET ends == {i \in DOMAIN script : Negative(script[i]) \/ Swallows(script[i])}
            dies == ends # {} /\ Negative(script[Min(ends)])
        IN  /\ Exact
            /\ sess.abort => dies /\ sess.out = Answers(proto, script)
            /\ dies /\ wire = <<>> /\ sent >= Min(ends) => sess.abort

(* FastCGI, hub, chat, clock and echo: parameters and input are reassembled   *)
(* from any number of records, commands, frames and bytes are taken whole,    *)
(* once, and in order, and the counters of the echo server are right.  An     *)
(* answer of FastCGI is what FastCgiReply says: without the header of its     *)
(* END_REQUEST, and in no record when it is BodyLimit bytes or longer.        *)
CodecExact ==
    proto \in {"fastcgi", "hub", "chat", "clock", "echo"} =>
        /\ Exact /\ ~sess.abort
        /\ proto = "echo" => sess.transferred = Len(sess.out)
=============================================================================
