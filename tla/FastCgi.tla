------------------------------ MODULE FastCgi -------------------------------
(***************************************************************************)
(* The FastCGI codec.  The stream is a sequence of bytes (numbers): record *)
(* headers of 8 bytes, contents and padding.  A request is begun by        *)
(* BEGIN_REQUEST, its parameters and its input come in any number of       *)
(* PARAMS and STDIN records, each closed by an empty one.                  *)
(***************************************************************************)
EXTENDS Stream

CONSTANT BodyLimit      \* 65536: respond() makes no record of a longer answer

kBeginRequest == 1
kEndRequest == 3
kParams == 4
kStdin == 5
kStdout == 6
kHeader == 8

(* FastCgiCodec() *)
NewFastCgi == [buf |-> <<>>, out |-> <<>>, shut |-> FALSE, abort |-> FALSE,
               gotRequest |-> FALSE, keepConn |-> FALSE, stdin |-> <<>>,
               paramsStream |-> <<>>, params |-> {}]

(* readLen() of the bytes at the front of b: [len, used], used = 0 when they  *)
(* are not all there.  A length above 127 takes four bytes, the top bit off.  *)
ReadLen(b) ==
    IF b = <<>> THEN [len |-> 0, used |-> 0]
    ELSE IF b[1] < 128 THEN [len |-> b[1], used |-> 1]
    ELSE IF Len(b) < 4 THEN [len |-> 0, used |-> 0]
    ELSE [len |-> ((b[1] - 128) * 256 + b[2]) * 65536 + b[3] * 256 + b[4], used |-> 4]

(* parseAllParams(): name-value pairs until the stream is used up or a pair   *)
(* is not complete; what was parsed stays in params_.                         *)
RECURSIVE ParseAllParams(_)
ParseAllParams(s) ==
    LET b  == s.paramsStream
        nl == ReadLen(b)
        r1 == Retrieve(b, nl.used)
        vl == ReadLen(r1)
        r2 == Retrieve(r1, vl.used)
        name  == SubSeq(r2, 1, nl.len)
        value == SubSeq(r2, nl.len + 1, nl.len + vl.len)
    IN  IF b = <<>> THEN s
        ELSE IF nl.used = 0 \/ vl.used = 0 \/ Len(r2) < nl.len + vl.len
             THEN [s EXCEPT !.paramsStream = IF vl.used = 0 THEN r1 ELSE r2]
        ELSE ParseAllParams([s EXCEPT
                !.paramsStream = Retrieve(r2, nl.len + vl.len),
                !.params = {p \in @ : p[1] # name} \cup {<<name, value>>}])

OnParams(s, content) ==
    IF content # <<>> THEN [s EXCEPT !.paramsStream = @ \o content]
    ELSE ParseAllParams(s)

OnStdin(s, content) ==
    IF content # <<>> THEN [s EXCEPT !.stdin = @ \o content]
    ELSE [s EXCEPT !.gotRequest = TRUE]

(* onBeginRequest(): role is big-endian in the first two bytes.               *)
OnBeginRequest(s, content) ==
    IF Len(content) >= kHeader /\ content[1] * 256 + content[2] = 1
    THEN [s EXCEPT !.keepConn = (content[3] = 1)]
    ELSE s

(* The size of the record at the front of the buffer: the length is           *)
(* big-endian in bytes 5 and 6, the padding is byte 7.                         *)
RecordTotal(b) == kHeader + b[5] * 256 + b[6] + b[7]

(* parseRequest(): every complete record; other types are skipped.             *)
RECURSIVE ParseRecords(_)
ParseRecords(s) ==
    LET b       == s.buf
        content == SubSeq(b, kHeader + 1, kHeader + b[5] * 256 + b[6])
        s1      == CASE b[2] = kBeginRequest -> OnBeginRequest(s, content)
                     [] b[2] = kParams       -> OnParams(s, content)
                     [] b[2] = kStdin        -> OnStdin(s, content)
                     [] OTHER                -> s
    IN  IF Len(b) < kHeader \/ Len(b) < RecordTotal(b) THEN s
        ELSE ParseRecords([s1 EXCEPT !.buf = Retrieve(@, RecordTotal(b))])

-----------------------------------------------------------------------------
(* RecordHeader as respond(), endStdout() and endRequest() fill it: version  *)
(* 1, request id 1.                                                          *)
RecordHeader(type, length, padding) ==
    <<1, type, 0, 1, length \div 256, length % 256, padding, 0>>

(* -n & 7 *)
PadTo8(n) == (8 - (n % 8)) % 8
Zeros(n) == [i \in 1..n |-> 0]

EndStdout(buf) == buf \o RecordHeader(kStdout, 0, 0)

(* endRequest(): the header it makes is not appended, two zero words are.    *)
EndRequest(buf) == buf \o Zeros(8)

(* Mutant: an answer of BodyLimit bytes still gets a record.                  *)
RespondAtLimit(response) ==
    LET n == Len(response) IN
    EndRequest(EndStdout(IF n <= BodyLimit
                         THEN RecordHeader(kStdout, n, PadTo8(n)) \o response \o Zeros(PadTo8(n))
                         ELSE response))

(* respond(): the answer in a STDOUT record padded to eight bytes, or as it  *)
(* is when it is too long, an empty STDOUT record, and the end.  A Buffer    *)
(* that was only appended to always has kCheapPrepend = 8 bytes for the      *)
(* header.                                                                   *)
Respond(response) ==
    LET n == Len(response) IN
    EndRequest(EndStdout(IF n < BodyLimit
                         THEN RecordHeader(kStdout, n, PadTo8(n)) \o response \o Zeros(PadTo8(n))
                         ELSE response))

(* The application: its own text, and what it was sent, so that its answers   *)
(* differ in length.                                                          *)
Body(in) == <<72, 105>> \o in

(* onMessage(): the callback, with what parseRequest() collected; then the     *)
(* request is forgotten and the line closed unless it is to be kept.           *)
OnFastCgiMessage(s0) ==
    LET s  == ParseRecords(s0)
        s1 == SendTo(s, [params |-> s.params, stdin |-> s.stdin,
                         bytes |-> Respond(Body(s.stdin))])
        s2 == [s1 EXCEPT !.stdin = <<>>, !.paramsStream = <<>>, !.params = {},
                         !.gotRequest = FALSE]
    IN  IF ~s.gotRequest THEN s
        ELSE IF s.keepConn THEN s2 ELSE ShutdownConn(s2)

-----------------------------------------------------------------------------
(* Reference: a request is [keep, params (a sequence of pairs), stdin, cut,    *)
(* pad]; the web server cuts the parameter stream after cut bytes and pads     *)
(* every record by pad bytes.                                                  *)

Record(type, content, padding) ==
    LET n == Len(content) IN
    <<1, type, 0, 1, n \div 256, n % 256, padding, 0>> \o content \o Zeros(padding)

LenBytes(n, long) ==
    IF long THEN <<128 + (n \div 16777216), (n \div 65536) % 256, (n \div 256) % 256, n % 256>>
    ELSE <<n>>

EncodeParams(params) ==
    FlattenSeq([i \in DOMAIN params |->
        LenBytes(Len(params[i][1]), FALSE) \o LenBytes(Len(params[i][2]), i % 2 = 0)
        \o params[i][1] \o params[i][2]])

EncodeFastCgi(r) ==
    LET ps == EncodeParams(r.params)
        Sent(type, content) == IF content = <<>> THEN <<>> ELSE Record(type, content, r.pad)
    IN  Record(kBeginRequest, <<0, 1, IF r.keep THEN 1 ELSE 0, 0, 0, 0, 0, 0>>, 0)
        \o Sent(kParams, SubSeq(ps, 1, r.cut)) \o Sent(kParams, Retrieve(ps, r.cut))
        \o Record(kParams, <<>>, 0)
        \o Sent(kStdin, r.stdin) \o Record(kStdin, <<>>, 0)

(* The comment at FastCgiCodec.cpp:70-71 says that an answer is sent in        *)
(* FCGI_STDOUT records and ends with FCGI_END_REQUEST.  What the peer gets     *)
(* differs from that in two ways: the END_REQUEST record comes without its     *)
(* header, and an answer of BodyLimit bytes or more is in no record.           *)
FastCgiReply(body) ==
    (IF Len(body) < BodyLimit THEN Record(kStdout, body, PadTo8(Len(body))) ELSE body)
    \o Record(kStdout, <<>>, 0)
    \o Retrieve(Record(kEndRequest, Zeros(8), 0), kHeader)

FastCgiAnswer(r) ==
    [params |-> ToSet(r.params), stdin |-> r.stdin, bytes |-> FastCgiReply(Body(r.stdin))]

RECURSIVE FastCgiAnswersTo(_)
FastCgiAnswersTo(script) ==
    IF script = <<>> THEN <<>>
    ELSE <<FastCgiAnswer(Head(script))>>
         \o IF Head(script).keep THEN FastCgiAnswersTo(Tail(script)) ELSE <<>>
=============================================================================
