----------------------------- MODULE HttpServer -----------------------------
(***************************************************************************)
(* The HTTP server: HttpContext's incremental parser over the input        *)
(* buffer, HttpRequest, and HttpServer::onMessage()/onRequest().  A line   *)
(* is a sequence of tokens (words, " ", "?", ":") ended by CR LF, so a     *)
(* segment may end anywhere in it.  Texts are model data; the control of   *)
(* the parser, what it leaves in the buffer and what reset() keeps are     *)
(* the code's.                                                             *)
(***************************************************************************)
EXTENDS Stream

Methods == {"GET", "POST", "HEAD", "PUT", "DELETE"}

(* HttpRequest() *)
NewRequest == [method |-> "Invalid", version |-> "Unknown", path |-> <<>>,
               query |-> <<>>, headers |-> <<>>]

(* HttpContext(), set by onConnection(); abort is a failed assert().         *)
NewHttp == [buf |-> <<>>, out |-> <<>>, shut |-> FALSE, abort |-> FALSE,
            state |-> "RequestLine", req |-> NewRequest]

(* headers_[field] = value, as a set of pairs with one value for a field.    *)
AddHeader(headers, field, value) ==
    SelectSeq(headers, LAMBDA h : h[1] # field) \o << <<field, value>> >>

(* getHeader(): "" when there is none. *)
GetHeader(headers, field) ==
    LET k == SelectInSeq(headers, LAMBDA h : h[1] = field) IN
    IF k = 0 THEN <<>> ELSE headers[k][2]

(* The value of a header line: blanks around it are dropped.                 *)
RECURSIVE Trim(_)
Trim(v) ==
    IF v # <<>> /\ Head(v) = " " THEN Trim(Tail(v))
    ELSE IF v # <<>> /\ Last(v) = " " THEN Trim(Front(v)) ELSE v

(* processRequestLine() gives [ok, abort, req]; what was set before a        *)
(* failure stays set.                                                        *)
Refused(req) == [ok |-> FALSE, abort |-> FALSE, req |-> req]

(* setPath() and setQuery() from the target of the request. *)
SetTarget(req, url) ==
    LET q == Find(url, "?") IN
    [req EXCEPT !.path = SubSeq(url, 1, q - 1),
                !.query = IF q <= Len(url) THEN Retrieve(url, q - 1) ELSE @]

SetVersion(req, ver) ==
    IF ver \in {<<"HTTP/1.0">>, <<"HTTP/1.1">>}
    THEN [ok |-> TRUE, abort |-> FALSE, req |-> [req EXCEPT !.version = ver[1]]]
    ELSE Refused(req)

(* The line after the method and its blank. *)
AfterMethod(req, rest) ==
    LET space == Find(rest, " ") IN
    IF space > Len(rest) THEN Refused(req)
    ELSE SetVersion(SetTarget(req, SubSeq(rest, 1, space - 1)), Retrieve(rest, space))

(* setMethod() asserts that no method was set before. *)
SetMethod(req, m, rest) ==
    IF req.method # "Invalid" THEN [Refused(req) EXCEPT !.abort = TRUE]
    ELSE IF Len(m) = 1 /\ m[1] \in Methods
         THEN AfterMethod([req EXCEPT !.method = m[1]], rest)
         ELSE Refused(req)

ProcessRequestLine(req, line) ==
    LET space == Find(line, " ") IN
    IF space > Len(line) THEN Refused(req)
    ELSE SetMethod(req, SubSeq(line, 1, space - 1), Retrieve(line, space))

(* Mutant: only the CR is taken with the header line.                        *)
HeaderLineCR(s, crlf) ==
    LET line == SubSeq(s.buf, 1, crlf - 1)
        c    == Find(line, ":")
        s1   == [s EXCEPT !.buf = Retrieve(@, crlf)]
    IN  IF c <= Len(line)
        THEN [s1 EXCEPT !.req.headers = AddHeader(@, SubSeq(line, 1, c - 1),
                                                  Trim(Retrieve(line, c)))]
        ELSE [s1 EXCEPT !.state = "GotAll"]

(* A line while kExpectHeaders: a line without a colon ends the headers.      *)
HeaderLine(s, crlf) ==
    LET line == SubSeq(s.buf, 1, crlf - 1)
        c    == Find(line, ":")
        s1   == [s EXCEPT !.buf = Retrieve(@, crlf + 1)]
    IN  IF c <= Len(line)
        THEN [s1 EXCEPT !.req.headers = AddHeader(@, SubSeq(line, 1, c - 1),
                                                  Trim(Retrieve(line, c)))]
        ELSE [s1 EXCEPT !.state = "GotAll"]

(* The request line, with what processRequestLine() says of it: [ok, s].  A  *)
(* bad one stays in the buffer.                                              *)
RequestLine(s, r, crlf) ==
    [ok |-> r.ok,
     s  |-> IF r.ok THEN [s EXCEPT !.req = r.req, !.state = "Headers",
                                   !.buf = Retrieve(@, crlf + 1)]
            ELSE [s EXCEPT !.req = r.req, !.abort = r.abort]]

(* parseRequest(): [ok, s].  The loop goes on while a whole line is there.    *)
RECURSIVE ParseRequest(_)
ParseRequest(p) ==
    LET s    == p.s
        crlf == FindCRLF(s.buf, 1)
    IN  CASE ~p.ok \/ crlf = 0 \/ s.state = "GotAll" -> p
          [] p.ok /\ crlf # 0 /\ s.state = "RequestLine" ->
                ParseRequest(RequestLine(
                    s, ProcessRequestLine(s.req, SubSeq(s.buf, 1, crlf - 1)), crlf))
          [] p.ok /\ crlf # 0 /\ s.state = "Headers" ->
                ParseRequest([ok |-> TRUE, s |-> HeaderLine(s, crlf)])

Redirections == {<<"/1">>, <<"/2">>}
Pages == {<<"/">>, <<"/favicon.ico">>}

(* httpCallback_: the default one answers 404 and closes; the one of shorturl  *)
(* redirects what it knows, shows its pages, and does the same for the rest.   *)
HttpCallback(useDefault, req, close) ==
    CASE ~useDefault /\ req.path \in Redirections ->
            [status |-> "301", close |-> close, req |-> req]
      [] ~useDefault /\ req.path \in Pages ->
            [status |-> "200", close |-> close, req |-> req]
      [] useDefault \/ req.path \notin Redirections \cup Pages ->
            [status |-> "404", close |-> TRUE, req |-> req]

(* The response, written with send(). *)
SendResponse(s, resp) == IF resp.close THEN ShutdownConn(SendTo(s, resp)) ELSE SendTo(s, resp)

(* onRequest(): the close rule, the callback, and its response.                *)
OnRequest(s, useDefault) ==
    LET conn  == GetHeader(s.req.headers, <<"Connection">>)
        close == \/ conn = <<"close">>
                 \/ s.req.version = "HTTP/1.0" /\ conn # <<"Keep-Alive">>
    IN  SendResponse(s, HttpCallback(useDefault, s.req, close))

(* HttpContext::reset(): swap() does not touch version_.                       *)
ResetContext(s) ==
    [s EXCEPT !.state = "RequestLine",
              !.req = [NewRequest EXCEPT !.version = s.req.version]]

(* HttpServer::onMessage() after parseRequest(): at most one request is        *)
(* answered for a call.                                                        *)
AnswerHttp(p, useDefault) ==
    CASE p.s.abort -> p.s
      [] ~p.s.abort /\ ~p.ok -> ShutdownConn(SendTo(p.s, [status |-> "400"]))
      [] ~p.s.abort /\ p.ok ->
            IF p.s.state = "GotAll" THEN ResetContext(OnRequest(p.s, useDefault)) ELSE p.s

OnHttpMessage(s, useDefault) == AnswerHttp(ParseRequest([ok |-> TRUE, s |-> s]), useDefault)

-----------------------------------------------------------------------------
(* Reference: requests as a client means them, how it writes them, and what   *)
(* it must be answered.                                                       *)

EncodeHttp(r) ==
    <<r.method, " ">> \o r.path \o r.query \o <<" ", r.version>> \o CRLF
    \o FlattenSeq([i \in DOMAIN r.headers |->
           r.headers[i][1] \o <<":", " ">> \o r.headers[i][2] \o CRLF]) \o CRLF

BadRequest(r) == r.method \notin Methods \/ r.version \notin {"HTTP/1.0", "HTTP/1.1"}

KeepsAlive(r) ==
    LET c == GetHeader(r.headers, <<"Connection">>) IN
    c # <<"close">> /\ (r.version = "HTTP/1.1" \/ c = <<"Keep-Alive">>)

(* The answers up to the first one that closes the connection.                 *)
RECURSIVE HttpAnswersTo(_, _)
HttpAnswersTo(script, useDefault) ==
    IF script = <<>> THEN <<>>
    ELSE LET r == Head(script)
             known  == ~useDefault /\ r.path # <<"/x">>
             close  == ~known \/ ~KeepsAlive(r)
             status == IF ~known THEN "404" ELSE IF r.path = <<"/1">> THEN "301" ELSE "200"
         IN  IF BadRequest(r) THEN <<[status |-> "400"]>>
             ELSE << [status |-> status, close |-> close, req |-> r] >>
                  \o IF close THEN <<>> ELSE HttpAnswersTo(Tail(script), useDefault)
=============================================================================
