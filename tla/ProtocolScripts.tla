--------------------------- MODULE ProtocolScripts --------------------------
(* What the peers of the protocol servers write in TLC's instance. *)
EXTENDS Stream, LengthHeaderCodec

CONSTANT LongKey

(* Requests: keep-alive and closing ones of both versions, queries, a wrong   *)
(* method and a wrong version.                                                *)
Get(v, q, hs) == [method |-> "GET", path |-> <<"/1">>, query |-> q, version |-> v,
                  headers |-> hs]
ConnHeader(x) == << << <<"Connection">>, <<x>> >> >>

HttpRequests ==
    { Get("HTTP/1.1", <<"?", "q">>, <<>>),
      Get("HTTP/1.1", <<>>, ConnHeader("close")),
      Get("HTTP/1.0", <<>>, ConnHeader("Keep-Alive") \o << << <<"Host">>, <<"h">> >> >>),
      Get("HTTP/1.0", <<"?">>, <<>>),
      Get("HTTP/1.2", <<>>, <<>>),
      [Get("HTTP/1.1", <<>>, <<>>) EXCEPT !.path = <<"/">>],
      [Get("HTTP/1.1", <<>>, <<>>) EXCEPT !.path = <<"/x">>],
      [Get("HTTP/1.1", <<>>, <<>>) EXCEPT !.method = "FOO"] }

(* Commands: values that look like line ends, too short, too long, refused,   *)
(* and lengths that an int of 16 values cannot hold.                          *)
Cmd(c, ks) == [cmd |-> c, keys |-> ks, bytes |-> 0, data |-> <<>>, noreply |-> FALSE]
Update(c, k, n, d, q) == [cmd |-> c, keys |-> <<k>>, bytes |-> n, data |-> d, noreply |-> q]

MemcachedWrites ==
    { Update("set", "k1", 2, CRLF, FALSE), Update("set", "k1", 2, <<"v", "w">>, FALSE),
      Update("add", "k1", 1, <<"x">>, FALSE), Update("set", "k1", 3, <<"v", "v", "v">>, FALSE),
      Update("set", "k1", 3, <<"v", "v", "v">>, TRUE), Update("cas", "k1", 0, <<>>, TRUE),
      Update("set", "k2", 0, <<>>, TRUE), Update("set", "k1", 2, <<"v", "CR", "LF", "z">>, FALSE),
      Update("replace", "k1", 1, <<"y">>, FALSE),
      Cmd("delete", <<"k1">>), Cmd("delete", <<LongKey>>), Cmd("noise", <<>>), Cmd("quit", <<>>),
      Cmd("shutdown", <<>>), Cmd("version", <<>>), Cmd("get", <<LongKey>>),
      Cmd("get", <<"k1", LongKey, "k2">>), Update("set", "k1", -1, <<"x">>, FALSE),
      Update("set", "k1", 15, <<"x">>, FALSE), Update("set", "k1", 17, <<"x">>, FALSE),
      Update("set", "k1", 5, <<"v", "v", "v", "v", "v">>, FALSE),
      Update("set", "k1", 6, <<"x">>, FALSE) }

MemcachedReads == { Cmd("get", <<"k1", "k2">>), Cmd("gets", <<"k1">>) }

(* FastCGI requests with parameter streams cut in and between pairs.          *)
FcgiParams == << << <<65>>, <<66, 67>> >>, << <<68>>, <<69>> >> >>
FcgiRequests ==
    [keep : BOOLEAN, params : {FcgiParams}, stdin : {<<>>, <<9>>, <<9, 9>>}, cut : {0, 2, 6},
     pad : {0, 3}]
    \cup [keep : {TRUE}, params : {<<>>}, stdin : {<<9>>}, cut : {0}, pad : {0}]

HubCommands ==
    { << <<"sub">>, <<"t">>, <<>> >>, << <<"unsub">>, <<"t">>, <<>> >>,
      << <<"pub">>, <<"t">>, <<"sub", " ", "t">> >>, << <<"pub">>, <<"t">>, <<>> >>,
      << <<"foo">>, <<"t">>, <<>> >>, <<>> }

ChatFrames == { EncodeFrame(<<>>), EncodeFrame(<<0, 0, 0>>), EncodeFrame(<<7>>) } \cup WrongHeaders

Scripts ==
    [p \in {"http", "http404", "memcached", "fastcgi", "hub", "chat", "clock", "echo"} |->
        CASE p \in {"http", "http404"} -> TupleOf(HttpRequests, 2)
          [] p = "memcached" ->
                { <<a, b, r>> : a \in MemcachedWrites, b \in MemcachedWrites, r \in MemcachedReads }
          [] p = "fastcgi" -> { <<a, b>> : a \in FcgiRequests, b \in {r \in FcgiRequests : r.params = <<>>} }
          [] p = "hub"  -> TupleOf(HubCommands, 3)
          [] p = "chat" -> TupleOf(ChatFrames, 3)
          [] p = "clock" -> {<< <<1, 2>>, <<3, 4>>, <<5, 6>> >>}
          [] p = "echo" -> {<< <<1, 2>>, <<3>>, <<4, 5, 6>> >>} ]
=============================================================================
