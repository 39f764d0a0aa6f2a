----------------------------- MODULE Memcached ------------------------------
(***************************************************************************)
(* The memcached server: Session, which parses the ASCII protocol from the *)
(* input buffer and is fed in arbitrary segments, Item, and the table of   *)
(* MemcacheServer.  A request line is a sequence of words and " " tokens;  *)
(* a token counts as one byte of a value.  The table is kept in the        *)
(* session record: its operations run whole inside one onMessage().        *)
(***************************************************************************)
EXTENDS Stream

CONSTANTS LongestLine,  \* 1024
          MaxValue,     \* 1024 * 1024
          LongKey,      \* a key of more than kLongestKeySize bytes
          IntRange      \* 2^32, how many values an int has

(* Session() and an empty table; the fields from state on are Session's.    *)
NewMemcached ==
    [buf |-> <<>>, out |-> <<>>, shut |-> FALSE, abort |-> FALSE,
     items |-> {}, cas |-> 0, stopping |-> FALSE,
     state |-> "NewCommand", command |-> "", noreply |-> FALSE,
     policy |-> "Invalid", item |-> <<>>, discard |-> 0, outputBuf |-> <<>>]

Updates == {"set", "add", "replace", "append", "prepend", "cas"}

(* The numbers a request may hold; strtoull() takes a sign.                  *)
Announced == -1..(IntRange + 1)
Numbers == {ToString(n) : n \in Announced}

(* Reader::read() into an int: what strtoull() returns is cut to its width.  *)
ToInt(n) == ((n + IntRange \div 2) % IntRange) - IntRange \div 2
Num(w) == ToInt(CHOOSE n \in Announced : ToString(n) = w)

(* Session::reply(); get answers with send() itself.                         *)
Reply(s, msg) == IF s.noreply THEN s ELSE SendTo(s, <<msg, <<>> >>)

(* resetRequest() *)
ResetRequest(s) ==
    [s EXCEPT !.command = "", !.noreply = FALSE, !.policy = "Invalid",
              !.item = <<>>, !.discard = 0]

-----------------------------------------------------------------------------
(* MemcacheServer. *)

GetItem(s, key) == {i \in s.items : i.key = key}
DeleteItem(s, key) == [s EXCEPT !.items = @ \ GetItem(s, key)]

(* Mutant: set leaves the item it replaces in the table.                      *)
StoreItemKeeps(s, item, policy) ==
    LET exists == GetItem(s, item.key) # {}
    IN  IF policy = "set" \/ (policy = "add" /\ ~exists)
        THEN [ok |-> TRUE,
              s  |-> [s EXCEPT !.cas = @ + 1,
                               !.items = IF exists THEN @
                                         ELSE @ \cup {[item EXCEPT !.cas = s.cas + 1]}]]
        ELSE [ok |-> ~(policy = "add" /\ exists), s |-> s]

(* storeItem(): [ok, s].  Only kSet and kAdd have code: for the four other    *)
(* policies the table stays as it is and the answer is true.                  *)
StoreItem(s, item, policy) ==
    LET exists == GetItem(s, item.key) # {}
    IN  IF policy = "set" \/ (policy = "add" /\ ~exists)
        THEN [ok |-> TRUE,
              s  |-> [DeleteItem(s, item.key) EXCEPT
                         !.cas = @ + 1, !.items = @ \cup {[item EXCEPT !.cas = s.cas + 1]}]]
        ELSE [ok |-> ~(policy = "add" /\ exists), s |-> s]

-----------------------------------------------------------------------------
(* Session. *)

(* Item::output() of the value asked for, with its cas for gets.              *)
Output(i, cas) == [key |-> i.key, flags |-> i.flags, data |-> i.data,
                   cas |-> IF cas THEN i.cas ELSE 0]

(* A negative int as a size_t is more than any buffer holds. *)
ToSize(n) == IF n < 0 THEN IntRange * IntRange + n ELSE n

(* doUpdate(): the words after the command are key, flags, exptime, bytes     *)
(* and, for cas, the version.  [done, s]: not done while a value follows.     *)
(* Item() asserts that the value has room for its line end.                   *)
DoUpdate(s0, words) ==
    LET s     == [s0 EXCEPT !.policy = s0.command]
        key   == words[1]
        need  == IF s.policy = "cas" THEN 5 ELSE 4
        good  == /\ key # LongKey
                 /\ \A i \in 2..need : i <= Len(words) /\ words[i] \in Numbers
        bytes == Num(words[4])
    IN  CASE ~good -> [done |-> TRUE, s |-> Reply(s, "CLIENT_ERROR line")]
          [] good /\ bytes > MaxValue ->
                [done |-> FALSE,
                 s |-> [DeleteItem(Reply(s, "SERVER_ERROR too large"), key) EXCEPT
                           !.discard = ToSize(ToInt(bytes + 2)), !.state = "DiscardValue"]]
          [] good /\ bytes <= MaxValue ->
                [done |-> FALSE,
                 s |-> [s EXCEPT !.state = "ReceiveValue", !.abort = @ \/ bytes < 0,
                                 !.item = <<[key |-> key, flags |-> words[2],
                                             len |-> bytes + 2, data |-> <<>>, cas |-> 0]>>]]

(* get and gets: one answer with the items found, in the order asked.  A bad  *)
(* key is answered at once; what was found before it stays in outputBuf_.     *)
(* After shutdown() nothing is sent, so its content no longer matters.        *)
DoGet(s, keys) ==
    LET bad   == Find(keys, LongKey)
        found == FlattenSeq([i \in 1..bad - 1 |->
                     SetToSeq({Output(x, s.command = "gets") : x \in GetItem(s, keys[i])})])
    IN  IF bad <= Len(keys)
        THEN Reply([s EXCEPT !.outputBuf = @ \o found], "CLIENT_ERROR line")
        ELSE SendTo([s EXCEPT !.outputBuf = <<>>], <<"END", s.outputBuf \o found>>)

DoDelete(s, words) ==
    IF words[1] = LongKey THEN Reply(s, "CLIENT_ERROR line")
    ELSE IF Len(words) > 1 /\ words[2] # "0" THEN Reply(s, "CLIENT_ERROR usage")
    ELSE IF GetItem(s, words[1]) # {}
         THEN Reply(DeleteItem(s, words[1]), "DELETED")
         ELSE Reply(s, "NOT_FOUND")

(* processRequest(): [done, s].  The asserts say that the request before it   *)
(* left nothing behind.                                                       *)
ProcessRequest(s0, line) ==
    LET n     == Len(line)
        quiet == n >= 2 /\ SubSeq(line, n - 1, n) = <<" ", "noreply">>
        words == SelectSeq(SubSeq(line, 1, IF quiet THEN n - 2 ELSE n),
                           LAMBDA w : w # " ")
        clean == s0 = ResetRequest(s0)
        s1    == [s0 EXCEPT !.noreply = quiet, !.abort = ~clean]
        cmd   == words[1]
        args  == Tail(words)
        s     == [s1 EXCEPT !.command = cmd]
        Done(t) == [done |-> TRUE, s |-> t]
    IN  IF words = <<>> THEN Done(Reply(s1, "ERROR"))
        ELSE CASE cmd \in Updates          -> DoUpdate(s, args)
               [] cmd \in {"get", "gets"}  -> Done(DoGet(s, args))
               [] cmd = "delete"           -> Done(DoDelete(s, args))
               [] cmd = "version"          -> Done(Reply(s, "VERSION"))
               [] cmd = "quit"             -> Done(ShutdownConn(s))
               [] cmd = "shutdown"         -> Done([ShutdownConn(s) EXCEPT !.stopping = TRUE])
               [] OTHER                    -> Done(Reply(s, "ERROR"))

(* receiveValue(): takes what the item needs; complete, it is stored when it  *)
(* ends with CR LF.                                                           *)
ReceiveValue(s) ==
    LET item == s.item[1]
        k    == item.len - Len(item.data)
        n    == IF Len(s.buf) < k THEN Len(s.buf) ELSE k
        got  == [item EXCEPT !.data = @ \o SubSeq(s.buf, 1, n)]
        s1   == [s EXCEPT !.buf = Retrieve(@, n), !.item = <<got>>]
        full == Len(got.data) = got.len
        ends == SubSeq(got.data, got.len - 1, got.len) = CRLF
        st   == StoreItem(s1, got, s.policy)
        told == IF ~ends THEN Reply(s1, "CLIENT_ERROR chunk")
                ELSE Reply(st.s, IF st.ok THEN "STORED" ELSE "NOT_STORED")
    IN  IF full THEN [ResetRequest(told) EXCEPT !.state = "NewCommand"] ELSE s1

DiscardValue(s) ==
    IF Len(s.buf) < s.discard
    THEN [s EXCEPT !.discard = @ - Len(s.buf), !.buf = <<>>]
    ELSE [ResetRequest([s EXCEPT !.buf = Retrieve(@, s.discard)]) EXCEPT !.state = "NewCommand"]

(* Session::onMessage() *)
RECURSIVE OnMemcachedMessage(_)
OnMemcachedMessage(s) ==
    LET crlf == FindCRLF(s.buf, 1)
        r    == ProcessRequest(s, SubSeq(s.buf, 1, crlf - 1))
        s1   == IF r.done THEN ResetRequest(r.s) ELSE r.s
    IN  IF s.buf = <<>> \/ s.abort THEN s
        ELSE CASE s.state = "ReceiveValue" -> OnMemcachedMessage(ReceiveValue(s))
               [] s.state = "DiscardValue" -> OnMemcachedMessage(DiscardValue(s))
               [] s.state = "NewCommand" ->
                    IF crlf # 0 THEN OnMemcachedMessage([s1 EXCEPT !.buf = Retrieve(@, crlf + 1)])
                    ELSE IF Len(s.buf) > LongestLine THEN ShutdownConn(s) ELSE s

-----------------------------------------------------------------------------
(* Reference: commands as a client means them (cmd, keys, bytes announced,    *)
(* data, noreply), how it writes them, and what it is answered.  Data that is *)
(* not as long as announced is two bytes longer: the line end after it is     *)
(* then an empty command.                                                     *)

EncodeMemcached(c) ==
    <<c.cmd>> \o FlattenSeq([i \in DOMAIN c.keys |-> <<" ", c.keys[i]>>])
    \o (IF c.cmd \in Updates THEN <<" ", "0", " ", "0", " ", ToString(c.bytes)>> ELSE <<>>)
    \o (IF c.cmd = "cas" THEN <<" ", "1">> ELSE <<>>)
    \o (IF c.noreply THEN <<" ", "noreply">> ELSE <<>>) \o CRLF
    \o (IF c.cmd \in Updates THEN c.data \o CRLF ELSE <<>>)

(* A length counts for what is left of it in an int.  A negative one ends the  *)
(* process, by Item's assert(valuelen_ >= 2); one that leaves no room for the  *)
(* line end swallows all that follows.                                         *)
Negative(c) == c.cmd \in Updates /\ ToInt(c.bytes) < 0
Swallows(c) == c.cmd \in Updates /\ ToInt(c.bytes) + 2 >= IntRange \div 2

(* The table m gives each key <<value, version>>, or <<>>; n counts versions; *)
(* left is what a get with a bad key had found before it: it is not dropped   *)
(* but comes before the values of the next get.                               *)
RECURSIVE MemcachedReplies(_, _, _, _)
MemcachedReplies(script, m, n, left) ==
    IF script = <<>> THEN <<>>
    ELSE LET c == Head(script)
             b == ToInt(c.bytes)
             k == IF c.keys = <<>> THEN "" ELSE c.keys[1]
             Answer(reps, m1, n1) == reps \o MemcachedReplies(Tail(script), m1, n1, left)
             Says(msg) == IF c.noreply THEN <<>> ELSE << <<msg, <<>> >> >>
             Value(x) == [key |-> x, flags |-> "0", data |-> m[x][1],
                          cas |-> IF c.cmd = "gets" THEN m[x][2] ELSE 0]
             good == SubSeq(c.keys, 1, Find(c.keys, LongKey) - 1)
             hits == SelectSeq(good, LAMBDA x : m[x] # <<>>)
             vals == left \o [i \in DOMAIN hits |-> Value(hits[i])]
         IN CASE Negative(c) -> <<>>
              [] Swallows(c) -> Says("SERVER_ERROR too large")
              [] c.cmd \in Updates /\ b > MaxValue /\ ~Swallows(c) ->
                    Answer(Says("SERVER_ERROR too large"), [m EXCEPT ![k] = <<>>], n)
              [] c.cmd \in Updates /\ b \in 0..MaxValue /\ b # Len(c.data) ->
                    Answer(Says("CLIENT_ERROR chunk") \o << <<"ERROR", <<>> >> >>, m, n)
              [] c.cmd = "add" /\ b = Len(c.data) /\ b <= MaxValue /\ m[k] # <<>> ->
                    Answer(Says("NOT_STORED"), m, n)
              [] c.cmd \in {"set", "add"} /\ b = Len(c.data) /\ b <= MaxValue
                 /\ (c.cmd = "set" \/ m[k] = <<>>) ->
                    Answer(Says("STORED"), [m EXCEPT ![k] = <<c.data \o CRLF, n + 1>>], n + 1)
              [] c.cmd \in Updates \ {"set", "add"} /\ b = Len(c.data)
                 /\ b <= MaxValue ->
                    Answer(Says("STORED"), m, n)
              [] c.cmd \in {"get", "gets"} ->
                    IF good # c.keys
                    THEN Says("CLIENT_ERROR line") \o MemcachedReplies(Tail(script), m, n, vals)
                    ELSE << <<"END", vals>> >> \o MemcachedReplies(Tail(script), m, n, <<>>)
              [] c.cmd = "delete" ->
                    IF k = LongKey THEN Answer(Says("CLIENT_ERROR line"), m, n)
                    ELSE Answer(Says(IF m[k] # <<>> THEN "DELETED" ELSE "NOT_FOUND"),
                                [m EXCEPT ![k] = <<>>], n)
              [] c.cmd = "version" -> Answer(Says("VERSION"), m, n)
              [] c.cmd \in {"quit", "shutdown"} -> <<>>
              [] OTHER -> Answer(Says("ERROR"), m, n)
=============================================================================
