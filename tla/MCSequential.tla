---------------------------- MODULE MCSequential ----------------------------
(* TLC instance of what one thread runs alone, where the difficulty is the    *)
(* sequence of calls and inputs: the poller with its channels, the red-black  *)
(* tree, the conversions, and the message callbacks of the protocol servers.  *)
(* They do not interact: a behaviour is one of PollPoller, RbTree, ByteOrder, *)
(* LogStream, FileConf or Protocols, chosen by part, and the others keep      *)
(* their initial state.                                                       *)
EXTENDS PollPoller, TLC

CONSTANTS Keys, Twins,                                      \* RbTree
          Widths, Bytes, MaxInts,                           \* ByteOrder
          Size, kMaxNumericSize, MaxInt, MaxPieces,         \* LogStream
          PairSize, LineSize, MaxSets,                      \* FileConf
          LongestLine, MaxValue, LongKey, IntRange,         \* Memcached
          CacheKeys,
          BodyLimit                                         \* FastCgi

VARIABLES part,
    tree, in,
    bytes, ints, result,
    data, record, pieces, output,
    file, config, loadOk, returned, io, sets,
    proto, script, pipelined, sent, wire, sess

(* Lines of a configuration file: blanks, a comment, a second =, no value,    *)
(* and one that fgets() cuts before its second =.                             *)
ConfLines ==
    { <<"k", "=", "v">>, <<"l", "=", "v", "v">>, <<" ", "k", " ", "=", "TAB", "v", " ", "v", " ">>,
      <<"l", "=", "v", "#", "v">>, <<"#", "k", "=", "v">>, <<"k", "=", "=", "v">>, <<"k", "=">>,
      <<"k", "=", "v", "v", "v", "v", "v", "v", "v", "v", "v", "l", "=", "v">> }
ConfTexts == { a \o <<"NL">> \o b \o <<"NL">> : a \in ConfLines, b \in ConfLines }

(* Values that fit, that lose their line end, that are cut, and that the      *)
(* reader does not take as they are; keys of the last kind too.               *)
ConfValues ==
    { <<"v">>, <<"v", "v">>, <<"v", "v", "v">>, <<"v", "v", "v", "v">>, <<"v", "=", "v">>,
      <<"v", " ", "v">>, <<" ", "v">>, <<"v", "#">>, <<"v", "NL", "v">>, <<>> }
ConfSettings ==
    { << <<k>>, v >> : k \in {"k", "l"}, v \in ConfValues }
    \cup { << <<"k", "=">>, <<"v">> >>, << <<"#">>, <<"v">> >>, << <<"k", " ">>, <<"v">> >> }

Peers   == INSTANCE ProtocolScripts

Tree    == INSTANCE RbTree
Order   == INSTANCE ByteOrder
Text    == INSTANCE LogStream
Conf    == INSTANCE FileConf WITH result <- returned, FileTexts <- ConfTexts,
                                  Settings <- ConfSettings
Session == INSTANCE Protocols WITH Scripts <- Peers!Scripts

treeVars == <<tree, in>>
orderVars == <<bytes, ints, result>>
streamVars == <<data, record, pieces, output>>
confVars == <<file, config, loadOk, returned, io, sets>>
sessVars == <<proto, script, pipelined, sent, wire, sess>>
seqVars == <<part, vars, treeVars, orderVars, streamVars, confVars, sessVars>>

ChanSymmetry == Permutations(Chans)

(* PollPoller starts with any descriptors in its channels, FileConf from any  *)
(* file and Protocols with any script; where they are not the part chosen,    *)
(* with one descriptor, from a file that cannot be opened, and with none.     *)
SequentialInit ==
    /\ part \in {"poller", "tree", "order", "stream", "conf", "session"}
    /\ part # "poller" => fd_ = [c \in Chans |-> CHOOSE f \in Fds : TRUE]
    /\ Init /\ Tree!Init /\ Order!Init /\ Text!Init
    /\ IF part = "conf" THEN Conf!Init
       ELSE /\ file = <<>> /\ config = {} /\ loadOk = FALSE
            /\ returned = 0 /\ io = "none" /\ sets = 0
    /\ IF part = "session" THEN Session!Init
       ELSE /\ proto = "none" /\ script = <<>> /\ pipelined = FALSE
            /\ sent = 0 /\ wire = <<>> /\ sess = <<>>

SequentialNext ==
    \/ /\ part = "poller" /\ Next
       /\ UNCHANGED <<part, treeVars, orderVars, streamVars, confVars, sessVars>>
    \/ /\ part = "tree" /\ Tree!Next
       /\ UNCHANGED <<part, vars, orderVars, streamVars, confVars, sessVars>>
    \/ /\ part = "order" /\ Order!Next
       /\ UNCHANGED <<part, vars, treeVars, streamVars, confVars, sessVars>>
    \/ /\ part = "stream" /\ Text!Next
       /\ UNCHANGED <<part, vars, treeVars, orderVars, confVars, sessVars>>
    \/ /\ part = "conf" /\ Conf!Next
       /\ UNCHANGED <<part, vars, treeVars, orderVars, streamVars, sessVars>>
    \/ /\ part = "session" /\ Session!Next
       /\ UNCHANGED <<part, vars, treeVars, orderVars, streamVars, confVars>>

SequentialSpec == SequentialInit /\ [][SequentialNext]_seqVars

-----------------------------------------------------------------------------
(* rbtree: sorted, complete in both directions, and balanced. *)
RedBlack == part = "tree" => Tree!RedBlack


(* HTTP: each request is answered from its own lines however the stream is    *)
(* cut; the assert in setMethod() fails only for input after a 400.           *)
HttpExact == part = "session" => Session!HttpExact

(* memcached: answers are those of a map, apart from what a get with a bad    *)
(* key leaves behind; Item's assert fails only for a negative length.         *)
MemcachedExact == part = "session" => Session!MemcachedExact

(* FastCGI, hub, chat, clock and echo: whole messages, once and in order;     *)
(* FastCGI's answers lack the header of END_REQUEST.                          *)
CodecExact == part = "session" => Session!CodecExact
=============================================================================
