----------------------------- MODULE ByteOrder ------------------------------
(***************************************************************************)
(* endiantool and the integer operations of Buffer that use it.  An        *)
(* integer of w bytes is the sequence of its bytes, the least significant  *)
(* one first: how a little-endian host, the only kind Windows runs on,     *)
(* keeps it in memory.  The buffer is the sequence of its readable bytes;  *)
(* where they are, and whether there is room to prepend, is module         *)
(* Buffer's.                                                               *)
(***************************************************************************)
EXTENDS Integers, Sequences, SequencesExt

CONSTANTS Widths,     \* sizes of the integers: 1, 2, 4 or 8
          Bytes,      \* byte values
          MaxInts     \* bound on the integers in the buffer

VARIABLES
    bytes,    \* what the buffer holds
    ints,     \* the integers that were put into it and not read, in order
    result    \* the integer read last and the one that was meant

vars == <<bytes, ints, result>>

isLittleEndian == TRUE

(* hton64() swaps the bytes of both halves and then the halves.             *)
hton64(x) ==
    IF ~isLittleEndian THEN x
    ELSE LET low == Reverse(SubSeq(x, 1, 4))
             high == Reverse(SubSeq(x, 5, 8))
         IN  high \o low

(* ntoh64() leaves the number alone on a little-endian host.                *)
ntoh64(x) ==
    IF isLittleEndian THEN x
    ELSE Reverse(SubSeq(x, 5, 8)) \o Reverse(SubSeq(x, 1, 4))

(* hostToNetwork64(), 32 and 16: htonl() and htons() swap.                  *)
hostToNetwork(x) == IF Len(x) = 8 THEN hton64(x) ELSE Reverse(x)

networkToHost(x) == IF Len(x) = 8 THEN ntoh64(x) ELSE Reverse(x)

-----------------------------------------------------------------------------
Init == bytes = <<>> /\ ints = <<>> /\ result = << <<>>, <<>> >>

Numbers == UNION {[1..w -> Bytes] : w \in Widths}

(* appendInt64() ... appendInt8() *)
AppendInt(x) ==
    /\ Len(ints) < MaxInts
    /\ bytes' = bytes \o hostToNetwork(x)
    /\ ints' = Append(ints, x)
    /\ UNCHANGED result

(* prependInt64() ... prependInt8() *)
PrependInt(x) ==
    /\ Len(ints) < MaxInts
    /\ bytes' = hostToNetwork(x) \o bytes
    /\ ints' = <<x>> \o ints
    /\ UNCHANGED result

peekInt(w) == networkToHost(SubSeq(bytes, 1, w))

(* readInt64() ... readInt8(), by a reader that knows what was written.      *)
ReadInt ==
    /\ ints # <<>>
    /\ LET w == Len(Head(ints)) IN
        /\ result' = <<peekInt(w), Head(ints)>>
        /\ bytes' = SubSeq(bytes, w + 1, Len(bytes))
    /\ ints' = Tail(ints)

Next == ReadInt \/ \E x \in Numbers : AppendInt(x) \/ PrependInt(x)

Spec == Init /\ [][Next]_vars

-----------------------------------------------------------------------------
(* "Append int64_t using network endian", "Read int64_t from network endian" *)
(* (Buffer.h): the buffer holds every integer with its most significant byte *)
(* first, and what is read is what was written.                              *)
IntsExact ==
    /\ bytes = FlattenSeq([i \in DOMAIN ints |-> Reverse(ints[i])])
    /\ result[1] = result[2]
=============================================================================
