-------------------------------- MODULE Buffer --------------------------------
(***************************************************************************)
(* net/Buffer.h and Buffer::readFd of net/Buffer.cpp: a vector of bytes    *)
(* and two indexes.                                                        *)
(*                                                                         *)
(*      0  <=  readerIndex_  <=  writerIndex_  <=  buffer_.size()          *)
(*                                                                         *)
(* The content is what lies between the indexes; the bytes before it are   *)
(* room for prepend().  The integer accessors are these operations on 1,   *)
(* 2, 4 or 8 bytes.  A Buffer is a record, so that what the code does to   *)
(* the temporary of shrink() and inside readFd() are the same operators.   *)
(***************************************************************************)
EXTENDS Naturals, Sequences

CONSTANTS
    Byte,
    Zero,           \* the value of a new cell of a vector
    kCheapPrepend,
    kInitialSize,
    ExtraBuf,       \* sizeof extrabuf in readFd()
    MaxLen,         \* bound: bytes per call
    MaxSize         \* bound: size of the vector

ASSUME BufferAssumption ==
    /\ Zero \in Byte
    /\ kCheapPrepend \in Nat \ {0} /\ kInitialSize \in Nat
    /\ ExtraBuf \in Nat /\ MaxLen \in Nat /\ MaxSize \in Nat

VARIABLES
    buf,            \* [buffer_, size of it, readerIndex_, writerIndex_]
    prepended,      \* history: bytes prepended since readerIndex_ was last
                    \* kCheapPrepend or more, counted up to kCheapPrepend
    bytes           \* history: what a deque given the same calls would hold

vars == <<buf, prepended, bytes>>

Data == UNION {[1..n -> Byte] : n \in 0..MaxLen}

Buf(mem, size, r, w) == [mem |-> mem, size |-> size, r |-> r, w |-> w]

(* A well-formed Buffer. *)
IsBuffer(b) ==
    /\ b = Buf(b.mem, b.size, b.r, b.w)
    /\ b.size \in Nat /\ b.r \in Nat /\ b.w \in Nat
    /\ b.r <= b.w /\ b.w <= b.size /\ kCheapPrepend <= b.size
    /\ b.mem \in [0..(b.size - 1) -> Byte]

TypeOK == IsBuffer(buf) /\ prepended \in 0..kCheapPrepend /\ bytes \in Seq(Byte)

Fresh ==
    Buf([i \in 0..(kCheapPrepend + kInitialSize - 1) |-> Zero],
        kCheapPrepend + kInitialSize, kCheapPrepend, kCheapPrepend)

Init == buf = Fresh /\ prepended = 0 /\ bytes = <<>>

readableBytes(b) == b.w - b.r
writableBytes(b) == b.size - b.w
prependableBytes(b) == b.r

(* The readable bytes from peek() on. *)
Content(b) == [i \in 1..readableBytes(b) |-> b.mem[b.r + i - 1]]

(* std::copy of d into the cells from at on. *)
Write(b, at, d) ==
    Buf([i \in 0..(b.size - 1) |->
           IF i >= at /\ i < at + Len(d) THEN d[i - at + 1] ELSE b.mem[i]],
        b.size, b.r, b.w)

(* The same bytes between other indexes. *)
Indexes(b, r, w) == Buf(b.mem, b.size, r, w)

-----------------------------------------------------------------------------
Grows(b, len) == writableBytes(b) + prependableBytes(b) < len + kCheapPrepend

Resized(b, n) ==
    Buf([i \in 0..(n - 1) |-> IF i < b.size THEN b.mem[i] ELSE Zero], n, b.r, b.w)

(* Mutant: only the indexes move. *)
MovedIndexes(b) == Indexes(b, kCheapPrepend, kCheapPrepend + readableBytes(b))

(* The content copied to the front: the copy runs forwards, which is right  *)
(* because of assert(kCheapPrepend < readerIndex_).                         *)
Moved(b) ==
    Indexes(Write(b, kCheapPrepend, Content(b)),
            kCheapPrepend, kCheapPrepend + readableBytes(b))

makeSpace(b, len) == IF Grows(b, len) THEN Resized(b, b.w + len) ELSE Moved(b)

ensureWritableBytes(b, len) == IF writableBytes(b) < len THEN makeSpace(b, len) ELSE b

hasWritten(b, len) == Indexes(b, b.r, b.w + len)

append(b, d) ==
    LET e == ensureWritableBytes(b, Len(d)) IN hasWritten(Write(e, e.w, d), Len(d))

(* Mutant: retrieving everything resets both indexes to the front. *)
retrieveToFront(b, len) ==
    IF len < readableBytes(b) THEN Indexes(b, b.r + len, b.w) ELSE Indexes(b, 0, 0)

(* Retrieving everything resets both indexes. *)
retrieve(b, len) ==
    IF len < readableBytes(b) THEN Indexes(b, b.r + len, b.w)
    ELSE Indexes(b, kCheapPrepend, kCheapPrepend)

unwrite(b, len) == Indexes(b, b.r, b.w - len)

prepend(b, d) == Write(Indexes(b, b.r - Len(d), b.w), b.r - Len(d), d)

shrink(b, reserve) ==
    append(ensureWritableBytes(Fresh, readableBytes(b) + reserve), Content(b))

(* readFd() receives d: the writable bytes are filled first, and what       *)
(* spilled into extrabuf is appended to the vector that is now full.        *)
readFd(b, d) ==
    IF Len(d) <= writableBytes(b) THEN hasWritten(Write(b, b.w, d), Len(d))
    ELSE append(Indexes(Write(b, b.w, SubSeq(d, 1, writableBytes(b))), b.r, b.size),
                SubSeq(d, writableBytes(b) + 1, Len(d)))

-----------------------------------------------------------------------------
Becomes(b) ==
    /\ b.size <= MaxSize
    /\ buf' = b
    /\ prepended' = IF b.r >= kCheapPrepend THEN 0 ELSE prepended

Append_(d) == Becomes(append(buf, d)) /\ bytes' = bytes \o d

EnsureWritable(len) == Becomes(ensureWritableBytes(buf, len)) /\ UNCHANGED bytes

(* The bytes that happen to lie behind the content become content. *)
HasWritten(len) ==
    /\ len <= writableBytes(buf)
    /\ Becomes(hasWritten(buf, len))
    /\ bytes' = bytes \o [i \in 1..len |-> buf.mem[buf.w + i - 1]]

Unwrite(len) ==
    /\ len <= readableBytes(buf)
    /\ Becomes(unwrite(buf, len))
    /\ bytes' = SubSeq(bytes, 1, Len(bytes) - len)

Retrieve(len) ==
    /\ len <= readableBytes(buf)
    /\ Becomes(retrieve(buf, len))
    /\ bytes' = SubSeq(bytes, len + 1, Len(bytes))

Prepend(d) ==
    /\ Len(d) <= prependableBytes(buf)
    /\ buf' = prepend(buf, d)
    /\ prepended' = IF prepended + Len(d) < kCheapPrepend THEN prepended + Len(d)
                    ELSE kCheapPrepend
    /\ bytes' = d \o bytes

Shrink(reserve) == Becomes(shrink(buf, reserve)) /\ UNCHANGED bytes

(* A receive of no bytes, or one that fails, changes nothing. *)
ReadFd(d) ==
    /\ d /= <<>> /\ Len(d) <= writableBytes(buf) + ExtraBuf
    /\ Becomes(readFd(buf, d))
    /\ bytes' = bytes \o d

Next ==
    \/ \E d \in Data : Append_(d) \/ Prepend(d) \/ ReadFd(d)
    \/ \E len \in 0..MaxLen :
         EnsureWritable(len) \/ HasWritten(len) \/ Unwrite(len) \/ Retrieve(len) \/ Shrink(len)

Spec == Init /\ [][Next]_vars

-----------------------------------------------------------------------------
(* makeSpace() never trips its asserts and always makes the room that was   *)
(* asked for (Buffer.h:194, 408, 416): when it moves the content rather     *)
(* than grow, the content really lies beyond kCheapPrepend.                 *)
SpaceIsMade ==
    \A len \in 0..MaxLen :
        /\ writableBytes(ensureWritableBytes(buf, len)) >= len
        /\ writableBytes(buf) < len /\ ~Grows(buf, len) => kCheapPrepend < buf.r
        /\ readableBytes(ensureWritableBytes(buf, len)) = readableBytes(buf)

(* The room in front is only ever used up by prepend(): a message that was  *)
(* appended to a buffer can have its header prepended (Buffer.h:347-354,    *)
(* whose assert the length-header codec relies on).                         *)
PrependRoom == buf.r + prepended >= kCheapPrepend

(* Whatever the vector does - grow, move its content to the front, be       *)
(* replaced - the bytes between the indexes are those a plain deque given   *)
(* the same calls would hold.                                               *)
ContentExact == Content(buf) = bytes
=============================================================================
