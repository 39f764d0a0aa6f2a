----------------------------- MODULE BufferProofs -----------------------------
(***************************************************************************)
(* Proofs about Buffer.  The lemmas say what each operator of the code     *)
(* makes of a well-formed buffer: another well-formed buffer, what becomes *)
(* of its content, and where its read index may go.  The invariant is then *)
(* a matter of one lemma per action.                                       *)
(***************************************************************************)
EXTENDS Buffer, SequenceTheorems, TLAPS

(* The read index moved back only to kCheapPrepend, if at all. *)
KeepsRoom(b, c) == c.r >= b.r \/ c.r >= kCheapPrepend

(* The content of a well-formed buffer is the byte sequence between the     *)
(* indexes (Buffer::peek, readableBytes).                                   *)
LEMMA ContentType ==
    ASSUME NEW b, IsBuffer(b)
    PROVE  /\ Content(b) \in Seq(Byte)
           /\ Len(Content(b)) = b.w - b.r
           /\ \A i \in 1..(b.w - b.r) : Content(b)[i] = b.mem[b.r + i - 1]
<1> DEFINE n == b.w - b.r
<1>1. n \in Nat
  BY DEF IsBuffer, Buf
<1>2. \A i \in 1..n : b.mem[b.r + i - 1] \in Byte
  BY DEF IsBuffer, Buf
<1>3. Content(b) \in [1..n -> Byte]
  BY <1>2 DEF Content, readableBytes
<1>4. Content(b) \in Seq(Byte) /\ Len(Content(b)) = n
  BY <1>1, <1>3
<1> QED BY <1>4 DEF Content, readableBytes

(* Equal lengths and equal bytes make equal content. *)
LEMMA ContentIs ==
    ASSUME NEW b, IsBuffer(b), NEW s \in Seq(Byte), Len(s) = b.w - b.r,
           \A i \in 1..Len(s) : s[i] = b.mem[b.r + i - 1]
    PROVE  Content(b) = s
<1>1. s = [i \in 1..Len(s) |-> s[i]]
  OBVIOUS
<1> QED BY <1>1 DEF Content, readableBytes

(* A buffer whose indexes meet is empty (Buffer::retrieveAll). *)
LEMMA EmptyContent ==
    ASSUME NEW b, IsBuffer(b), b.r = b.w
    PROVE  Content(b) = <<>>
<1>1. Content(b) \in Seq(Byte) /\ Len(Content(b)) = 0
  BY ContentType DEF IsBuffer
<1> QED BY <1>1, EmptySeq

(* Length and bytes of a concatenation. *)
LEMMA ConcatBytes ==
    ASSUME NEW s \in Seq(Byte), NEW d \in Seq(Byte), NEW n \in Nat, Len(s) = n
    PROVE  /\ s \o d \in Seq(Byte) /\ Len(s \o d) = n + Len(d)
           /\ \A i \in 1..(n + Len(d)) : (s \o d)[i] = IF i <= n THEN s[i] ELSE d[i - n]
  BY ConcatProperties

(* std::copy into the vector changes the cells it writes and no others. *)
LEMMA WriteFacts ==
    ASSUME NEW b, IsBuffer(b), NEW at \in Nat, NEW d \in Seq(Byte), at + Len(d) <= b.size
    PROVE  /\ IsBuffer(Write(b, at, d))
           /\ Write(b, at, d).size = b.size
           /\ Write(b, at, d).r = b.r /\ Write(b, at, d).w = b.w
           /\ \A i \in 0..(b.size - 1) : Write(b, at, d).mem[i] =
                IF i >= at /\ i < at + Len(d) THEN d[i - at + 1] ELSE b.mem[i]
<1> DEFINE m == [i \in 0..(b.size - 1) |->
                   IF i >= at /\ i < at + Len(d) THEN d[i - at + 1] ELSE b.mem[i]]
<1>1. Write(b, at, d) = Buf(m, b.size, b.r, b.w)
  BY DEF Write
<1>2. \A i \in 0..(b.size - 1) : m[i] \in Byte
  <2> SUFFICES ASSUME NEW i \in 0..(b.size - 1) PROVE m[i] \in Byte
    OBVIOUS
  <2>1. b.mem[i] \in Byte
    BY DEF IsBuffer, Buf
  <2>2. i >= at /\ i < at + Len(d) => d[i - at + 1] \in Byte
    <3>1. i >= at /\ i < at + Len(d) => i - at + 1 \in 1..Len(d)
      BY DEF IsBuffer, Buf
    <3> QED BY <3>1
  <2> QED BY <2>1, <2>2
<1>3. m \in [0..(b.size - 1) -> Byte]
  BY <1>2
<1> QED BY <1>1, <1>3 DEF IsBuffer, Buf

(* A new Buffer is well formed and empty (Buffer::Buffer). *)
LEMMA FreshFacts ==
    IsBuffer(Fresh) /\ Fresh.r = kCheapPrepend /\ Fresh.w = kCheapPrepend
      /\ Content(Fresh) = <<>>
<1>1. IsBuffer(Fresh) /\ Fresh.r = kCheapPrepend /\ Fresh.w = kCheapPrepend
  BY BufferAssumption DEF Fresh, IsBuffer, Buf
<1>2. Content(Fresh) = <<>>
  BY <1>1, EmptyContent
<1> QED BY <1>1, <1>2

(* Growing the vector keeps the content (Buffer::makeSpace). *)
LEMMA ResizedFacts ==
    ASSUME NEW b, IsBuffer(b), NEW n \in Nat, b.w <= n, kCheapPrepend <= n
    PROVE  /\ IsBuffer(Resized(b, n)) /\ Content(Resized(b, n)) = Content(b)
           /\ Resized(b, n).r = b.r /\ Resized(b, n).w = b.w /\ Resized(b, n).size = n
<1> DEFINE m == [i \in 0..(n - 1) |-> IF i < b.size THEN b.mem[i] ELSE Zero]
<1>1. /\ Resized(b, n) = Buf(m, n, b.r, b.w)
      /\ Resized(b, n).mem = m /\ Resized(b, n).size = n
      /\ Resized(b, n).r = b.r /\ Resized(b, n).w = b.w
  BY DEF Resized, Buf
<1>2. \A i \in 0..(n - 1) : m[i] \in Byte
  BY BufferAssumption DEF IsBuffer, Buf
<1>3. m \in [0..(n - 1) -> Byte]
  BY <1>2
<1>4. IsBuffer(Resized(b, n))
  BY <1>1, <1>3 DEF IsBuffer
<1>5. \A i \in 1..(b.w - b.r) : m[b.r + i - 1] = b.mem[b.r + i - 1]
  BY DEF IsBuffer, Buf
<1> HIDE DEF m
<1>6. /\ Content(b) \in Seq(Byte) /\ Len(Content(b)) = b.w - b.r
      /\ \A i \in 1..Len(Content(b)) : Content(b)[i] = m[b.r + i - 1]
  BY <1>5, ContentType
<1>7. Content(Resized(b, n)) = Content(b)
  BY <1>1, <1>4, <1>6, ContentIs
<1> QED BY <1>1, <1>4, <1>7

(* Only moved when Grows() is false, and then the content lies beyond       *)
(* kCheapPrepend: this is the code's assert.                                *)
LEMMA MovedFacts ==
    ASSUME NEW b, IsBuffer(b), kCheapPrepend < b.r
    PROVE  /\ IsBuffer(Moved(b)) /\ Content(Moved(b)) = Content(b)
           /\ Moved(b).r = kCheapPrepend /\ Moved(b).w = kCheapPrepend + (b.w - b.r)
           /\ Moved(b).size = b.size
<1> DEFINE c == Content(b)
           x == Write(b, kCheapPrepend, c)
<1>0. kCheapPrepend \in Nat /\ b.r \in Nat /\ b.w \in Nat /\ b.size \in Nat
        /\ b.r <= b.w /\ b.w <= b.size
  BY BufferAssumption DEF IsBuffer, Buf
<1>1. c \in Seq(Byte) /\ Len(c) = b.w - b.r
  BY ContentType
<1>2. kCheapPrepend + Len(c) <= b.size
  BY <1>0, <1>1
<1>3. /\ IsBuffer(x) /\ x.size = b.size
      /\ \A i \in 0..(b.size - 1) : x.mem[i] =
           IF i >= kCheapPrepend /\ i < kCheapPrepend + Len(c)
           THEN c[i - kCheapPrepend + 1] ELSE b.mem[i]
  BY <1>0, <1>1, <1>2, WriteFacts
<1> HIDE DEF x
<1>4. /\ Moved(b) = Buf(x.mem, b.size, kCheapPrepend, kCheapPrepend + (b.w - b.r))
      /\ Moved(b).mem = x.mem /\ Moved(b).size = b.size
      /\ Moved(b).r = kCheapPrepend /\ Moved(b).w = kCheapPrepend + (b.w - b.r)
  BY <1>3 DEF Moved, Indexes, readableBytes, x, Buf
<1>5. IsBuffer(Moved(b))
  BY <1>0, <1>3, <1>4 DEF IsBuffer
<1> HIDE DEF c
<1>6. \A i \in 1..Len(c) : c[i] = x.mem[kCheapPrepend + i - 1]
  <2> SUFFICES ASSUME NEW i \in 1..Len(c) PROVE c[i] = x.mem[kCheapPrepend + i - 1]
    OBVIOUS
  <2> DEFINE j == kCheapPrepend + i - 1
  <2>1. /\ j \in 0..(b.size - 1) /\ j >= kCheapPrepend /\ j < kCheapPrepend + Len(c)
        /\ j - kCheapPrepend + 1 = i
    BY <1>0, <1>1
  <2> HIDE DEF j
  <2>2. x.mem[j] = c[i]
    BY <2>1, <1>3
  <2> QED BY <2>2 DEF j
<1>7. Len(c) = Moved(b).w - Moved(b).r
  BY <1>0, <1>1, <1>4
<1>8. Content(Moved(b)) = c
  BY <1>1, <1>4, <1>5, <1>6, <1>7, ContentIs
<1> QED BY <1>4, <1>5, <1>8 DEF c

(* ensureWritableBytes() makes the room asked for and keeps the content. *)
LEMMA EnsureFacts ==
    ASSUME NEW b, IsBuffer(b), NEW len \in Nat
    PROVE  LET e == ensureWritableBytes(b, len)
           IN  /\ IsBuffer(e) /\ Content(e) = Content(b)
               /\ e.size - e.w >= len
               /\ KeepsRoom(b, e)
               /\ writableBytes(b) < len /\ ~Grows(b, len) => kCheapPrepend < b.r
<1>0. kCheapPrepend \in Nat /\ b.r \in Nat /\ b.w \in Nat /\ b.size \in Nat
        /\ b.r <= b.w /\ b.w <= b.size
  BY BufferAssumption DEF IsBuffer, Buf
<1>1. CASE ~(writableBytes(b) < len)
  BY <1>0, <1>1 DEF ensureWritableBytes, writableBytes, KeepsRoom
<1>2. CASE writableBytes(b) < len /\ Grows(b, len)
  <2>1. ensureWritableBytes(b, len) = Resized(b, b.w + len)
    BY <1>2 DEF ensureWritableBytes, makeSpace
  <2>2. b.w + len \in Nat /\ b.w <= b.w + len /\ kCheapPrepend <= b.w + len
    BY <1>0, <1>2 DEF writableBytes, IsBuffer
  <2> QED BY <1>0, <1>2, <2>1, <2>2, ResizedFacts DEF KeepsRoom
<1>3. CASE writableBytes(b) < len /\ ~Grows(b, len)
  <2>1. ensureWritableBytes(b, len) = Moved(b)
    BY <1>3 DEF ensureWritableBytes, makeSpace
  <2>2. kCheapPrepend < b.r /\ b.size - (kCheapPrepend + (b.w - b.r)) >= len
    BY <1>0, <1>3 DEF Grows, writableBytes, prependableBytes
  <2> QED BY <1>0, <2>1, <2>2, MovedFacts DEF KeepsRoom
<1> QED BY <1>1, <1>2, <1>3

(* A buffer with room for d behind its content, and d written there. *)
LEMMA WriteBehind ==
    ASSUME NEW b, IsBuffer(b), NEW d \in Seq(Byte), Len(d) <= b.size - b.w
    PROVE  LET x == hasWritten(Write(b, b.w, d), Len(d))
           IN  /\ IsBuffer(x) /\ Content(x) = Content(b) \o d
               /\ x.r = b.r /\ x.w = b.w + Len(d) /\ x.size = b.size
<1> DEFINE y == Write(b, b.w, d)
           x == hasWritten(y, Len(d))
           s == Content(b) \o d
<1>0. b.r \in Nat /\ b.w \in Nat /\ b.size \in Nat /\ b.r <= b.w /\ b.w <= b.size
        /\ Len(d) \in Nat /\ b.w + Len(d) <= b.size
  BY DEF IsBuffer, Buf
<1>1. /\ IsBuffer(y) /\ y.size = b.size /\ y.r = b.r /\ y.w = b.w
      /\ \A i \in 0..(b.size - 1) : y.mem[i] =
           IF i >= b.w /\ i < b.w + Len(d) THEN d[i - b.w + 1] ELSE b.mem[i]
  BY <1>0, WriteFacts
<1> HIDE DEF y
<1>2. /\ x = Buf(y.mem, b.size, b.r, b.w + Len(d))
      /\ x.mem = y.mem /\ x.size = b.size /\ x.r = b.r /\ x.w = b.w + Len(d)
  BY <1>1 DEF hasWritten, Indexes, Buf
<1>3. IsBuffer(x)
  BY <1>0, <1>1, <1>2 DEF IsBuffer
<1>4. /\ Content(b) \in Seq(Byte) /\ Len(Content(b)) = b.w - b.r
      /\ \A i \in 1..(b.w - b.r) : Content(b)[i] = b.mem[b.r + i - 1]
  BY ContentType
<1> DEFINE n == b.w - b.r
<1>5. n \in Nat /\ Len(Content(b)) = n
  BY <1>0, <1>4
<1>6. /\ s \in Seq(Byte) /\ Len(s) = n + Len(d)
       /\ \A i \in 1..(n + Len(d)) : s[i] = IF i <= n THEN Content(b)[i] ELSE d[i - n]
  BY <1>4, <1>5, ConcatBytes
<1> HIDE DEF s
<1>7. \A i \in 1..Len(s) : s[i] = y.mem[b.r + i - 1]
  <2> SUFFICES ASSUME NEW i \in 1..(n + Len(d)) PROVE s[i] = y.mem[b.r + i - 1]
    BY <1>6
  <2> DEFINE j == b.r + i - 1
  <2>1. j \in 0..(b.size - 1)
    BY <1>0
  <2>2. i <= n => i \in 1..n /\ ~(j >= b.w)
    BY <1>0
  <2>3. ~(i <= n) => j >= b.w /\ j < b.w + Len(d) /\ j - b.w + 1 = i - n
    BY <1>0
  <2>4. s[i] = IF i <= n THEN Content(b)[i] ELSE d[i - n]
    BY <1>6
  <2>5. i <= n => Content(b)[i] = b.mem[j]
    BY <1>4, <2>2
  <2> HIDE DEF n, j
  <2>6. y.mem[j] = IF j >= b.w /\ j < b.w + Len(d) THEN d[j - b.w + 1] ELSE b.mem[j]
    BY <1>1, <2>1
  <2>7. s[i] = y.mem[j]
    BY <2>2, <2>3, <2>4, <2>5, <2>6
  <2> QED BY <2>7 DEF j
<1>9. Len(s) = x.w - x.r
  BY <1>0, <1>2, <1>6
<1>10. \A i \in 1..Len(s) : s[i] = x.mem[x.r + i - 1]
  BY <1>2, <1>7
<1> HIDE DEF x
<1>11. Content(x) = s
  BY <1>3, <1>6, <1>9, <1>10, ContentIs
<1> QED BY <1>2, <1>3, <1>11 DEF s, x, y

(* append() adds its bytes behind the content. *)
LEMMA AppendFacts ==
    ASSUME NEW b, IsBuffer(b), NEW d \in Seq(Byte)
    PROVE  /\ IsBuffer(append(b, d)) /\ Content(append(b, d)) = Content(b) \o d
           /\ KeepsRoom(b, append(b, d))
<1> DEFINE e == ensureWritableBytes(b, Len(d))
<1>1. /\ IsBuffer(e) /\ Content(e) = Content(b) /\ e.size - e.w >= Len(d)
      /\ KeepsRoom(b, e)
  BY EnsureFacts
<1>2. append(b, d) = hasWritten(Write(e, e.w, d), Len(d))
  BY DEF append
<1> HIDE DEF e
<1>3. Len(d) <= e.size - e.w
  BY <1>1 DEF IsBuffer, Buf
<1> QED BY <1>1, <1>2, <1>3, WriteBehind DEF KeepsRoom

(* Moving the indexes keeps a buffer well formed as long as they stay in    *)
(* order.                                                                   *)
LEMMA IndexesFacts ==
    ASSUME NEW b, IsBuffer(b), NEW r \in Nat, NEW w \in Nat, r <= w, w <= b.size
    PROVE  /\ IsBuffer(Indexes(b, r, w))
           /\ Indexes(b, r, w).mem = b.mem /\ Indexes(b, r, w).size = b.size
           /\ Indexes(b, r, w).r = r /\ Indexes(b, r, w).w = w
<1>1. /\ Indexes(b, r, w) = Buf(b.mem, b.size, r, w)
      /\ Indexes(b, r, w).mem = b.mem /\ Indexes(b, r, w).size = b.size
      /\ Indexes(b, r, w).r = r /\ Indexes(b, r, w).w = w
  BY DEF Indexes, Buf
<1> QED BY <1>1 DEF IsBuffer

(* Narrowing the indexes cuts the content. *)
LEMMA CutFacts ==
    ASSUME NEW b, IsBuffer(b), NEW f \in Int, NEW l \in Int, 1 <= f, f <= l + 1,
           l <= b.w - b.r
    PROVE  /\ IsBuffer(Indexes(b, b.r + (f - 1), b.r + l))
           /\ Indexes(b, b.r + (f - 1), b.r + l).r = b.r + (f - 1)
           /\ Content(Indexes(b, b.r + (f - 1), b.r + l)) = SubSeq(Content(b), f, l)
<1> DEFINE r == b.r + (f - 1)
           w == b.r + l
           x == Indexes(b, r, w)
           c == Content(b)
           s == SubSeq(c, f, l)
<1>0. /\ b.r \in Nat /\ b.w \in Nat /\ b.size \in Nat /\ b.w <= b.size
      /\ r \in Nat /\ w \in Nat /\ r <= w /\ w <= b.size
  BY DEF IsBuffer
<1>1. IsBuffer(x) /\ x.mem = b.mem /\ x.r = r /\ x.w = w
  BY <1>0, IndexesFacts
<1>2. /\ c \in Seq(Byte) /\ Len(c) = b.w - b.r
      /\ \A i \in 1..(b.w - b.r) : c[i] = b.mem[b.r + i - 1]
  BY ContentType
<1> HIDE DEF c
<1>3. \A i \in f..l : i \in 1..Len(c)
  BY <1>0, <1>2
<1>4. \A i \in f..l : c[i] \in Byte
  BY <1>2, <1>3
<1>5. /\ s \in Seq(Byte) /\ Len(s) = IF f <= l THEN l - f + 1 ELSE 0
      /\ \A i \in 1..(l - f + 1) : s[i] = c[f + i - 1]
  BY <1>4, SubSeqProperties
<1> HIDE DEF s, x
<1>6. Len(s) = x.w - x.r /\ Len(s) = l - f + 1
  BY <1>0, <1>1, <1>5
<1>7. \A i \in 1..Len(s) : s[i] = x.mem[x.r + i - 1]
  <2> SUFFICES ASSUME NEW i \in 1..(l - f + 1) PROVE s[i] = b.mem[r + i - 1]
    BY <1>1, <1>6
  <2>1. s[i] = c[f + i - 1]
    BY <1>5
  <2>2. f + i - 1 \in 1..(b.w - b.r)
    BY <1>0
  <2>3. b.r + (f + i - 1) - 1 = r + i - 1
    BY <1>0
  <2> QED BY <1>2, <2>1, <2>2, <2>3
<1>8. Content(x) = s
  BY <1>1, <1>5, <1>6, <1>7, ContentIs
<1> QED BY <1>1, <1>8 DEF x, s, c

(* retrieve() takes bytes off the front of the content. *)
LEMMA RetrieveFacts ==
    ASSUME NEW b, IsBuffer(b), NEW len \in Nat, len <= b.w - b.r
    PROVE  /\ IsBuffer(retrieve(b, len)) /\ KeepsRoom(b, retrieve(b, len))
           /\ Content(retrieve(b, len)) = SubSeq(Content(b), len + 1, Len(Content(b)))
<1>0. /\ b.r \in Nat /\ b.w \in Nat /\ b.size \in Nat /\ b.r <= b.w /\ b.w <= b.size
      /\ kCheapPrepend \in Nat /\ kCheapPrepend <= b.size
  BY BufferAssumption DEF IsBuffer
<1>1. Len(Content(b)) = b.w - b.r /\ Content(b) \in Seq(Byte)
  BY ContentType
<1>2. CASE len < b.w - b.r
  <2>1. retrieve(b, len) = Indexes(b, b.r + len, b.w)
    BY <1>2 DEF retrieve, readableBytes
  <2> DEFINE l == b.w - b.r
             r == b.r + len
             f == len + 1
  <2>2. /\ f \in Int /\ l \in Int /\ 1 <= f /\ f <= l + 1 /\ l <= b.w - b.r
    BY <1>0, <1>2
  <2>3. b.r + (f - 1) = r /\ b.r + l = b.w /\ r >= b.r
    BY <1>0
  <2> HIDE DEF l, r, f
  <2>4. /\ IsBuffer(Indexes(b, b.r + (f - 1), b.r + l))
        /\ Indexes(b, b.r + (f - 1), b.r + l).r = b.r + (f - 1)
        /\ Content(Indexes(b, b.r + (f - 1), b.r + l)) = SubSeq(Content(b), f, l)
    BY <2>2, CutFacts, Zenon
  <2>5. /\ IsBuffer(Indexes(b, r, b.w)) /\ Indexes(b, r, b.w).r = r
        /\ Content(Indexes(b, r, b.w)) = SubSeq(Content(b), f, l)
    BY <2>3, <2>4
  <2>6. retrieve(b, len) = Indexes(b, r, b.w) /\ Len(Content(b)) = l /\ f = len + 1
    BY <1>1, <2>1 DEF r, l, f
  <2> QED BY <2>3, <2>5, <2>6 DEF KeepsRoom
<1>3. CASE ~(len < b.w - b.r)
  <2> DEFINE x == Indexes(b, kCheapPrepend, kCheapPrepend)
  <2>1. retrieve(b, len) = x
    BY <1>3 DEF retrieve, readableBytes
  <2>2. IsBuffer(x) /\ x.r = kCheapPrepend /\ x.w = kCheapPrepend
    BY <1>0, IndexesFacts
  <2> HIDE DEF x
  <2>3. Content(x) = <<>>
    BY <2>2, EmptyContent
  <2>4. len + 1 > b.w - b.r /\ len + 1 \in Int /\ b.w - b.r \in Int
    BY <1>0, <1>3
  <2>5. SubSeq(Content(b), len + 1, b.w - b.r) = <<>>
    BY <2>4, SubSeqEmpty
  <2>6. KeepsRoom(b, x)
    BY <1>0, <2>2 DEF KeepsRoom
  <2> QED BY <1>1, <2>1, <2>2, <2>3, <2>5, <2>6
<1> QED BY <1>2, <1>3

(* unwrite() takes bytes off the back of the content. *)
LEMMA UnwriteFacts ==
    ASSUME NEW b, IsBuffer(b), NEW len \in Nat, len <= b.w - b.r
    PROVE  /\ IsBuffer(unwrite(b, len)) /\ unwrite(b, len).r = b.r
           /\ Content(unwrite(b, len)) = SubSeq(Content(b), 1, Len(Content(b)) - len)
<1>0. b.r \in Nat /\ b.w \in Nat /\ b.size \in Nat /\ b.r <= b.w /\ b.w <= b.size
  BY DEF IsBuffer
<1>1. Len(Content(b)) = b.w - b.r
  BY ContentType
<1> DEFINE l == b.w - b.r - len
           w == b.w - len
<1>2. 1 \in Int /\ l \in Int /\ 1 <= 1 /\ 1 <= l + 1 /\ l <= b.w - b.r
  BY <1>0
<1>3. b.r + (1 - 1) = b.r /\ b.r + l = w
  BY <1>0
<1> HIDE DEF l, w
<1>4. /\ IsBuffer(Indexes(b, b.r + (1 - 1), b.r + l))
      /\ Indexes(b, b.r + (1 - 1), b.r + l).r = b.r + (1 - 1)
      /\ Content(Indexes(b, b.r + (1 - 1), b.r + l)) = SubSeq(Content(b), 1, l)
  BY <1>2, CutFacts, Zenon
<1>5. /\ IsBuffer(Indexes(b, b.r, w)) /\ Indexes(b, b.r, w).r = b.r
      /\ Content(Indexes(b, b.r, w)) = SubSeq(Content(b), 1, l)
  BY <1>3, <1>4
<1> QED BY <1>1, <1>5 DEF unwrite, l, w

(* hasWritten() makes content of the bytes behind the write index. *)
LEMMA HasWrittenFacts ==
    ASSUME NEW b, IsBuffer(b), NEW len \in Nat, len <= b.size - b.w
    PROVE  LET d == [i \in 1..len |-> b.mem[b.w + i - 1]]
           IN  /\ d \in Seq(Byte) /\ IsBuffer(hasWritten(b, len)) /\ hasWritten(b, len).r = b.r
               /\ Content(hasWritten(b, len)) = Content(b) \o d
<1> DEFINE d == [i \in 1..len |-> b.mem[b.w + i - 1]]
<1>0. b.r \in Nat /\ b.w \in Nat /\ b.size \in Nat /\ b.r <= b.w /\ b.w <= b.size
        /\ b.mem \in [0..(b.size - 1) -> Byte] /\ b = Buf(b.mem, b.size, b.r, b.w)
  BY DEF IsBuffer
<1>1. \A i \in 1..len : b.w + i - 1 \in 0..(b.size - 1)
  BY <1>0
<1>2. d \in [1..len -> Byte]
  BY <1>0, <1>1
<1>3. d \in Seq(Byte) /\ Len(d) = len
  BY <1>2
<1>4. \A i \in 0..(b.size - 1) : i >= b.w /\ i < b.w + len =>
        d[i - b.w + 1] = b.mem[i]
  <2> SUFFICES ASSUME NEW i \in 0..(b.size - 1), i >= b.w, i < b.w + len
               PROVE  d[i - b.w + 1] = b.mem[i]
    OBVIOUS
  <2>1. i - b.w + 1 \in 1..len /\ b.w + (i - b.w + 1) - 1 = i
    BY <1>0
  <2> QED BY <2>1
<1> HIDE DEF d
<1>5. b.mem = [i \in 0..(b.size - 1) |->
                 IF i >= b.w /\ i < b.w + Len(d) THEN d[i - b.w + 1] ELSE b.mem[i]]
  <2>1. b.mem = [i \in 0..(b.size - 1) |-> b.mem[i]]
    BY <1>0
  <2> QED BY <1>3, <1>4, <2>1
<1>6. Write(b, b.w, d) = b
  BY <1>0, <1>5 DEF Write
<1>7. Len(d) <= b.size - b.w
  BY <1>3
<1> QED BY <1>3, <1>6, <1>7, WriteBehind DEF d

(* prepend() puts its bytes in front of the content. *)
LEMMA PrependFacts ==
    ASSUME NEW b, IsBuffer(b), NEW d \in Seq(Byte), Len(d) <= b.r
    PROVE  /\ IsBuffer(prepend(b, d)) /\ prepend(b, d).r = b.r - Len(d)
           /\ Content(prepend(b, d)) = d \o Content(b)
<1> DEFINE n == Len(d)
           r == b.r - n
           y == Indexes(b, r, b.w)
           x == Write(y, r, d)
           s == d \o Content(b)
           l == b.w - b.r
<1>0. /\ b.r \in Nat /\ b.w \in Nat /\ b.size \in Nat /\ b.r <= b.w /\ b.w <= b.size
      /\ n \in Nat /\ r \in Nat /\ r + n = b.r /\ r <= b.w /\ r + n <= b.size
      /\ l \in Nat /\ b.w - r = n + l
  BY DEF IsBuffer
<1>1. prepend(b, d) = x
  BY DEF prepend
<1>2. IsBuffer(y) /\ y.mem = b.mem /\ y.size = b.size /\ y.r = r /\ y.w = b.w
  <2> HIDE DEF r
  <2> QED BY <1>0, IndexesFacts
<1> HIDE DEF y, n, r
<1>3. /\ IsBuffer(x) /\ x.r = r /\ x.w = b.w
      /\ \A i \in 0..(b.size - 1) : x.mem[i] =
           IF i >= r /\ i < r + n THEN d[i - r + 1] ELSE b.mem[i]
  BY <1>0, <1>2, WriteFacts DEF n
<1> HIDE DEF x
<1>4. /\ Content(b) \in Seq(Byte) /\ Len(Content(b)) = l
      /\ \A i \in 1..l : Content(b)[i] = b.mem[b.r + i - 1]
  BY ContentType
<1>5. /\ s \in Seq(Byte) /\ Len(s) = n + l
      /\ \A i \in 1..(n + l) : s[i] = IF i <= n THEN d[i] ELSE Content(b)[i - n]
  BY <1>0, <1>4, ConcatBytes DEF n
<1> HIDE DEF s, l
<1>6. \A i \in 1..Len(s) : s[i] = x.mem[x.r + i - 1]
  <2> SUFFICES ASSUME NEW i \in 1..(n + l) PROVE s[i] = x.mem[r + i - 1]
    BY <1>3, <1>5
  <2> DEFINE j == r + i - 1
  <2>0. b.w = r + n + l
    BY <1>0 DEF l
  <2>1. j \in 0..(b.size - 1)
    BY <1>0, <2>0
  <2>2. i <= n => j >= r /\ j < r + n /\ j - r + 1 = i
    BY <1>0
  <2>3. ~(i <= n) => ~(j < r + n) /\ i - n \in 1..l /\ b.r + (i - n) - 1 = j
    BY <1>0
  <2>4. ~(i <= n) => Content(b)[i - n] = b.mem[j]
    BY <1>4, <2>3
  <2> HIDE DEF j
  <2>5. s[i] = x.mem[j]
    BY <1>3, <1>5, <2>1, <2>2, <2>3, <2>4
  <2> QED BY <2>5 DEF j
<1>7. Len(s) = x.w - x.r
  BY <1>0, <1>3, <1>5
<1>8. Content(x) = s
  BY <1>3, <1>5, <1>6, <1>7, ContentIs
<1> QED BY <1>1, <1>3, <1>8 DEF r, n, s

(* shrink() keeps the content in a new vector. *)
LEMMA ShrinkFacts ==
    ASSUME NEW b, IsBuffer(b), NEW reserve \in Nat
    PROVE  /\ IsBuffer(shrink(b, reserve)) /\ Content(shrink(b, reserve)) = Content(b)
           /\ shrink(b, reserve).r >= kCheapPrepend
<1> DEFINE len == readableBytes(b) + reserve
           e == ensureWritableBytes(Fresh, len)
<1>1. len \in Nat
  BY DEF IsBuffer, readableBytes
<1> HIDE DEF len
<1>2. IsBuffer(e) /\ Content(e) = <<>> /\ KeepsRoom(Fresh, e)
  BY <1>1, EnsureFacts, FreshFacts
<1>3. shrink(b, reserve) = append(e, Content(b))
  BY DEF shrink, len
<1> HIDE DEF e
<1>4. Content(b) \in Seq(Byte)
  BY ContentType
<1>5. /\ IsBuffer(append(e, Content(b))) /\ KeepsRoom(e, append(e, Content(b)))
      /\ Content(append(e, Content(b))) = <<>> \o Content(b)
  BY <1>2, <1>4, AppendFacts
<1>6. <<>> \o Content(b) = Content(b)
  BY <1>4, ConcatEmptySeq
<1>7. e.r >= kCheapPrepend /\ e.r \in Nat /\ append(e, Content(b)).r \in Nat
  BY <1>2, <1>5, FreshFacts, BufferAssumption DEF KeepsRoom, IsBuffer
<1>8. append(e, Content(b)).r >= kCheapPrepend
  BY <1>5, <1>7, BufferAssumption DEF KeepsRoom
<1> QED BY <1>3, <1>5, <1>6, <1>8

(* A sequence is its first n elements and the rest. *)
LEMMA SplitBytes ==
    ASSUME NEW d \in Seq(Byte), NEW n \in 0..Len(d)
    PROVE  /\ SubSeq(d, 1, n) \in Seq(Byte) /\ Len(SubSeq(d, 1, n)) = n
           /\ SubSeq(d, n + 1, Len(d)) \in Seq(Byte)
           /\ SubSeq(d, 1, n) \o SubSeq(d, n + 1, Len(d)) = d
<1> DEFINE u == SubSeq(d, 1, n)
           v == SubSeq(d, n + 1, Len(d))
<1>1. /\ u \in Seq(Byte) /\ Len(u) = n /\ \A i \in 1..n : u[i] = d[i]
  OBVIOUS
<1>2. /\ v \in Seq(Byte) /\ Len(v) = Len(d) - n
      /\ \A i \in 1..(Len(d) - n) : v[i] = d[n + i]
  OBVIOUS
<1> HIDE DEF u, v
<1> DEFINE s == u \o v
<1>3. /\ s \in Seq(Byte) /\ Len(s) = n + Len(v)
      /\ \A i \in 1..(n + Len(v)) : s[i] = IF i <= n THEN u[i] ELSE v[i - n]
  <2>1. n \in Nat
    OBVIOUS
  <2> QED BY <1>1, <1>2, <2>1, ConcatBytes
<1> HIDE DEF s
<1>4. Len(s) = Len(d) /\ n + Len(v) = Len(d)
  BY <1>2, <1>3
<1>5. \A i \in 1..Len(d) : s[i] = d[i]
  <2> SUFFICES ASSUME NEW i \in 1..Len(d) PROVE s[i] = d[i]
    OBVIOUS
  <2>1. CASE i <= n
    BY <1>1, <1>3, <1>4, <2>1
  <2>2. CASE ~(i <= n)
    <3>1. i - n \in 1..(Len(d) - n) /\ n + (i - n) = i
      BY <2>2
    <3> QED BY <1>2, <1>3, <1>4, <2>2, <3>1
  <2> QED BY <2>1, <2>2
<1>6. s = [i \in 1..Len(s) |-> s[i]] /\ d = [i \in 1..Len(d) |-> d[i]]
  BY <1>3
<1>7. s = d
  BY <1>4, <1>5, <1>6
<1> QED BY <1>1, <1>2, <1>7 DEF u, v, s

(* Concatenation is associative. *)
LEMMA ConcatAssociates ==
    ASSUME NEW s \in Seq(Byte), NEW t \in Seq(Byte), NEW u \in Seq(Byte)
    PROVE  (s \o t) \o u = s \o (t \o u)
  BY ConcatAssociative

(* readFd() appends what was received, whether or not it spilled into       *)
(* extrabuf.                                                                *)
LEMMA ReadFdFacts ==
    ASSUME NEW b, IsBuffer(b), NEW d \in Seq(Byte)
    PROVE  /\ IsBuffer(readFd(b, d)) /\ KeepsRoom(b, readFd(b, d))
           /\ Content(readFd(b, d)) = Content(b) \o d
<1>0. b.r \in Nat /\ b.w \in Nat /\ b.size \in Nat /\ b.r <= b.w /\ b.w <= b.size
  BY DEF IsBuffer
<1>1. CASE Len(d) <= b.size - b.w
  <2>1. readFd(b, d) = hasWritten(Write(b, b.w, d), Len(d))
    BY <1>1 DEF readFd, writableBytes
  <2> QED BY <1>0, <1>1, <2>1, WriteBehind DEF KeepsRoom
<1>2. CASE ~(Len(d) <= b.size - b.w)
  <2> DEFINE n == b.size - b.w
             u == SubSeq(d, 1, n)
             v == SubSeq(d, n + 1, Len(d))
             full == hasWritten(Write(b, b.w, u), Len(u))
  <2>1. n \in 0..Len(d) /\ n \in Nat /\ b.w + n = b.size
    BY <1>0, <1>2
  <2>2. u \in Seq(Byte) /\ Len(u) = n /\ v \in Seq(Byte) /\ u \o v = d
    <3> HIDE DEF n
    <3> QED BY <2>1, SplitBytes
  <2>3. IsBuffer(full) /\ full.r = b.r /\ Content(full) = Content(b) \o u
    <3>1. Len(u) <= b.size - b.w
      BY <2>1, <2>2
    <3> HIDE DEF u
    <3> QED BY <2>2, <3>1, WriteBehind
  <2>4. full = Indexes(Write(b, b.w, u), b.r, b.size)
    BY <2>1, <2>2 DEF hasWritten, Write, Buf
  <2>5. readFd(b, d) = append(full, v)
    BY <1>2, <2>4 DEF readFd, writableBytes
  <2> HIDE DEF full, v, u
  <2>6. /\ IsBuffer(append(full, v)) /\ KeepsRoom(full, append(full, v))
        /\ Content(append(full, v)) = (Content(b) \o u) \o v
    BY <2>2, <2>3, AppendFacts
  <2>7. (Content(b) \o u) \o v = Content(b) \o d
    <3>1. Content(b) \in Seq(Byte)
      BY ContentType
    <3>2. (Content(b) \o u) \o v = Content(b) \o (u \o v)
      BY <2>2, <3>1, ConcatAssociates
    <3> QED BY <2>2, <3>2
  <2> QED BY <2>3, <2>5, <2>6, <2>7 DEF KeepsRoom
<1> QED BY <1>1, <1>2

-----------------------------------------------------------------------------
(* ContentExact and PrependRoom are inductive together with TypeOK, which   *)
(* the lemmas about the operators need: their premise is IsBuffer(buf).     *)
IInv == TypeOK /\ PrependRoom /\ ContentExact

(* A call that keeps the buffer well formed, its room in front, and whose   *)
(* content is what the deque holds, preserves the invariant.                *)
LEMMA BecomesFacts ==
    ASSUME IInv, NEW b, IsBuffer(b), KeepsRoom(buf, b), Becomes(b),
           bytes' \in Seq(Byte), Content(b) = bytes'
    PROVE  IInv'
<1>1. buf' = b /\ prepended' = IF b.r >= kCheapPrepend THEN 0 ELSE prepended
  BY DEF Becomes
<1>2. TypeOK'
  BY <1>1, BufferAssumption DEF IInv, TypeOK, IsBuffer
<1>3. PrependRoom'
  BY <1>1, BufferAssumption DEF IInv, PrependRoom, KeepsRoom, TypeOK, IsBuffer
<1>4. ContentExact'
  BY <1>1 DEF ContentExact
<1> QED BY <1>2, <1>3, <1>4 DEF IInv

(* The arguments of the calls are byte sequences. *)
LEMMA DataIsSeq == \A d \in Data : d \in Seq(Byte)
  BY DEF Data

(* A new buffer satisfies the invariant. *)
LEMMA InitInv == Init => IInv
<1> SUFFICES ASSUME Init PROVE IInv
  OBVIOUS
<1>1. IsBuffer(Fresh) /\ Fresh.r = kCheapPrepend /\ Content(Fresh) = <<>>
  BY FreshFacts
<1> QED BY <1>1, BufferAssumption DEF Init, IInv, TypeOK, PrependRoom, ContentExact

(* Every call preserves the invariant. *)
LEMMA NextInv == IInv /\ [Next]_vars => IInv'
<1> SUFFICES ASSUME IInv, [Next]_vars PROVE IInv'
  OBVIOUS
<1>0. /\ IsBuffer(buf) /\ bytes \in Seq(Byte) /\ Content(buf) = bytes
      /\ Len(bytes) = buf.w - buf.r
  BY ContentType DEF IInv, TypeOK, ContentExact
<1>1. ASSUME NEW d \in Data, Append_(d) PROVE IInv'
  <2>1. d \in Seq(Byte) /\ bytes' = bytes \o d /\ Becomes(append(buf, d))
    BY <1>1, DataIsSeq DEF Append_
  <2>2. bytes' \in Seq(Byte)
    BY <1>0, <2>1
  <2> QED BY <1>0, <2>1, <2>2, AppendFacts, BecomesFacts
<1>2. ASSUME NEW d \in Data, Prepend(d) PROVE IInv'
  <2>1. d \in Seq(Byte) /\ Len(d) <= buf.r
    BY <1>2, DataIsSeq DEF Prepend, prependableBytes
  <2>2. /\ IsBuffer(buf') /\ buf'.r = buf.r - Len(d) /\ Content(buf') = bytes'
    BY <1>0, <1>2, <2>1, PrependFacts DEF Prepend
  <2>3. bytes' \in Seq(Byte) /\ Len(d) \in Nat
    BY <1>0, <1>2, <2>1 DEF Prepend
  <2>4. TypeOK'
    BY <1>2, <2>2, <2>3, BufferAssumption DEF IInv, TypeOK, Prepend, IsBuffer
  <2>5. PrependRoom'
    BY <1>2, <2>2, <2>3, BufferAssumption DEF IInv, PrependRoom, TypeOK, Prepend, IsBuffer
  <2> QED BY <2>2, <2>4, <2>5 DEF IInv, ContentExact
<1>3. ASSUME NEW d \in Data, ReadFd(d) PROVE IInv'
  <2>1. d \in Seq(Byte) /\ bytes' = bytes \o d /\ Becomes(readFd(buf, d))
    BY <1>3, DataIsSeq DEF ReadFd
  <2>2. bytes' \in Seq(Byte)
    BY <1>0, <2>1
  <2> QED BY <1>0, <2>1, <2>2, ReadFdFacts, BecomesFacts
<1>4. ASSUME NEW len \in 0..MaxLen, EnsureWritable(len) PROVE IInv'
  BY <1>0, <1>4, EnsureFacts, BecomesFacts, BufferAssumption DEF EnsureWritable
<1>5. ASSUME NEW len \in 0..MaxLen, HasWritten(len) PROVE IInv'
  <2> DEFINE d == [i \in 1..len |-> buf.mem[buf.w + i - 1]]
  <2>1. len \in Nat /\ len <= buf.size - buf.w
    BY <1>5, BufferAssumption DEF HasWritten, writableBytes
  <2>2. /\ d \in Seq(Byte) /\ IsBuffer(hasWritten(buf, len))
        /\ hasWritten(buf, len).r = buf.r
        /\ Content(hasWritten(buf, len)) = Content(buf) \o d
    BY <1>0, <2>1, HasWrittenFacts
  <2>3. bytes' = bytes \o d
    BY <1>5 DEF HasWritten
  <2> HIDE DEF d
  <2>4. KeepsRoom(buf, hasWritten(buf, len))
    BY <1>0, <2>2 DEF KeepsRoom, IsBuffer
  <2>5. bytes' \in Seq(Byte)
    BY <1>0, <2>2, <2>3
  <2>6. Becomes(hasWritten(buf, len))
    BY <1>5 DEF HasWritten
  <2> QED BY <1>0, <2>2, <2>3, <2>4, <2>5, <2>6, BecomesFacts
<1>6. ASSUME NEW len \in 0..MaxLen, Unwrite(len) PROVE IInv'
  <2>1. len \in Nat /\ len <= buf.w - buf.r
    BY <1>6, BufferAssumption DEF Unwrite, readableBytes
  <2>2. /\ IsBuffer(unwrite(buf, len)) /\ unwrite(buf, len).r = buf.r
        /\ Content(unwrite(buf, len)) = bytes'
    BY <1>0, <1>6, <2>1, UnwriteFacts DEF Unwrite
  <2>3. KeepsRoom(buf, unwrite(buf, len))
    BY <1>0, <2>2 DEF KeepsRoom, IsBuffer
  <2>4. bytes' \in Seq(Byte)
    BY <2>2, ContentType
  <2> QED BY <1>6, <2>2, <2>3, <2>4, BecomesFacts DEF Unwrite
<1>7. ASSUME NEW len \in 0..MaxLen, Retrieve(len) PROVE IInv'
  <2>1. len \in Nat /\ len <= buf.w - buf.r
    BY <1>7, BufferAssumption DEF Retrieve, readableBytes
  <2>2. /\ IsBuffer(retrieve(buf, len)) /\ KeepsRoom(buf, retrieve(buf, len))
        /\ Content(retrieve(buf, len)) = bytes'
    BY <1>0, <1>7, <2>1, RetrieveFacts DEF Retrieve
  <2>3. bytes' \in Seq(Byte)
    BY <2>2, ContentType
  <2> QED BY <1>7, <2>2, <2>3, BecomesFacts DEF Retrieve
<1>8. ASSUME NEW len \in 0..MaxLen, Shrink(len) PROVE IInv'
  BY <1>0, <1>8, ShrinkFacts, BecomesFacts, BufferAssumption DEF Shrink, KeepsRoom
<1>9. CASE UNCHANGED vars
  BY <1>9 DEF vars, IInv, TypeOK, PrependRoom, ContentExact, Content, readableBytes
<1> QED BY <1>1, <1>2, <1>3, <1>4, <1>5, <1>6, <1>7, <1>8, <1>9 DEF Next

(* The inductive invariant holds for every size of vector and of call. *)
THEOREM Invariance == Spec => []IInv
  BY InitInv, NextInv, PTL DEF Spec

(* The indexes stay in order, inside the vector (Buffer.h:31). *)
THEOREM TypeCorrect == Spec => []TypeOK
<1>1. IInv => TypeOK
  BY DEF IInv
<1> QED BY Invariance, <1>1, PTL

(* Growing, compacting, shrinking and reading through extrabuf never lose,  *)
(* repeat or reorder a byte.                                                *)
THEOREM ContentCorrect == Spec => []ContentExact
<1>1. IInv => ContentExact
  BY DEF IInv
<1> QED BY Invariance, <1>1, PTL

(* Only prepend() uses up the room in front. *)
THEOREM PrependRoomKept == Spec => []PrependRoom
<1>1. IInv => PrependRoom
  BY DEF IInv
<1> QED BY Invariance, <1>1, PTL

(* The asserts of ensureWritableBytes() and makeSpace() never fail. *)
THEOREM SpaceCorrect == Spec => []SpaceIsMade
<1>1. IInv => SpaceIsMade
  <2> SUFFICES ASSUME IInv, NEW len \in 0..MaxLen
               PROVE  LET e == ensureWritableBytes(buf, len)
                      IN  /\ writableBytes(e) >= len
                          /\ writableBytes(buf) < len /\ ~Grows(buf, len) => kCheapPrepend < buf.r
                          /\ readableBytes(e) = readableBytes(buf)
    BY DEF SpaceIsMade
  <2> DEFINE e == ensureWritableBytes(buf, len)
  <2>1. len \in Nat /\ IsBuffer(buf)
    BY BufferAssumption DEF IInv, TypeOK
  <2>2. /\ IsBuffer(e) /\ Content(e) = Content(buf) /\ e.size - e.w >= len
        /\ writableBytes(buf) < len /\ ~Grows(buf, len) => kCheapPrepend < buf.r
    BY <2>1, EnsureFacts
  <2> HIDE DEF e
  <2>3. Len(Content(e)) = e.w - e.r /\ Len(Content(buf)) = buf.w - buf.r
    BY <2>1, <2>2, ContentType
  <2> QED BY <2>2, <2>3 DEF writableBytes, readableBytes, e
<1> QED BY Invariance, <1>1, PTL
=============================================================================
