----------------------------- MODULE LogStream ------------------------------
(***************************************************************************)
(* LogStream over a FixedBuffer, and the Logger that fills it: a header,   *)
(* the pieces of the message, and a tail with file, line and line end.  A  *)
(* character is a digit, Minus, or another one, Letter.                    *)
(***************************************************************************)
EXTENDS Integers, Sequences, SequencesExt

CONSTANTS Size,              \* kSmallBuffer
          kMaxNumericSize,   \* 32
          MaxInt,            \* the largest number of the integer type
          MaxPieces          \* bound on the pieces of a message

VARIABLES
    data,      \* the characters in the buffer
    record,    \* where the Logger is
    pieces,    \* how many pieces were streamed into the record
    output     \* how much of it was handed to g_output

vars == <<data, record, pieces, output>>

Init == data = <<>> /\ record = "idle" /\ pieces = 0 /\ output = 0

MinInt == -MaxInt - 1    \* two's complement

Minus == 10
Letter == 11

avail == Size - Len(data)

(* C's remainder and quotient round towards zero. *)
Quot(i) == IF i >= 0 THEN i \div 10 ELSE -((-i) \div 10)
Rem(i) == i - 10 * Quot(i)

(* zero[lsd] for lsd in -9..9 *)
Digit(lsd) == IF lsd < 0 THEN -lsd ELSE lsd

(* The least significant digit first. *)
RECURSIVE Digits(_)
Digits(i) == <<Digit(Rem(i))>> \o (IF Quot(i) = 0 THEN <<>> ELSE Digits(Quot(i)))

convert(value) ==
    Reverse(Digits(value) \o (IF value < 0 THEN <<Minus>> ELSE <<>>))

-----------------------------------------------------------------------------
(* FixedBuffer::append(): all or nothing, and never up to the last byte.       *)
append(chars) == IF avail > Len(chars) THEN data \o chars ELSE data

(* Logger(): the time, the thread and the level. *)
Begin ==
    /\ record = "idle" /\ record' = "open"
    /\ data' = <<Letter>> /\ pieces' = 0 /\ output' = 0

(* operator<< of strings *)
StreamString(n) ==
    /\ record = "open" /\ pieces < MaxPieces
    /\ data' = append([i \in 1..n |-> Letter]) /\ pieces' = pieces + 1
    /\ UNCHANGED <<record, output>>

(* formatInteger(): the number is written into the buffer, with its 0 byte.    *)
FormatInteger(v) ==
    /\ record = "open" /\ pieces < MaxPieces
    /\ data' = IF avail >= kMaxNumericSize THEN data \o convert(v) ELSE data
    /\ pieces' = pieces + 1
    /\ UNCHANGED <<record, output>>

(* ~Logger(): the tail, and the output. *)
End ==
    /\ record = "open" /\ record' = "idle"
    /\ output' = Len(append(<<Letter>>))
    /\ data' = <<>> /\ pieces' = 0

Next ==
    \/ Begin \/ End
    \/ \E n \in 0..Size : StreamString(n)
    \/ \E v \in {MinInt, -1, 0, MaxInt} : FormatInteger(v)

Spec == Init /\ [][Next]_vars

-----------------------------------------------------------------------------
RECURSIVE Value(_)
Value(s) == IF s = <<>> THEN 0 ELSE 10 * Value(Front(s)) + Last(s)

(* Every integer of the type, the smallest included, is converted to its       *)
(* decimal digits without leading zeros; with its 0 byte it fits into          *)
(* kMaxNumericSize, so that no piece, kept whole or left out, goes past the    *)
(* end of the buffer.                                                          *)
StreamExact ==
    /\ Len(data) < Size /\ output < Size
    /\ \A v \in MinInt..MaxInt :
        LET c == convert(v)
            d == IF v < 0 THEN Tail(c) ELSE c
        IN  /\ v < 0 <=> c[1] = Minus
            /\ Value(d) = (IF v < 0 THEN -v ELSE v)
            /\ d[1] # 0 \/ Len(d) = 1
            /\ Len(c) < kMaxNumericSize
=============================================================================
