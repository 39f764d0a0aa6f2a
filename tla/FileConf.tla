------------------------------ MODULE FileConf ------------------------------
(***************************************************************************)
(* FileConfReader: a configuration file of "key=value" lines with comments *)
(* and blanks, read once by the constructor and rewritten as a whole by    *)
(* every setVal().  The file, a key and a value are sequences of           *)
(* characters.                                                             *)
(***************************************************************************)
EXTENDS Integers, Sequences, SequencesExt, FiniteSetsExt

CONSTANTS PairSize,      \* 128, writeFile()'s buffer for a line
          LineSize,      \* 256, loadFile()'s
          FileTexts,     \* what the file may hold at first
          Settings,      \* the <<key, value>> setVal() is called with
          MaxSets        \* bound on setVal() calls

VARIABLES
    file,      \* the content of the file
    config,    \* config_map_: a set of <<key, value>>
    loadOk,    \* load_ok_
    result,    \* what the last setVal() returned
    io,        \* how its writeFile() went, "none" when it did not come to it
    sets       \* setVal() calls so far

vars == <<file, config, loadOk, result, io, sets>>

(* Characters in the order of their codes. *)
Alphabet == <<"TAB", "NL", " ", "#", "=", "k", "l", "v">>
Blank == {" ", "TAB"}

(* trimSpace(): <<>> for NULL. *)
trimSpace(s) ==
    LET ink == {i \in DOMAIN s : s[i] \notin Blank}
        Lo  == CHOOSE i \in ink : \A j \in ink : i <= j
        Hi  == CHOOSE i \in ink : \A j \in ink : i >= j
    IN  IF ink = {} THEN <<>> ELSE SubSeq(s, Lo, Hi)

First(s, t) == CHOOSE i \in 1..Len(s) + 1 :
                   /\ i = Len(s) + 1 \/ s[i] = t
                   /\ \A j \in 1..i - 1 : s[j] # t

Has(m, key) == \E p \in m : p[1] = key

(* parseLine(): insert() keeps the first value of a key. *)
parseLine(m, line) ==
    LET eq  == First(line, "=")
        key == trimSpace(SubSeq(line, 1, eq - 1))
        val == trimSpace(SubSeq(line, eq + 1, Len(line)))
    IN  IF eq > Len(line) \/ key = <<>> \/ val = <<>> \/ Has(m, key) THEN m
        ELSE m \cup {<<key, val>>}

(* fgets(): up to a line end, but no more than fits; a longer line comes in   *)
(* pieces, each taken for a line.                                             *)
Fgets(text) ==
    SubSeq(text, 1, Min({First(text, "NL"), LineSize - 1, Len(text)}))

(* loadFile(): the line end is dropped, then what follows a #.                *)
RECURSIVE ReadLines(_, _)
ReadLines(m, text) ==
    LET buf  == Fgets(text)
        line == SubSeq(buf, 1, First(buf, "NL") - 1)
    IN  IF text = <<>> THEN m
        ELSE ReadLines(parseLine(m, SubSeq(line, 1, First(line, "#") - 1)),
                       SubSeq(text, Len(buf) + 1, Len(text)))

loadFile(text) == ReadLines({}, text)

(* The order of std::map: the keys as strings. *)
Code(c) == SelectInSeq(Alphabet, LAMBDA x : x = c)
Before(p, q) ==
    \E i \in DOMAIN q[1] :
        /\ \A j \in 1..i - 1 : j <= Len(p[1]) /\ p[1][j] = q[1][j]
        /\ i = Len(p[1]) + 1 \/ (i <= Len(p[1]) /\ Code(p[1][i]) < Code(q[1][i]))
Ordered(m) == SetToSortSeq(m, Before)

Pair(p) == p[1] \o <<"=">> \o p[2] \o <<"NL">>


(* snprintf(): what does not fit is cut off, the line end first. *)
Line(p) == SubSeq(Pair(p), 1, Min({Len(Pair(p)), PairSize - 1}))

(* The lines that writeFile() writes; the comments are gone. *)
Text(pairs) == FlattenSeq([i \in DOMAIN pairs |-> Line(pairs[i])])

-----------------------------------------------------------------------------
(* The constructor, with a file or without one; load_ok_ has no initial value. *)
Init ==
    /\ sets = 0 /\ result = 0 /\ io = "none"
    /\ \/ file \in FileTexts /\ config = loadFile(file) /\ loadOk = TRUE
       \/ file = <<>> /\ config = {} /\ loadOk \in BOOLEAN

(* writeFile(): fopen() fails; or an fwrite() does, and the pairs before it   *)
(* are all there is; or fclose() cannot write what is buffered, and its       *)
(* result is not looked at.                                                   *)
writeFile(m) ==
    \/ io' = "ok" /\ result' = 0 /\ file' = Text(Ordered(m))
    \/ io' = "open" /\ result' = -1 /\ UNCHANGED file
    \/ /\ io' = "write" /\ result' = -1
       /\ \E n \in 0..Cardinality(m) - 1 : file' = Text(SubSeq(Ordered(m), 1, n))
    \/ io' = "close" /\ result' = 0 /\ file' = <<>>

(* setVal(): without a loaded file it returns NULL, which is 0. *)
SetVal(key, val) ==
    /\ sets < MaxSets /\ sets' = sets + 1
    /\ IF loadOk
       THEN config' = {p \in config : p[1] # key} \cup {<<key, val>>} /\ writeFile(config')
       ELSE result' = 0 /\ io' = "none" /\ UNCHANGED <<config, file>>
    /\ UNCHANGED loadOk

Next == \E s \in Settings : SetVal(s[1], s[2])

Spec == Init /\ [][Next]_vars

-----------------------------------------------------------------------------
(* Settings the reader takes as they are: neither side is empty, has blanks   *)
(* around it, a comment or a line end, and the key has no =.                  *)
Plain(p) ==
    /\ \A i \in 1..2 : p[i] # <<>> /\ trimSpace(p[i]) = p[i]
    /\ ToSet(p[1]) \cap {"#", "NL", "="} = {} /\ ToSet(p[2]) \cap {"#", "NL"} = {}

(* A pair with its line end is shorter than the buffer; the last one may do   *)
(* without its line end.                                                      *)
Fits(m) ==
    \A p \in m : Len(Pair(p)) < PairSize + (IF p = Last(Ordered(m)) THEN 1 ELSE 0)

(* What a setVal() that met no error has written is what the next reader of   *)
(* the file finds, all settings of this reader and no other, exactly when all *)
(* of them are plain and fit the line buffer of writeFile(): a longer pair    *)
(* loses its line end and takes the next one with it.  A setVal() that        *)
(* returned -1 has changed the map alone or left a beginning of it in the     *)
(* file; only an error at fclose() is returned as 0.                          *)
ConfSurvives ==
    /\ io = "ok" => (loadFile(file) = config <=> Fits(config) /\ \A p \in config : Plain(p))
    /\ result = -1 /\ io = "write" => IsPrefix(file, Text(Ordered(config))) /\ file # Text(Ordered(config))
    /\ sets > 0 /\ loadOk /\ result = 0 => io \in {"ok", "close"}
=============================================================================
