\* Three channels over three descriptors, 0 included; ten keys; two integers; log
\* records of up to four pieces; configuration lines of five characters written
\* and eleven read; scripts of up to three messages per protocol, cut into
\* segments anywhere, with values of at most two bytes, an int of sixteen values
\* and FastCGI answers of up to four bytes.
SPECIFICATION SequentialSpec
CONSTANTS
    Chans = {c1, c2, c3}
    Fds = {0, 1, 2}
    None = none
    DisableUnadded = FALSE
    Keys = {1, 2, 3, 4, 5, 6, 7, 8, 9, 10}
    Twins = {5}
    Widths = {1, 2, 4}
    Bytes = {1, 2}
    MaxInts = 2
    Size = 8
    kMaxNumericSize = 4
    MaxInt = 15
    MaxPieces = 4
    PairSize = 6
    LineSize = 12
    MaxSets = 2
    LongestLine = 24
    MaxValue = 2
    LongKey = "long"
    IntRange = 16
    CacheKeys = {"k1", "k2"}
    BodyLimit = 4
SYMMETRY ChanSymmetry
INVARIANTS IndexAgreement AssertsHold NoDanglingActive RedBlack 
    HttpExact MemcachedExact CodecExact
\* A script that is read and a part at its bound have nothing left to do.
CHECK_DEADLOCK FALSE
