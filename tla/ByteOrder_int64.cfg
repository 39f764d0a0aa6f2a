\* 64-bit integers on a little-endian host.
SPECIFICATION Spec
CONSTANTS
    Widths = {8}
    Bytes = {1, 2}
    MaxInts = 1
INVARIANT IntsExact
