SPECIFICATION Spec
CONSTANTS
    HeaderLines <- MCHeaderLines
    StatusLines <- MCStatusLines
    Lengths <- MCLengths
    IntMax = 15
    None = None
INVARIANTS
    InsideLine
    LineExact
    LengthExact
CHECK_DEADLOCK FALSE
