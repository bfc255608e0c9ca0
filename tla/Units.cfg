SPECIFICATION UnitsSpec
CONSTANTS
    DEPTH = 3
    Addr = {1, 2}
    MaxOpen = 4
    Half = 8
    Ticks = 9
    End = 34
    DW = 3
    Ops = {"DIV", "REM", "DIVU", "REMU"}
    W = 6
    Byte = {0, 255}
    Depth = 1
    Words = 4
    Image <- Zeros
    Accesses <- Aligned
INVARIANTS
    HoldsOpenCalls
    TimeReadInCall
    TicksInTime
    NoDrift
    CorrectAfterSameSign
    PartialDivision
    Exact
PROPERTIES
    KeepsTicking
    Finishes
    ImplementsBytes
