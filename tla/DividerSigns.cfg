SPECIFICATION DividerSpec
CONSTANTS
    DW = 3
    Ops = {"DIV", "REM", "DIVU", "REMU"}
INVARIANT ResultCorrect
