SPECIFICATION SoftSpec
CONSTANTS
    portBYTE_ALIGNMENT = 2
    xHeapStructSize = 2
    ucHeap = 3
    configTOTAL_HEAP_SIZE = 24
    xBlockAllocatedBit = 64
    HeapRegions <- TwoRegions
    Requests = {0, 1, 4, 6, 64, 125, 127}
    NoBlock = NoBlock
    MaxAllocations = 6
    CoRoutines = {"high", "low1", "low2"}
    CoQueues = {"q"}
    CoPriority <- Priority2
    CoProgram <- Program2
    CoLength <- One
    CoTickMod = 4
    CoLag = 1
    CoCalls = 1
    NoCo = NoCo
    ListInputs <- Lists_
    TextInputs <- Texts
    StateInputs <- States_
    MatrixInputs <- Matrices
INVARIANTS BlocksTile RequestsMet CoRoutinesHeeded InputsRestored TokensExact
CHECK_DEADLOCK FALSE
