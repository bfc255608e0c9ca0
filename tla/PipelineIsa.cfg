SPECIFICATION Spec
CONSTANTS
    Word <- MCWord
    Zero = 0
    Four = 1
    Add <- MCAdd
    Neg <- MCNeg
    Alu <- MCAlu
    Div <- MCDiv
    Taken <- MCTaken
    OrBits <- MCOrBits
    ClearBits <- MCClearBits
    Reg <- MCReg
    X0 = "x0"
    Link = {"ra"}
    Programs <- AllPrograms
    Images <- MCImages
    Reset = 1
    AsyncInputs <- NoIrq
    ExtWord = {3}
INVARIANTS TypeOK InFlight
PROPERTY ImplementsIsa
