SPECIFICATION Spec
CONSTANTS
    Word <- MCWord
    Zero = 0
    Four = 1
    Add <- MCAdd
    Neg <- MCNeg
    Alu <- MCAlu
    Div <- MCDiv
    Taken <- MCTaken
    OrBits <- MCOrBits
    ClearBits <- MCClearBits
    Reg <- MCReg
    X0 = "x0"
    Link = {"ra"}
    Programs <- IrqPrograms
    Images <- MCImages
    Reset = 1
    AsyncInputs <- TimerIrq
    ExtWord = {3}
PROPERTY PreciseInterrupt
