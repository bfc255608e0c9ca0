----------------------------- MODULE MCPipeline -----------------------------
(***************************************************************************)
(* Small instances of Pipeline: four words, so programs of four            *)
(* instructions in an address space that wraps, and three registers.       *)
(* Every program over a pool of instructions is explored.                  *)
(***************************************************************************)
EXTENDS Pipeline, Naturals

MCWord == 0..3
MCAdd(v, w) == (v + w) % 4
MCNeg(w) == w >= 2
MCAlu(v, w) == (v + w) % 4
MCDiv(v, w) == IF w = 0 THEN 3 ELSE v \div w
MCTaken(v, w) == v # w
MCClearBits(v, w) == (IF v % 2 > w % 2 THEN 1 ELSE 0) + (IF v \div 2 > w \div 2 THEN 2 ELSE 0)
MCOrBits(v, w) == w + MCClearBits(v, w)

MCReg == {"x0", "ra", "t0"}

I(op, rd, rs1, rs2, imm, c) ==
    [op |-> op, rd |-> rd, rs1 |-> rs1, rs2 |-> rs2, imm |-> imm, csr |-> c]

MCImages == {[w \in MCWord |-> (w + 1) % 4]}

\* Every program whose instructions come from the pool.
Over(pool) == [MCWord -> pool]

Addi  == I("opi", "ra", "ra", "x0", 1, "mtvec")
AddT  == I("op", "t0", "ra", "t0", 0, "mtvec")
BackB == I("br", "x0", "ra", "t0", 3, "mtvec")
ForwB == I("br", "x0", "ra", "x0", 1, "mtvec")
Loop  == I("jal", "x0", "x0", "x0", 3, "mtvec")
Call  == I("jal", "ra", "x0", "x0", 2, "mtvec")
Ret   == I("jalr", "x0", "ra", "x0", 0, "mtvec")
CallT == I("jalr", "ra", "t0", "x0", 1, "mtvec")
DivT  == I("div", "ra", "t0", "ra", 0, "mtvec")
LoadT == I("load", "t0", "t0", "x0", 2, "mtvec")
Store == I("store", "x0", "ra", "t0", 1, "mtvec")

SetVec  == I("csrrw", "t0", "ra", "x0", 0, "mtvec")
SwapEpc == I("csrrw", "ra", "ra", "x0", 0, "mepc")
Swap    == I("csrrw", "ra", "t0", "x0", 0, "mscratch")
SetS    == I("csrrs", "t0", "ra", "x0", 0, "mscratch")
ClearS  == I("csrrc", "ra", "t0", "x0", 0, "mscratch")
SetEpc  == I("csrrsi", "x0", "x0", "x0", 2, "mepc")
ClearSI == I("csrrci", "x0", "x0", "x0", 1, "mscratch")
Ecall   == I("ecall", "x0", "x0", "x0", 0, "mtvec")
Bad     == I("illegal", "x0", "x0", "x0", 0, "mtvec")
MretI   == I("mret", "x0", "x0", "x0", 0, "mtvec")
MieOn   == I("mie", "x0", "x0", "x0", 1, "mtvec")

JumpPrograms == Over({Addi, BackB, ForwB, Call, Ret, CallT})
DataPrograms == Over({Addi, AddT, BackB, DivT, LoadT, Store})
TrapPrograms == Over({Addi, SetVec, SwapEpc, Swap, Ecall, Bad, MretI})
IrqPrograms  == {[p EXCEPT ![1] = MieOn] : p \in Over({Addi, LoadT, SetVec, MretI, DivT})}

CsrPrograms  == Over({Addi, Swap, SetS, ClearS, SetEpc, ClearSI, MretI})

AllPrograms == JumpPrograms \cup DataPrograms \cup TrapPrograms \cup CsrPrograms

LivePrograms == IrqPrograms \cup Over({Addi, Loop, DivT, LoadT})
CsrImmPrograms == Over({Addi, I("csrrwi", "ra", "x0", "x0", 1, "mscratch")})
ReservedPrograms == Over({Addi, I("reserved", "ra", "ra", "ra", 0, "mtvec")})

NoIrq == {"none"}
TimerIrq == {"none", "timer"}
=============================================================================
