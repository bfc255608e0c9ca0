------------------------------- MODULE Riscv -------------------------------
(***************************************************************************)
(* The instruction set of the swift_riscv core, as far as its control is   *)
(* concerned: the classes of instruction the decoder and the ALU tell      *)
(* apart, and what one instruction computes from its own fields, its       *)
(* address and its operands.  rtl/core/alu.v is the source; arithmetic is  *)
(* left uninterpreted, so that everything said about the pipeline holds    *)
(* for every data path.                                                    *)
(***************************************************************************)
CONSTANTS
    Word,         \* a machine word: addresses, data and CSR contents
    Zero,         \* the word 0, which a flushed pipeline register holds as its pc
    Four,         \* the distance to the next instruction
    Add(_, _),    \* address arithmetic
    Neg(_),       \* the sign bit of an immediate
    Alu(_, _),    \* the single-cycle operations of R and I instructions
    Div(_, _),    \* the operations of the multi-cycle divider
    Taken(_, _),  \* the comparison of a conditional branch
    OrBits(_, _),    \* the first word with the bits of the second set
    ClearBits(_, _), \* the first word with the bits of the second cleared
    Reg,          \* the general registers
    X0,           \* the register that always reads 0
    Link          \* the registers ra and x5, that mark calls and returns

ASSUME WordAssumption ==
    /\ Zero \in Word
    /\ Four \in Word
    /\ \A v, w \in Word : /\ Add(v, w) \in Word
                          /\ Alu(v, w) \in Word
                          /\ Div(v, w) \in Word
                          /\ Taken(v, w) \in BOOLEAN
                          /\ OrBits(v, w) \in Word
                          /\ ClearBits(v, w) \in Word
                          /\ Neg(v) \in BOOLEAN

ASSUME RegAssumption == X0 \in Reg /\ Link \subseteq Reg

(***************************************************************************)
(* Classes of instruction.  "reserved" is an R encoding whose func7 or     *)
(* func3 has no meaning, "illegal" an opcode the ALU does not know; "mie"  *)
(* sets or clears mstatus.MIE, by its immediate; the CSR operations are     *)
(* those of the other CSRs.                                                *)
(***************************************************************************)
Jumps   == {"br", "jal", "jalr"}
Traps   == {"ecall", "ebreak", "illegal"}
CsrImm  == {"csrrwi", "csrrsi", "csrrci"}
CsrOps  == {"csrrw", "csrrs", "csrrc"} \cup CsrImm
ClassOp == Jumps \cup Traps \cup CsrOps \cup
           {"op", "opi", "div", "load", "store", "lui", "auipc", "mret", "mie",
            "reserved", "nop"}

Csr == {"mtvec", "mepc", "mscratch"}

Instr == [op : ClassOp, rd : Reg, rs1 : Reg, rs2 : Reg, imm : Word, csr : Csr]

\* What a flushed pipeline register decodes to: the all-zero instruction.
Nop == [op |-> "nop", rd |-> X0, rs1 |-> X0, rs2 |-> X0, imm |-> Zero,
        csr |-> "mtvec"]

(***************************************************************************)
(* One instruction i at address pc with operand values a and b.            *)
(***************************************************************************)
Succ(pc) == Add(pc, Four)

JumpEn(i, a, b) == \/ i.op \in {"jal", "jalr"}
                   \/ i.op = "br" /\ Taken(a, b)

JumpAddr(i, pc, a) == IF i.op = "jalr" THEN Add(a, i.imm) ELSE Add(pc, i.imm)

\* The address of the instruction that follows i when i does not trap.
Follow(i, pc, a, b) == IF JumpEn(i, a, b) THEN JumpAddr(i, pc, a) ELSE Succ(pc)

MemAddr(i, a) == Add(a, i.imm)

\* The instructions that produce a register result.
Produces == {"op", "opi", "div", "load", "jal", "jalr", "lui", "auipc"} \cup CsrOps

\* rd_data, with c the CSR operand and m the loaded word.
RdData(i, pc, a, b, c, m) ==
    CASE i.op = "op"              -> Alu(a, b)
      [] i.op = "opi"             -> Alu(a, i.imm)
      [] i.op = "div"             -> Div(a, b)
      [] i.op = "load"            -> m
      [] i.op \in {"jal", "jalr"} -> Succ(pc)
      [] i.op = "lui"             -> i.imm
      [] i.op = "auipc"           -> Add(pc, i.imm)
      [] i.op \in CsrOps          -> c
      [] OTHER                    -> Zero

\* The value a CSR instruction writes, with c the value it read.
CsrData(i, a, c) ==
    LET bits == IF i.op \in CsrImm THEN i.imm ELSE a
    IN  CASE i.op \in {"csrrs", "csrrsi"} -> OrBits(c, bits)
          [] i.op \in {"csrrc", "csrrci"} -> ClearBits(c, bits)
          [] OTHER                        -> bits

\* Seeded fault: an illegal instruction is given a cause mcause has no code for.
TrapCauseUnknown(i) == CASE i.op = "ebreak" -> "breakpoint"
                         [] i.op = "ecall"  -> "ecall"
                         [] OTHER           -> "fault"

\* mcause of a synchronous trap.
TrapCause(i) == CASE i.op = "ebreak" -> "breakpoint"
                  [] i.op = "ecall"  -> "ecall"
                  [] OTHER           -> "illegal"

AsyncCause == {"external", "timer"}
Causes == {"none", "breakpoint", "ecall", "illegal"} \cup AsyncCause

CONSTANTS
    Programs,     \* the instruction memories to run, each in [Word -> Instr]
    Images,       \* the initial data memories, each in [Word -> Word]
    Reset,        \* the reset vector
    AsyncInputs   \* what the interrupt lines may show: "none", and the causes
                  \* in AsyncCause that may be pending and enabled

ASSUME InputAssumption ==
    /\ Programs \subseteq [Word -> Instr]
    /\ Images \subseteq [Word -> Word]
    /\ Reset \in Word
    /\ "none" \in AsyncInputs
    /\ AsyncInputs \subseteq AsyncCause \cup {"none"}
=============================================================================
