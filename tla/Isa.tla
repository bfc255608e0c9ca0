-------------------------------- MODULE Isa --------------------------------
(***************************************************************************)
(* What the core promises its programmer: a machine that executes one      *)
(* instruction at a time, in program order, each from the state its        *)
(* predecessor left.  The pipeline of rtl/core is shown to implement it    *)
(* (module Pipeline).  Interrupts are as loose here as the core makes      *)
(* them: the word saved in mepc is unspecified, the instruction at pc may  *)
(* or may not have taken effect, and a load that was waiting for the bus   *)
(* leaves 0 in its destination.  Module Pipeline states separately what a  *)
(* precise interrupt would be.                                             *)
(***************************************************************************)
EXTENDS Riscv

VARIABLES
    imem,     \* the program
    pc,       \* the address of the next instruction to execute
    regs,     \* the general registers
    csr,      \* mtvec, mepc, mscratch
    mcause,   \* the cause of the last trap
    dmem      \* data memory

vars == <<imem, pc, regs, csr, mcause, dmem>>

Init ==
    /\ imem \in Programs
    /\ pc = Reset
    /\ regs = [r \in Reg |-> Zero]
    /\ csr = [c \in Csr |-> Zero]
    /\ mcause = "none"
    /\ dmem \in Images

-----------------------------------------------------------------------------
(***************************************************************************)
(* The instruction at pc, its operands and its effect on registers and     *)
(* data memory.                                                            *)
(***************************************************************************)
Current  == imem[pc]
A        == regs[Current.rs1]
B        == regs[Current.rs2]
Loaded   == dmem[MemAddr(Current, A)]
Value    == RdData(Current, pc, A, B, csr[Current.csr], Loaded)

RegsAfter == IF Current.op \in Produces /\ Current.rd # X0
             THEN [regs EXCEPT ![Current.rd] = Value]
             ELSE regs

DmemAfter == IF Current.op = "store"
             THEN [dmem EXCEPT ![MemAddr(Current, A)] = B]
             ELSE dmem

CsrAfter == IF Current.op \in CsrOps
            THEN [csr EXCEPT ![Current.csr] = CsrData(Current, A, csr[Current.csr])]
            ELSE csr

\* An encoding the architecture does not define must trap.
MustTrap == Current.op \in Traps \cup {"reserved"}

\* An instruction that runs to its end.
Execute ==
    /\ ~ MustTrap
    /\ Current.op # "mret"
    /\ pc' = Follow(Current, pc, A, B)
    /\ regs' = RegsAfter
    /\ dmem' = DmemAfter
    /\ csr' = CsrAfter
    /\ UNCHANGED <<imem, mcause>>

\* A synchronous trap: the address of the trapping instruction is saved.
Trap ==
    /\ MustTrap
    /\ pc' = csr["mtvec"]
    /\ csr' = [csr EXCEPT !["mepc"] = pc]
    /\ mcause' = TrapCause(Current)
    /\ UNCHANGED <<imem, regs, dmem>>

\* Return from a trap.
Return ==
    /\ Current.op = "mret"
    /\ pc' = csr["mepc"]
    /\ UNCHANGED <<imem, regs, csr, mcause, dmem>>

\* An interrupt, as loosely as the core delivers it.
Interrupt(cause) ==
    /\ pc' = csr["mtvec"]
    /\ \E w \in Word : csr' = [csr EXCEPT !["mepc"] = w]
    /\ mcause' \in {cause} \cup (IF MustTrap THEN {TrapCause(Current)} ELSE {})
    /\ \/ regs' \in {regs, RegsAfter} /\ dmem' \in {dmem, DmemAfter}
       \/ /\ \E r \in Reg \ {X0} : regs' = [regs EXCEPT ![r] = Zero]
          /\ dmem' = dmem
    /\ UNCHANGED imem

Step == Execute \/ Trap \/ Return

Next == Step \/ \E cause \in AsyncInputs \ {"none"} : Interrupt(cause)

Spec == Init /\ [][Next]_vars

\* A machine that is never starved keeps executing.
FairSpec == Spec /\ WF_vars(Step)
=============================================================================
