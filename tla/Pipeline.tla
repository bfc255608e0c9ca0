------------------------------ MODULE Pipeline ------------------------------
(***************************************************************************)
(* The three-stage pipeline of rtl/core at clock-cycle level: fetch (pc),  *)
(* decode (p1) and execute (p2), with static and return-stack prediction,  *)
(* operand forwarding, the stall and flush lines of core_top.v, traps,     *)
(* mret, and interrupt entry by clint.v.                                   *)
(*                                                                         *)
(* Each Cycle is one clock edge.  Its parameters are what the rest of the  *)
(* chip shows the pipeline during that cycle; any value may come in any    *)
(* cycle:                                                                  *)
(*   hit   the fetch at pc is served (ILM, or a hit in the icache);        *)
(*   ext   the external bus: "wait", "write" (the slave takes the data of  *)
(*         a store before it answers) or "ready";                          *)
(*   fin   the divider shows its result;                                   *)
(*   top   the word on top of the return-address stack, right or wrong;    *)
(*   irq   the enabled interrupt clint.v selects, or "none".               *)
(* Data accesses are in range, so data_err stays 0, and no store goes to   *)
(* instruction memory.                                                     *)
(***************************************************************************)
EXTENDS Riscv

CONSTANT
    ExtWord     \* the data addresses that live behind the external bus

VARIABLES
    imem,     \* instruction memory
    dmem,     \* data memory
    regs,     \* reg_f of reg_file.v
    csr,      \* mtvec, mepc, mscratch of csr_reg.v
    mcause,   \* the last cause
    mie,      \* mstatus.MIE
    mpie,     \* mstatus.MPIE
    pc,       \* cur_pc_pipe0
    stop,     \* pc_reg.v's stop, 1 until the first edge after reset
    p1,       \* if_to_decode_dff
    p2,       \* decode_to_alu_dff
    div,      \* the divider as the ALU sees it: "idle", "run" or "done"
    clint,    \* curr_state of clint.v: "END" or "START"
    dll,      \* instruction_addr_dll of clint.v
    held      \* history: p2 took effect in an earlier cycle and is stalled

machine == <<dmem, regs, csr, mcause, mie, mpie>>
stages  == <<pc, stop, p1, p2, div>>
vars    == <<imem, machine, stages, clint, dll, held>>

-----------------------------------------------------------------------------
(***************************************************************************)
(* Pipeline registers.                                                     *)
(***************************************************************************)
Stage1 == [valid : BOOLEAN, pc : Word, ins : Instr,
           predEn : BOOLEAN, predAddr : Word]
Stage2 == [valid : BOOLEAN, pc : Word, ins : Instr,
           predEn : BOOLEAN, predAddr : Word, a : Word, b : Word, c : Word]

Bubble1 == [valid |-> FALSE, pc |-> Zero, ins |-> Nop,
            predEn |-> FALSE, predAddr |-> Zero]
Bubble2 == [valid |-> FALSE, pc |-> Zero, ins |-> Nop,
            predEn |-> FALSE, predAddr |-> Zero,
            a |-> Zero, b |-> Zero, c |-> Zero]

Init ==
    /\ imem \in Programs
    /\ dmem \in Images
    /\ regs = [r \in Reg |-> Zero]
    /\ csr = [c \in Csr |-> Zero]
    /\ mcause = "none"
    /\ mie = FALSE
    /\ mpie = FALSE
    /\ pc = Reset
    /\ stop = TRUE
    /\ p1 = Bubble1
    /\ p2 = Bubble2
    /\ div = "idle"
    /\ clint = "END"
    /\ dll = Zero
    /\ held = FALSE

-----------------------------------------------------------------------------
(***************************************************************************)
(* Fetch: predict.v.  Backward branches and every jal are predicted taken; *)
(* a jalr is predicted when its registers say it is a return.              *)
(***************************************************************************)
Fetched == imem[pc]

IsReturn(i) == \/ i.rd \notin Link /\ i.rs1 \in Link
               \/ i.rd \in Link /\ i.rd # i.rs1 /\ i.rs1 \in Link

PredictEn(i) == \/ i.op = "br" /\ Neg(i.imm)
                \/ i.op = "jal"
                \/ i.op = "jalr" /\ IsReturn(i)

PredictAddr(i, at, top) == IF ~ PredictEn(i) THEN Zero
                           ELSE IF i.op = "jalr" THEN top
                           ELSE Add(at, i.imm)

NextFetch(top) == IF PredictEn(Fetched) THEN PredictAddr(Fetched, pc, top)
                                        ELSE Succ(pc)

FetchStage(top) == [valid |-> TRUE, pc |-> pc, ins |-> Fetched,
                    predEn |-> PredictEn(Fetched),
                    predAddr |-> PredictAddr(Fetched, pc, top)]

-----------------------------------------------------------------------------
(***************************************************************************)
(* Execute: alu.v on the instruction in p2.                                *)
(***************************************************************************)
I2       == p2.ins
Taking   == JumpEn(I2, p2.a, p2.b)
Target   == JumpAddr(I2, p2.pc, p2.a)
DataAddr == MemAddr(I2, p2.a)

\* The register decode_ctrl.v names as destination; the immediate CSR forms
\* are given none.
DecodeRd(i) == IF i.op \in Produces \cup {"reserved"} /\ i.op \notin CsrImm
               THEN i.rd ELSE X0

Dest == DecodeRd(I2)

\* Seeded fault: the stall is never released.
DivStallForever == I2.op = "div"

DivStall   == I2.op = "div" /\ div # "done"
BusStallEx(ext) ==
    I2.op \in {"load", "store"} /\ DataAddr \in ExtWord /\ ext # "ready"

\* What the instruction in p2 ends up producing, and what it drives on rd_data
\* in this cycle: a load without its answer and an unfinished division
\* drive 0.  An R instruction with undefined func7 drives 0 as well.
Outcome == RdData(I2, p2.pc, p2.a, p2.b, p2.c, dmem[DataAddr])
Driven(ext) == IF DivStall \/ (I2.op = "load" /\ BusStallEx(ext))
               THEN Zero ELSE Outcome

SyncExcept == I2.op \in Traps
Mret       == I2.op = "mret"

AluFlush == \/ I2.op \in {"ecall", "ebreak"}
            \/ Mret
            \/ Taking # p2.predEn
            \/ p2.predEn /\ Target # p2.predAddr

-----------------------------------------------------------------------------
(***************************************************************************)
(* core_top.v: the stall and flush lines; clint.v: interrupt entry.  mret  *)
(* restores MIE within its own cycle, so an interrupt can win that cycle.  *)
(***************************************************************************)
Stall(hit, ext) == DivStall \/ ~ hit \/ BusStallEx(ext)

GlobalIntEn == mie \/ (Mret /\ mpie)

IrqTaken(irq) == /\ clint = "END"
                 /\ GlobalIntEn
                 /\ irq # "none"
                 /\ ~ DivStall

Exception(irq) == SyncExcept \/ IrqTaken(irq)

\* Seeded fault: interrupt entry does not empty the pipeline.
FlushSync(irq) == AluFlush \/ SyncExcept

Flush(irq) == AluFlush \/ Exception(irq)

\* Seeded fault: a jalr that was predicted is taken to be predicted right.
RedirectUnpredicted == Taking /\ ~ p2.predEn

\* A taken jump that was not predicted, or not to the right place.
Redirect == Taking /\ (~ p2.predEn \/ (I2.op # "br" /\ p2.predAddr # Target))

\* pc_mux.v, in its order of priority.
NextPc(hit, ext, top, irq) ==
    IF Exception(irq) THEN csr["mtvec"]
    ELSE IF Flush(irq) /\ p2.predEn /\ ~ Taking THEN Succ(p2.pc)
    ELSE IF Redirect THEN Target
    ELSE IF Mret THEN csr["mepc"]
    ELSE IF Stall(hit, ext) \/ stop THEN pc
    ELSE NextFetch(top)

-----------------------------------------------------------------------------
(***************************************************************************)
(* Decode: register and CSR operands of the instruction in p1, forwarded   *)
(* from p2 (reg_file.v, csr_reg.v).                                        *)
(***************************************************************************)
\* Seeded fault: no forwarding.
OperandStale(r, ext) == IF r = X0 THEN Zero ELSE regs[r]

Operand(r, ext) == IF r = X0 THEN Zero
                   ELSE IF r = Dest THEN Driven(ext)
                   ELSE regs[r]

CsrOperand(i) == IF i.op \notin CsrOps THEN Zero
                 ELSE IF I2.op \in CsrOps /\ I2.csr = i.csr THEN CsrData(I2, p2.a, p2.c)
                 ELSE csr[i.csr]

DecodeStage(ext) ==
    [valid |-> p1.valid, pc |-> p1.pc, ins |-> p1.ins,
     predEn |-> p1.predEn, predAddr |-> p1.predAddr,
     a |-> Operand(p1.ins.rs1, ext), b |-> Operand(p1.ins.rs2, ext),
     c |-> CsrOperand(p1.ins)]

-----------------------------------------------------------------------------
(***************************************************************************)
(* What one clock edge does to each part.                                  *)
(***************************************************************************)
WriteRegs(ext) ==
    regs' = IF Dest # X0 THEN [regs EXCEPT ![Dest] = Driven(ext)] ELSE regs

\* A local store writes at the edge, an external one when the slave takes it.
StoreDone(ext) == DataAddr \notin ExtWord \/ ext # "wait"

WriteMem(ext) ==
    dmem' = IF I2.op = "store" /\ StoreDone(ext)
            THEN [dmem EXCEPT ![DataAddr] = p2.b] ELSE dmem

\* The clint's write port wins over the ALU's.
\* Seeded fault: a trap saves the address being fetched.
WriteCsrFetch(irq) ==
    csr' = IF IrqTaken(irq) THEN [csr EXCEPT !["mepc"] = dll]
           ELSE IF SyncExcept THEN [csr EXCEPT !["mepc"] = pc]
           ELSE IF I2.op \in CsrOps THEN [csr EXCEPT ![I2.csr] = CsrData(I2, p2.a, p2.c)]
           ELSE csr

WriteCsr(irq) ==
    csr' = IF IrqTaken(irq) THEN [csr EXCEPT !["mepc"] = dll]
           ELSE IF SyncExcept THEN [csr EXCEPT !["mepc"] = p2.pc]
           ELSE IF I2.op \in CsrOps THEN [csr EXCEPT ![I2.csr] = CsrData(I2, p2.a, p2.c)]
           ELSE csr

WriteCause(irq) ==
    mcause' = IF SyncExcept THEN TrapCause(I2)
              ELSE IF IrqTaken(irq) THEN irq
              ELSE mcause

(***************************************************************************)
(* mstatus is driven by level-sensitive blocks that read what they write.  *)
(* On a trap MIE is cleared and MPIE takes MIE's old or its new value,     *)
(* whichever evaluation comes last; when mret and an interrupt meet, the   *)
(* two blocks re-trigger each other and either may settle.                 *)
(***************************************************************************)
WriteStatus(irq) ==
    IF Mret /\ IrqTaken(irq) THEN mie' \in {FALSE, mpie} /\ mpie' \in {FALSE, mpie}
    ELSE IF Exception(irq)   THEN mie' = FALSE /\ mpie' \in {FALSE, mie}
    ELSE IF Mret             THEN mie' = mpie /\ mpie' = mpie
    ELSE IF I2.op = "mie"    THEN mie' = (I2.imm # Zero) /\ mpie' = mpie
    ELSE UNCHANGED <<mie, mpie>>

\* Seeded fault: a stall holds execute but not decode.
MoveStagesSkid(hit, ext, top, irq) ==
    /\ pc' = NextPc(hit, ext, top, irq)
    /\ stop' = FALSE
    /\ IF Flush(irq) THEN p1' = Bubble1 /\ p2' = Bubble2
       ELSE /\ p1' = FetchStage(top)
            /\ p2' = IF Stall(hit, ext) THEN p2 ELSE DecodeStage(ext)

MoveStages(hit, ext, top, irq) ==
    /\ pc' = NextPc(hit, ext, top, irq)
    /\ stop' = FALSE
    /\ IF Flush(irq) THEN p1' = Bubble1 /\ p2' = Bubble2
       ELSE IF Stall(hit, ext) THEN UNCHANGED <<p1, p2>>
       ELSE p1' = FetchStage(top) /\ p2' = DecodeStage(ext)

\* A result that is not collected at once may be held or be computed again.
MoveDiv(hit, ext, fin, irq) ==
    IF Flush(irq) \/ I2.op # "div" THEN div' = "idle"
    ELSE IF div = "idle" THEN div' = "run"
    ELSE IF div = "run" THEN div' = IF fin THEN "done" ELSE "run"
    ELSE IF Stall(hit, ext) THEN div' \in {"done", "run"}
    ELSE div' = "idle"

MoveClint(irq) ==
    /\ clint' = IF IrqTaken(irq) THEN "START"
                ELSE IF clint = "START" /\ Mret THEN "END"
                ELSE clint
    /\ dll' = IF p2.pc # Zero THEN p2.pc ELSE dll

MarkHeld(hit, ext, irq) ==
    held' = /\ p2.valid
            /\ ~ Flush(irq)
            /\ Stall(hit, ext)
            /\ held \/ I2.op # "store" \/ StoreDone(ext)

\* After reset the icache is empty, so the first fetch, from flash, misses.
Cycle(hit, ext, fin, top, irq) ==
    /\ stop => ~ hit
    /\ WriteRegs(ext)
    /\ WriteMem(ext)
    /\ WriteCsr(irq)
    /\ WriteCause(irq)
    /\ WriteStatus(irq)
    /\ MoveStages(hit, ext, top, irq)
    /\ MoveDiv(hit, ext, fin, irq)
    /\ MoveClint(irq)
    /\ MarkHeld(hit, ext, irq)
    /\ UNCHANGED imem

BusPhase == {"wait", "write", "ready"}

Next == \E hit, fin \in BOOLEAN, ext \in BusPhase, top \in Word, irq \in AsyncInputs :
            Cycle(hit, ext, fin, top, irq)

Spec == Init /\ [][Next]_vars

(***************************************************************************)
(* Every wait ends.  A cycle in which fetch, bus and divider all answer    *)
(* keeps coming; and since a fetch once served stays served while pc is    *)
(* held, one also comes while a division result is showing.                *)
(***************************************************************************)
Served == \E top \in Word, irq \in AsyncInputs :
              Cycle(~ stop, "ready", TRUE, top, irq)

Fairness == WF_vars(Served) /\ SF_vars(div = "done" /\ Served)

FairSpec == Spec /\ Fairness

-----------------------------------------------------------------------------
\* The values of the registers of every stage.
TypeOK ==
    /\ imem \in [Word -> Instr]
    /\ dmem \in [Word -> Word]
    /\ regs \in [Reg -> Word]
    /\ csr \in [Csr -> Word]
    /\ mcause \in Causes
    /\ mie \in BOOLEAN /\ mpie \in BOOLEAN
    /\ pc \in Word /\ dll \in Word
    /\ stop \in BOOLEAN /\ held \in BOOLEAN
    /\ p1 \in Stage1
    /\ p2 \in Stage2
    /\ div \in {"idle", "run", "done"}
    /\ clint \in {"END", "START"}

(***************************************************************************)
(* What is in flight.  The stages hold consecutive instructions of the     *)
(* predicted path, each as memory has it and as predict.v judged it; there *)
(* is never a bubble behind a live instruction.                            *)
(***************************************************************************)
Guess(s) == IF s.predEn THEN s.predAddr ELSE Succ(s.pc)

AsFetched(s) ==
    /\ s.ins = imem[s.pc]
    /\ s.predEn = PredictEn(s.ins)
    /\ s.predEn /\ s.ins.op # "jalr" => s.predAddr = Add(s.pc, s.ins.imm)

PathOK ==
    /\ p1.valid => AsFetched(p1) /\ pc = Guess(p1)
    /\ p2.valid => AsFetched(p2) /\ p1.valid /\ p1.pc = Guess(p2)
    /\ ~ p1.valid => p1 = Bubble1
    /\ ~ p2.valid => p2 = Bubble2

(***************************************************************************)
(* Forwarding delivers: an instruction that has not yet taken effect holds *)
(* the operands the register file and the CSRs have now, although they     *)
(* were read a stage earlier.                                              *)
(***************************************************************************)
OperandsOK ==
    /\ regs[X0] = Zero
    /\ p2.valid /\ ~ held => /\ p2.a = regs[I2.rs1]
                             /\ p2.b = regs[I2.rs2]
                             /\ I2.op \in CsrOps => p2.c = csr[I2.csr]

(***************************************************************************)
(* Acting again is harmless: an instruction that waits after it took       *)
(* effect neither redirects the fetch nor changes memory or CSRs when the  *)
(* ALU drives it once more.                                                *)
(***************************************************************************)
HeldOK ==
    held => /\ p2.valid
            /\ ~ AluFlush
            /\ ~ SyncExcept
            /\ I2.op = "store" => dmem[DataAddr] = p2.b
            /\ I2.op \in CsrOps => csr[I2.csr] = CsrData(I2, p2.a, p2.c)

InFlight == PathOK /\ OperandsOK /\ HeldOK

-----------------------------------------------------------------------------
(***************************************************************************)
(* The machine the programmer sees.  Once an instruction has taken effect  *)
(* while stalled in p2 (held), it counts as executed: its successor is     *)
(* next, and what it will leave in its destination or in memory is there.  *)
(***************************************************************************)
ArchPc == IF p2.valid
          THEN IF held THEN Follow(I2, p2.pc, p2.a, p2.b) ELSE p2.pc
          ELSE IF p1.valid THEN p1.pc ELSE pc

ArchRegs == IF held /\ Dest # X0 THEN [regs EXCEPT ![Dest] = Outcome] ELSE regs

ISA == INSTANCE Isa WITH pc <- ArchPc, regs <- ArchRegs

(***************************************************************************)
(* The core executes programs as the instruction set says, whatever the    *)
(* stalls, the predictions and the contents of the return stack: a stalled *)
(* instruction may act once or in every cycle it waits, a wrongly fetched  *)
(* one never acts.  (rtl/core/core_top.v and everything it connects.)      *)
(***************************************************************************)
ImplementsIsa == ISA!Spec

(***************************************************************************)
(* The core never stops executing: in programs without a jump to itself    *)
(* the address of the next instruction keeps changing, wherever interrupts *)
(* come, or the program keeps coming to an mret, which may return to       *)
(* itself.  (alu.v, div.v, addr_mux.v, clint.v.)                           *)
(***************************************************************************)
KeepsExecuting ==
    []<>(imem[ArchPc].op = "mret") \/ []<><<ArchPc' # ArchPc>>_vars

(***************************************************************************)
(* An interrupt saves the address of the first instruction that has not    *)
(* yet executed, so that the handler's mret resumes the program as if      *)
(* nothing had happened.                                                   *)
(***************************************************************************)
IrqEntry == clint = "END" /\ clint' = "START"
PreciseInterrupt ==
    [][IrqEntry => \/ csr'["mepc"] = ArchPc
                   \/ I2.op \notin Traps \cup {"mret"} /\ p2.valid
                        /\ csr'["mepc"] = Follow(I2, p2.pc, p2.a, p2.b)]_vars
=============================================================================
