-------------------------- MODULE Pipeline_proofs --------------------------
(***************************************************************************)
(* Proofs about Pipeline, for every word size, register set, program and   *)
(* data path: its state keeps its type, what is in flight is always the    *)
(* predicted path with current operands, and the pipeline implements the   *)
(* instruction set.                                                        *)
(***************************************************************************)
EXTENDS Pipeline, TLAPS

-----------------------------------------------------------------------------
(***************************************************************************)
(* What the instruction semantics of Riscv.tla and the predictor return.   *)
(***************************************************************************)
LEMMA SemanticsTypes ==
    ASSUME NEW i \in Instr, NEW at \in Word, NEW a \in Word, NEW b \in Word,
           NEW c \in Word, NEW m \in Word, NEW top \in Word
    PROVE  /\ Succ(at) \in Word
           /\ JumpEn(i, a, b) \in BOOLEAN
           /\ JumpAddr(i, at, a) \in Word
           /\ Follow(i, at, a, b) \in Word
           /\ MemAddr(i, a) \in Word
           /\ RdData(i, at, a, b, c, m) \in Word
           /\ CsrData(i, a, c) \in Word
           /\ TrapCause(i) \in Causes
           /\ PredictEn(i) \in BOOLEAN
           /\ PredictAddr(i, at, top) \in Word
<1>1. i.imm \in Word /\ i.op \in ClassOp /\ i.rd \in Reg
  BY DEF Instr
<1>2. Succ(at) \in Word
  BY WordAssumption DEF Succ
<1>3. JumpEn(i, a, b) \in BOOLEAN
  BY DEF JumpEn
<1>4. JumpAddr(i, at, a) \in Word
  BY <1>1, WordAssumption DEF JumpAddr
<1>5. Follow(i, at, a, b) \in Word
  BY <1>2, <1>4 DEF Follow
<1>6. MemAddr(i, a) \in Word
  BY <1>1, WordAssumption DEF MemAddr
<1>7. RdData(i, at, a, b, c, m) \in Word
  BY <1>1, <1>2, WordAssumption DEF RdData, CsrOps, CsrImm
<1>8. CsrData(i, a, c) \in Word
  BY <1>1, WordAssumption DEF CsrData, CsrImm
<1>9. TrapCause(i) \in Causes
  BY DEF TrapCause, Causes
<1>10. PredictEn(i) \in BOOLEAN
  BY <1>1, WordAssumption DEF PredictEn, IsReturn
<1>11. PredictAddr(i, at, top) \in Word
  BY <1>1, WordAssumption DEF PredictAddr
<1>. QED
  BY <1>2, <1>3, <1>4, <1>5, <1>6, <1>7, <1>8, <1>9, <1>10, <1>11

LEMMA NopType == Nop \in Instr
  BY WordAssumption, RegAssumption DEF Nop, Instr, ClassOp, Csr

LEMMA BubbleTypes == Bubble1 \in Stage1 /\ Bubble2 \in Stage2
  BY NopType, WordAssumption DEF Bubble1, Bubble2, Stage1, Stage2

-----------------------------------------------------------------------------
(***************************************************************************)
(* What the parts of a cycle drive, in a well-typed state.                 *)
(***************************************************************************)
LEMMA DrivenTypes ==
    ASSUME TypeOK, NEW ext, NEW top \in Word
    PROVE  /\ I2 \in Instr
           /\ Taking \in BOOLEAN
           /\ Target \in Word
           /\ DataAddr \in Word
           /\ Dest \in Reg
           /\ Outcome \in Word
           /\ Driven(ext) \in Word
           /\ NextFetch(top) \in Word
           /\ FetchStage(top) \in Stage1
           /\ DecodeStage(ext) \in Stage2
<1>1. /\ p2 \in Stage2 /\ p1 \in Stage1 /\ pc \in Word
      /\ imem \in [Word -> Instr] /\ dmem \in [Word -> Word]
      /\ regs \in [Reg -> Word] /\ csr \in [Csr -> Word]
  BY DEF TypeOK
<1>2. I2 \in Instr /\ p2.pc \in Word /\ p2.a \in Word /\ p2.b \in Word /\ p2.c \in Word
  BY <1>1 DEF I2, Stage2
<1>3. Taking \in BOOLEAN /\ Target \in Word /\ DataAddr \in Word
  BY <1>2, SemanticsTypes, WordAssumption DEF Taking, Target, DataAddr
<1>4. Dest \in Reg
  BY <1>2, RegAssumption DEF Dest, DecodeRd, Instr, CsrImm
<1>5. Outcome \in Word
  <2>1. dmem[DataAddr] \in Word
    BY <1>1, <1>3
  <2>. QED BY <2>1, <1>2, SemanticsTypes DEF Outcome
<1>6. Driven(ext) \in Word
  BY <1>5, WordAssumption DEF Driven
<1>7. Fetched \in Instr
  BY <1>1 DEF Fetched
<1>8. PredictEn(Fetched) \in BOOLEAN /\ PredictAddr(Fetched, pc, top) \in Word
      /\ Succ(pc) \in Word
  BY <1>1, <1>7, SemanticsTypes
<1>9. NextFetch(top) \in Word
  BY <1>8 DEF NextFetch
<1>10. FetchStage(top) \in Stage1
  BY <1>1, <1>7, <1>8 DEF FetchStage, Stage1
<1>11. DecodeStage(ext) \in Stage2
  <2>1. /\ p1.ins \in Instr /\ p1.valid \in BOOLEAN /\ p1.pc \in Word
        /\ p1.predEn \in BOOLEAN /\ p1.predAddr \in Word
    BY <1>1 DEF Stage1
  <2>2. p1.ins.rs1 \in Reg /\ p1.ins.rs2 \in Reg /\ p1.ins.csr \in Csr
    BY <2>1 DEF Instr
  <2>3. Operand(p1.ins.rs1, ext) \in Word /\ Operand(p1.ins.rs2, ext) \in Word
    BY <2>2, <1>1, <1>6, WordAssumption DEF Operand
  <2>4. CsrData(I2, p2.a, p2.c) \in Word
    BY <1>2, SemanticsTypes
  <2>5. CsrOperand(p1.ins) \in Word
    BY <2>2, <2>4, <1>1, WordAssumption DEF CsrOperand
  <2>. QED BY <2>1, <2>3, <2>5 DEF DecodeStage, Stage2
<1>. QED
  BY <1>2, <1>3, <1>4, <1>5, <1>6, <1>9, <1>10, <1>11

-----------------------------------------------------------------------------
(***************************************************************************)
(* Type correctness.                                                       *)
(***************************************************************************)
LEMMA TypeInit == Init => TypeOK
<1>. SUFFICES ASSUME Init PROVE TypeOK
  OBVIOUS
<1>1. imem \in [Word -> Instr] /\ dmem \in [Word -> Word]
  BY InputAssumption DEF Init
<1>2. regs \in [Reg -> Word] /\ csr \in [Csr -> Word] /\ pc \in Word /\ dll \in Word
  BY WordAssumption, InputAssumption DEF Init
<1>3. p1 \in Stage1 /\ p2 \in Stage2
  BY BubbleTypes DEF Init
<1>. QED
  BY <1>1, <1>2, <1>3 DEF Init, TypeOK, Causes

LEMMA TypeStep == TypeOK /\ [Next]_vars => TypeOK'
<1>. SUFFICES ASSUME TypeOK, [Next]_vars PROVE TypeOK'
  OBVIOUS
<1>1. CASE UNCHANGED vars
  BY <1>1 DEF vars, machine, stages, TypeOK
<1>2. ASSUME NEW hit \in BOOLEAN, NEW fin \in BOOLEAN, NEW ext \in BusPhase,
             NEW top \in Word, NEW irq \in AsyncInputs,
             Cycle(hit, ext, fin, top, irq)
      PROVE  TypeOK'
  <2>1. /\ I2 \in Instr /\ Taking \in BOOLEAN /\ Target \in Word
        /\ DataAddr \in Word /\ Dest \in Reg /\ Driven(ext) \in Word
        /\ NextFetch(top) \in Word /\ FetchStage(top) \in Stage1
        /\ DecodeStage(ext) \in Stage2
    BY DrivenTypes
  <2>2. p2.pc \in Word /\ p2.a \in Word /\ p2.b \in Word /\ p2.predEn \in BOOLEAN
        /\ p2.predAddr \in Word /\ p2.valid \in BOOLEAN
    BY DEF TypeOK, Stage2
  <2>3. I2.csr \in Csr /\ I2.op \in ClassOp /\ "mtvec" \in Csr /\ "mepc" \in Csr
    BY <2>1 DEF Instr, Csr
  <2>4. imem' \in [Word -> Instr]
    BY <1>2 DEF Cycle, TypeOK
  <2>5. dmem' \in [Word -> Word]
    BY <1>2, <2>1, <2>2 DEF Cycle, WriteMem, TypeOK
  <2>6. regs' \in [Reg -> Word]
    BY <1>2, <2>1 DEF Cycle, WriteRegs, TypeOK
  <2>7. csr' \in [Csr -> Word]
    <3>1. p2.c \in Word
      BY <1>2 DEF TypeOK, Stage2
    <3>2. CsrData(I2, p2.a, p2.c) \in Word
      <4>1. \A i \in Instr : \A a, c \in Word : CsrData(i, a, c) \in Word
        BY WordAssumption, SemanticsTypes
      <4>. QED BY <2>1, <2>2, <3>1, <4>1
    <3>. QED BY <1>2, <2>2, <2>3, <3>2 DEF Cycle, WriteCsr, TypeOK
  <2>8. mcause' \in Causes
    <3>1. TrapCause(I2) \in Causes
      BY DEF TrapCause, Causes
    <3>2. irq # "none" => irq \in Causes
      BY InputAssumption DEF Causes
    <3>. QED BY <1>2, <3>1, <3>2 DEF Cycle, WriteCause, IrqTaken, TypeOK
  <2>9. mie' \in BOOLEAN /\ mpie' \in BOOLEAN
    BY <1>2 DEF Cycle, WriteStatus, TypeOK
  <2>10. pc' \in Word
    <3>1. Succ(p2.pc) \in Word
      BY <2>2, WordAssumption DEF Succ
    <3>. QED BY <1>2, <2>1, <2>3, <3>1 DEF Cycle, MoveStages, NextPc, TypeOK
  <2>11. stop' \in BOOLEAN /\ p1' \in Stage1 /\ p2' \in Stage2
    BY <1>2, <2>1, BubbleTypes DEF Cycle, MoveStages, TypeOK
  <2>12. div' \in {"idle", "run", "done"}
    BY <1>2 DEF Cycle, MoveDiv
  <2>13. clint' \in {"END", "START"} /\ dll' \in Word
    BY <1>2, <2>2 DEF Cycle, MoveClint, TypeOK
  <2>14. held' \in BOOLEAN
    BY <1>2 DEF Cycle, MarkHeld
  <2>. QED
    BY <2>4, <2>5, <2>6, <2>7, <2>8, <2>9, <2>10, <2>11, <2>12, <2>13, <2>14
    DEF TypeOK
<1>. QED
  BY <1>1, <1>2 DEF Next

(***************************************************************************)
(* Every register of the core keeps the kind of value its RTL declaration  *)
(* gives it, and every stage holds a whole instruction or a bubble.        *)
(***************************************************************************)
THEOREM TypeCorrect == Spec => []TypeOK
<1>1. Init => TypeOK
  BY TypeInit
<1>2. TypeOK /\ [Next]_vars => TypeOK'
  BY TypeStep
<1>. QED
  BY <1>1, <1>2, PTL DEF Spec

-----------------------------------------------------------------------------
(***************************************************************************)
(* The three things a clock edge can do to the stages: flush, stall or     *)
(* advance; and where the fetch goes when nothing is flushed.              *)
(***************************************************************************)
LEMMA StageMoves ==
    ASSUME TypeOK, NEW hit \in BOOLEAN, NEW fin \in BOOLEAN, NEW ext \in BusPhase,
           NEW top \in Word, NEW irq \in AsyncInputs,
           Cycle(hit, ext, fin, top, irq)
    PROVE  /\ Flush(irq) => p1' = Bubble1 /\ p2' = Bubble2 /\ held' = FALSE
           /\ ~ Flush(irq) /\ Stall(hit, ext) =>
                p1' = p1 /\ p2' = p2 /\ pc' = pc
           /\ ~ Flush(irq) /\ ~ Stall(hit, ext) =>
                /\ p1' = FetchStage(top) /\ p2' = DecodeStage(ext)
                /\ pc' = NextFetch(top) /\ held' = FALSE
<1>1. /\ Flush(irq) => p1' = Bubble1 /\ p2' = Bubble2 /\ held' = FALSE
      /\ ~ Flush(irq) /\ Stall(hit, ext) => p1' = p1 /\ p2' = p2
      /\ ~ Flush(irq) /\ ~ Stall(hit, ext) =>
            p1' = FetchStage(top) /\ p2' = DecodeStage(ext) /\ held' = FALSE
  BY DEF Cycle, MoveStages, MarkHeld
<1>2. Taking \in BOOLEAN /\ p2.predEn \in BOOLEAN
  BY DrivenTypes DEF TypeOK, Stage2
<1>3. ~ Flush(irq) => pc' = IF Stall(hit, ext) \/ stop THEN pc ELSE NextFetch(top)
  BY <1>2 DEF Cycle, MoveStages, NextPc, Redirect, Flush, AluFlush
<1>4. stop => Stall(hit, ext)
  BY DEF Cycle, Stall
<1>. QED
  BY <1>1, <1>3, <1>4

(***************************************************************************)
(* The parts of InFlight are preserved.                                    *)
(***************************************************************************)
LEMMA PathStep ==
    ASSUME TypeOK, PathOK,
           NEW hit \in BOOLEAN, NEW fin \in BOOLEAN, NEW ext \in BusPhase,
           NEW top \in Word, NEW irq \in AsyncInputs,
           Cycle(hit, ext, fin, top, irq)
    PROVE  PathOK'
<1>1. imem' = imem
  BY DEF Cycle
<1>2. CASE Flush(irq)
  <2>1. p1' = Bubble1 /\ p2' = Bubble2
    BY <1>2, StageMoves
  <2>2. p1'.valid = FALSE /\ p2'.valid = FALSE
    BY <2>1 DEF Bubble1, Bubble2
  <2>. QED BY <2>1, <2>2 DEF PathOK
<1>3. CASE ~ Flush(irq) /\ Stall(hit, ext)
  BY <1>1, <1>3, StageMoves DEF PathOK, AsFetched, Guess
<1>4. CASE ~ Flush(irq) /\ ~ Stall(hit, ext)
  <2>1. p1' = FetchStage(top) /\ p2' = DecodeStage(ext) /\ pc' = NextFetch(top)
    BY <1>4, StageMoves
  <2>2. Fetched \in Instr /\ Fetched = imem[pc] /\ PredictEn(Fetched) \in BOOLEAN
    <3>1. Fetched \in Instr
      BY DEF Fetched, TypeOK
    <3>. QED BY <3>1, SemanticsTypes DEF Fetched
  <2>3. p1'.valid /\ p1'.pc = pc
    BY <2>1 DEF FetchStage
  <2>4. AsFetched(p1)'
    <3>1. PredictEn(Fetched) /\ Fetched.op # "jalr" =>
            PredictAddr(Fetched, pc, top) = Add(pc, Fetched.imm)
      BY DEF PredictAddr, PredictEn
    <3>. QED BY <1>1, <2>1, <2>2, <3>1 DEF AsFetched, FetchStage
  <2>5. pc' = Guess(p1)'
    BY <2>1 DEF Guess, FetchStage, NextFetch
  <2>6. /\ p2'.valid = p1.valid /\ p2'.pc = p1.pc /\ p2'.ins = p1.ins
        /\ p2'.predEn = p1.predEn /\ p2'.predAddr = p1.predAddr
    BY <2>1 DEF DecodeStage
  <2>7. p2'.valid => AsFetched(p2)' /\ p1'.pc = Guess(p2)'
    BY <1>1, <2>3, <2>6 DEF PathOK, AsFetched, Guess
  <2>8. ~ p2'.valid => p2' = Bubble2
    <3>. SUFFICES ASSUME ~ p1.valid PROVE DecodeStage(ext) = Bubble2
      BY <2>1, <2>6
    <3>1. p1 = Bubble1
      BY DEF PathOK
    <3>2. Operand(X0, ext) = Zero /\ CsrOperand(Nop) = Zero
      BY DEF Operand, CsrOperand, Nop, CsrOps, CsrImm
    <3>. QED BY <3>1, <3>2 DEF DecodeStage, Bubble1, Bubble2, Nop
  <2>. QED
    BY <2>3, <2>4, <2>5, <2>7, <2>8 DEF PathOK
<1>. QED
  BY <1>2, <1>3, <1>4

LEMMA OperandsStep ==
    ASSUME TypeOK, PathOK, OperandsOK, HeldOK,
           NEW hit \in BOOLEAN, NEW fin \in BOOLEAN, NEW ext \in BusPhase,
           NEW top \in Word, NEW irq \in AsyncInputs,
           Cycle(hit, ext, fin, top, irq)
    PROVE  OperandsOK'
<1>1. /\ Dest \in Reg /\ Driven(ext) \in Word /\ I2 \in Instr
      /\ regs \in [Reg -> Word] /\ csr \in [Csr -> Word] /\ p1 \in Stage1
  BY DrivenTypes DEF TypeOK
<1>2. regs' = IF Dest # X0 THEN [regs EXCEPT ![Dest] = Driven(ext)] ELSE regs
  BY DEF Cycle, WriteRegs
<1>3. regs'[X0] = Zero
  BY <1>1, <1>2, RegAssumption DEF OperandsOK
<1>4. CASE Flush(irq)
  <2>1. p2' = Bubble2
    BY <1>4, StageMoves
  <2>2. p2'.valid = FALSE
    BY <2>1 DEF Bubble2
  <2>. QED BY <1>3, <2>2 DEF OperandsOK
<1>5. CASE ~ Flush(irq) /\ Stall(hit, ext)
  <2>1. p2' = p2
    BY <1>5, StageMoves
  <2>2. CASE held' \/ ~ p2.valid
    BY <1>3, <2>1, <2>2 DEF OperandsOK
  <2>3. CASE ~ held' /\ p2.valid
    <3>1. I2.op = "store" /\ ~ held
      BY <1>5, <2>3 DEF Cycle, MarkHeld
    <3>2. Dest = X0 /\ I2.op \notin CsrOps
      BY <3>1 DEF Dest, DecodeRd, Produces, CsrOps, CsrImm
    <3>3. regs' = regs
      BY <1>2, <3>2
    <3>. QED BY <1>3, <2>1, <3>1, <3>2, <3>3 DEF OperandsOK, I2
  <2>. QED BY <2>2, <2>3
<1>6. CASE ~ Flush(irq) /\ ~ Stall(hit, ext)
  <2>1. p2' = DecodeStage(ext)
    BY <1>6, StageMoves
  <2>2. /\ p2'.ins = p1.ins
        /\ p2'.a = Operand(p1.ins.rs1, ext) /\ p2'.b = Operand(p1.ins.rs2, ext)
        /\ p2'.c = CsrOperand(p1.ins)
    BY <2>1 DEF DecodeStage
  <2>3. p1.ins \in Instr /\ p1.ins.rs1 \in Reg /\ p1.ins.rs2 \in Reg /\ p1.ins.csr \in Csr
    BY <1>1 DEF Stage1, Instr
  <2>4. ASSUME NEW r \in Reg PROVE Operand(r, ext) = regs'[r]
    BY <1>1, <1>2, <1>3, RegAssumption DEF Operand
  <2>5. p1.ins.op \in CsrOps => CsrOperand(p1.ins) = csr'[p1.ins.csr]
    <3>1. ~ IrqTaken(irq) /\ ~ SyncExcept
      BY <1>6 DEF Flush, Exception
    <3>2. csr' = IF I2.op \in CsrOps THEN [csr EXCEPT ![I2.csr] = CsrData(I2, p2.a, p2.c)]
                 ELSE csr
      BY <3>1 DEF Cycle, WriteCsr
    <3>3. I2.csr \in Csr
      BY <1>1 DEF Instr
    <3>. QED BY <1>1, <2>3, <3>2, <3>3 DEF CsrOperand
  <2>. QED BY <1>3, <2>2, <2>3, <2>4, <2>5 DEF OperandsOK, I2
<1>. QED
  BY <1>4, <1>5, <1>6

LEMMA HeldStep ==
    ASSUME TypeOK, PathOK, HeldOK,
           NEW hit \in BOOLEAN, NEW fin \in BOOLEAN, NEW ext \in BusPhase,
           NEW top \in Word, NEW irq \in AsyncInputs,
           Cycle(hit, ext, fin, top, irq)
    PROVE  HeldOK'
<1>. SUFFICES ASSUME held' PROVE HeldOK'
  BY DEF HeldOK
<1>1. p2.valid /\ ~ Flush(irq) /\ Stall(hit, ext)
      /\ (held \/ I2.op # "store" \/ StoreDone(ext))
  BY DEF Cycle, MarkHeld
<1>2. p2' = p2
  BY <1>1, StageMoves
<1>3. ~ AluFlush /\ ~ SyncExcept /\ ~ IrqTaken(irq)
  BY <1>1 DEF Flush, Exception
<1>4. p2'.valid /\ ~ AluFlush' /\ ~ SyncExcept'
  BY <1>1, <1>2, <1>3
  DEF AluFlush, SyncExcept, Mret, Taking, Target, I2
<1>5. I2 \in Instr /\ DataAddr \in Word
  BY DrivenTypes
<1>6. I2' = I2 /\ DataAddr' = DataAddr
  BY <1>2 DEF I2, DataAddr
<1>7. I2.op = "store" => dmem'[DataAddr] = p2.b
  BY <1>1, <1>5 DEF Cycle, WriteMem, HeldOK, TypeOK
<1>8. I2.op \in CsrOps => csr'[I2.csr] = CsrData(I2, p2.a, p2.c)
  <2>1. I2.csr \in Csr
    BY <1>5 DEF Instr
  <2>. QED BY <1>3, <2>1 DEF Cycle, WriteCsr, TypeOK
<1>9. I2'.op = "store" => dmem'[DataAddr'] = p2'.b
  BY <1>2, <1>6, <1>7
<1>10. I2'.op \in CsrOps => csr'[I2'.csr] = CsrData(I2, p2.a, p2.c)'
  BY <1>2, <1>6, <1>8 DEF CsrData, CsrImm
<1>. QED
  BY <1>4, <1>9, <1>10 DEF HeldOK

LEMMA InFlightInit == Init => InFlight
<1>. SUFFICES ASSUME Init PROVE InFlight
  OBVIOUS
<1>1. p1 = Bubble1 /\ p2 = Bubble2 /\ held = FALSE /\ regs = [r \in Reg |-> Zero]
  BY DEF Init
<1>2. p1.valid = FALSE /\ p2.valid = FALSE
  BY <1>1 DEF Bubble1, Bubble2
<1>. QED
  BY <1>1, <1>2, RegAssumption DEF InFlight, PathOK, OperandsOK, HeldOK

LEMMA InFlightStep == TypeOK /\ InFlight /\ [Next]_vars => InFlight'
<1>. SUFFICES ASSUME TypeOK, InFlight, [Next]_vars PROVE InFlight'
  OBVIOUS
<1>1. CASE UNCHANGED vars
  BY <1>1 DEF vars, machine, stages, InFlight, PathOK, OperandsOK, HeldOK,
     AsFetched, Guess, AluFlush, SyncExcept, Mret, Taking, Target, DataAddr, I2,
     CsrData, CsrImm
<1>2. ASSUME NEW hit \in BOOLEAN, NEW fin \in BOOLEAN, NEW ext \in BusPhase,
             NEW top \in Word, NEW irq \in AsyncInputs,
             Cycle(hit, ext, fin, top, irq)
      PROVE  InFlight'
  BY <1>2, PathStep, OperandsStep, HeldStep DEF InFlight
<1>. QED
  BY <1>1, <1>2 DEF Next

(***************************************************************************)
(* At every clock edge the stages hold consecutive instructions of the     *)
(* predicted path with the operands the architecture gives them now, and   *)
(* an instruction that waits can act again without effect.  This holds     *)
(* with interrupts as well as without.                                     *)
(***************************************************************************)
THEOREM InFlightCorrect == Spec => []InFlight
<1>1. Init => TypeOK /\ InFlight
  BY TypeInit, InFlightInit
<1>2. TypeOK /\ InFlight /\ [Next]_vars => (TypeOK /\ InFlight)'
  BY TypeStep, InFlightStep
<1>. QED
  BY <1>1, <1>2, PTL DEF Spec

-----------------------------------------------------------------------------
(***************************************************************************)
(* Refinement.  Programs use defined encodings only, and the immediate CSR *)
(* forms without a destination: decode_ctrl.v gives them none.             *)
(***************************************************************************)
Legal == \A prog \in Programs : \A w \in Word :
            /\ prog[w].op # "reserved"
            /\ prog[w].op \in CsrImm => prog[w].rd = X0

\* The instruction in p2 has not taken effect yet: it is the one the
\* instruction set executes next, with the same operands and outcome.
LEMMA FreshIsCurrent ==
    ASSUME Legal, imem \in Programs, TypeOK, InFlight, p2.valid, ~ held
    PROVE  /\ ArchPc = p2.pc /\ ArchRegs = regs
           /\ ISA!Current = I2 /\ ISA!A = p2.a /\ ISA!B = p2.b
           /\ ISA!RegsAfter =
                IF Dest # X0 THEN [regs EXCEPT ![Dest] = Outcome] ELSE regs
           /\ ISA!DmemAfter =
                IF I2.op = "store" THEN [dmem EXCEPT ![DataAddr] = p2.b] ELSE dmem
           /\ ISA!CsrAfter =
                IF I2.op \in CsrOps THEN [csr EXCEPT ![I2.csr] = CsrData(I2, p2.a, p2.c)]
                ELSE csr
<1>1. ArchPc = p2.pc /\ ArchRegs = regs
  BY DEF ArchPc, ArchRegs
<1>2. ISA!Current = I2
  BY <1>1 DEF ISA!Current, InFlight, PathOK, AsFetched, I2
<1>3. ISA!A = p2.a /\ ISA!B = p2.b
  BY <1>1, <1>2 DEF ISA!A, ISA!B, InFlight, OperandsOK
<1>4. ISA!Loaded = dmem[DataAddr]
  BY <1>2, <1>3 DEF ISA!Loaded, ISA!MemAddr, MemAddr, DataAddr
<1>5. I2.op \in Produces => ISA!Value = Outcome
  <2>1. I2.op \in CsrOps => p2.c = csr[I2.csr]
    BY DEF InFlight, OperandsOK
  <2>. QED
    BY <1>1, <1>2, <1>3, <1>4, <2>1
    DEF ISA!Value, ISA!RdData, RdData, Outcome, Produces, CsrOps, ISA!Succ, Succ,
        ISA!CsrOps, ISA!CsrImm, CsrImm
<1>6. /\ I2.op # "reserved"
      /\ I2.op \in CsrImm => I2.rd = X0
  <2>1. p2.pc \in Word
    BY DEF TypeOK, Stage2
  <2>2. I2 = imem[p2.pc]
    BY DEF InFlight, PathOK, AsFetched, I2
  <2>. QED BY <2>1, <2>2 DEF Legal
<1>7. Dest = IF I2.op \in Produces THEN I2.rd ELSE X0
  BY <1>6 DEF Dest, DecodeRd, Produces, CsrOps, CsrImm
<1>8. ISA!RegsAfter =
        IF Dest # X0 THEN [regs EXCEPT ![Dest] = Outcome] ELSE regs
  BY <1>1, <1>2, <1>5, <1>7
  DEF ISA!RegsAfter, ISA!Produces, Produces, ISA!CsrOps, CsrOps, ISA!CsrImm, CsrImm
<1>9. ISA!DmemAfter =
        IF I2.op = "store" THEN [dmem EXCEPT ![DataAddr] = p2.b] ELSE dmem
  BY <1>2, <1>3 DEF ISA!DmemAfter, ISA!MemAddr, MemAddr, DataAddr
<1>10. ISA!CsrAfter =
        IF I2.op \in CsrOps THEN [csr EXCEPT ![I2.csr] = CsrData(I2, p2.a, p2.c)] ELSE csr
  <2>1. ISA!CsrData(I2, p2.a, p2.c) = CsrData(I2, p2.a, p2.c)
    BY DEF ISA!CsrData, CsrData, ISA!CsrImm, CsrImm
  <2>2. ISA!CsrOps = CsrOps
    BY DEF ISA!CsrOps, CsrOps, ISA!CsrImm, CsrImm
  <2>3. I2.op \in CsrOps => p2.c = csr[I2.csr]
    BY DEF InFlight, OperandsOK
  <2>. QED BY <1>2, <1>3, <2>1, <2>2, <2>3 DEF ISA!CsrAfter
<1>. QED
  BY <1>1, <1>2, <1>3, <1>8, <1>9, <1>10

LEMMA RefinementInit == Init => ISA!Init
<1>. SUFFICES ASSUME Init PROVE ISA!Init
  OBVIOUS
<1>1. p1.valid = FALSE /\ p2.valid = FALSE /\ held = FALSE
  BY DEF Init, Bubble1, Bubble2
<1>. QED
  BY <1>1 DEF Init, ISA!Init, ArchPc, ArchRegs, ISA!Csr, Csr

\* What one cycle writes when no interrupt is taken.
LEMMA QuietWrites ==
    ASSUME NEW hit \in BOOLEAN, NEW fin \in BOOLEAN, NEW ext \in BusPhase,
           NEW top \in Word, NEW irq \in AsyncInputs,
           Cycle(hit, ext, fin, top, irq), ~ IrqTaken(irq), ~ SyncExcept
    PROVE  /\ csr' = IF I2.op \in CsrOps
                     THEN [csr EXCEPT ![I2.csr] = CsrData(I2, p2.a, p2.c)] ELSE csr
           /\ mcause' = mcause
  BY DEF Cycle, WriteCsr, WriteCause

\* A predicted path that needs no flush is the path the program takes.
LEMMA GoodGuess ==
    ASSUME TypeOK, ~ AluFlush
    PROVE  Follow(I2, p2.pc, p2.a, p2.b) = Guess(p2)
<1>1. Taking \in BOOLEAN /\ p2.predEn \in BOOLEAN
  BY DrivenTypes DEF TypeOK, Stage2
<1>2. Taking = p2.predEn /\ (p2.predEn => Target = p2.predAddr)
  BY <1>1 DEF AluFlush
<1>. QED
  BY <1>1, <1>2 DEF Follow, Guess, Taking, Target

\* An instruction that takes effect and does not trap is one ISA step.
LEMMA ExecuteStep ==
    ASSUME Legal, imem \in Programs, TypeOK, InFlight, p2.valid, ~ held,
           NEW hit \in BOOLEAN, NEW fin \in BOOLEAN, NEW ext \in BusPhase,
           NEW top \in Word, NEW irq \in AsyncInputs,
           Cycle(hit, ext, fin, top, irq), ~ IrqTaken(irq), ~ SyncExcept, ~ Mret,
           ArchPc' = Follow(I2, p2.pc, p2.a, p2.b),
           ArchRegs' = IF Dest # X0 THEN [regs EXCEPT ![Dest] = Outcome] ELSE regs,
           I2.op = "store" => StoreDone(ext)
    PROVE  ISA!Execute
<1>1. /\ ArchPc = p2.pc /\ ISA!Current = I2 /\ ISA!A = p2.a /\ ISA!B = p2.b
      /\ ISA!RegsAfter =
            IF Dest # X0 THEN [regs EXCEPT ![Dest] = Outcome] ELSE regs
      /\ ISA!DmemAfter =
            IF I2.op = "store" THEN [dmem EXCEPT ![DataAddr] = p2.b] ELSE dmem
      /\ ISA!CsrAfter =
            IF I2.op \in CsrOps THEN [csr EXCEPT ![I2.csr] = CsrData(I2, p2.a, p2.c)]
            ELSE csr
  BY FreshIsCurrent
<1>2. ~ ISA!MustTrap /\ I2.op # "mret"
  <2>1. I2.op # "reserved"
    <3>1. p2.pc \in Word /\ I2 = imem[p2.pc]
      BY DEF TypeOK, Stage2, InFlight, PathOK, AsFetched, I2
    <3>. QED BY <3>1 DEF Legal
  <2>. QED BY <1>1, <2>1 DEF ISA!MustTrap, ISA!Traps, SyncExcept, Traps, Mret
<1>3. ArchPc' = ISA!Follow(ISA!Current, ArchPc, ISA!A, ISA!B)
  BY <1>1 DEF ISA!Follow, Follow, ISA!JumpEn, JumpEn, ISA!JumpAddr, JumpAddr,
     ISA!Succ, Succ
<1>4. dmem' = ISA!DmemAfter
  BY <1>1 DEF Cycle, WriteMem
<1>5. csr' = ISA!CsrAfter /\ mcause' = mcause
  BY <1>1, QuietWrites
<1>6. imem' = imem
  BY DEF Cycle
<1>. QED
  BY <1>1, <1>2, <1>3, <1>4, <1>5, <1>6 DEF ISA!Execute

\* A bubble in p2 changes nothing but the position of the fetch.
LEMMA BubbleStep ==
    ASSUME TypeOK, InFlight, ~ p2.valid,
           NEW hit \in BOOLEAN, NEW fin \in BOOLEAN, NEW ext \in BusPhase,
           NEW top \in Word, NEW irq \in AsyncInputs,
           Cycle(hit, ext, fin, top, irq), ~ IrqTaken(irq)
    PROVE  UNCHANGED ISA!vars
<1>1. p2 = Bubble2 /\ I2 = Nop /\ held \in BOOLEAN /\ ~ held
  BY DEF InFlight, PathOK, HeldOK, I2, Bubble2, TypeOK
<1>2. /\ Dest = X0 /\ ~ SyncExcept /\ ~ Mret /\ ~ Taking /\ ~ p2.predEn
      /\ I2.op \notin CsrOps /\ I2.op # "store"
  BY <1>1 DEF Nop, Dest, DecodeRd, Produces, SyncExcept, Traps, Mret, Taking,
     JumpEn, Bubble2, CsrOps, CsrImm
<1>3. ~ Flush(irq)
  <2>1. Taking \in BOOLEAN /\ p2.predEn \in BOOLEAN
    BY DrivenTypes DEF TypeOK, Stage2
  <2>2. I2.op = "nop"
    BY <1>1 DEF Nop
  <2>. QED BY <1>2, <2>1, <2>2 DEF Flush, AluFlush, Exception
<1>4. regs' = regs /\ dmem' = dmem /\ imem' = imem
  BY <1>2 DEF Cycle, WriteRegs, WriteMem
<1>5. csr' = csr /\ mcause' = mcause
  BY <1>2, QuietWrites
<1>6. held' = FALSE
  BY <1>1 DEF Cycle, MarkHeld
<1>7. ArchRegs' = ArchRegs
  BY <1>1, <1>4, <1>6 DEF ArchRegs
<1>8. ArchPc' = ArchPc
  <2>1. CASE Stall(hit, ext)
    <3>1. p1' = p1 /\ p2' = p2 /\ pc' = pc
      BY <1>3, <2>1, StageMoves
    <3>. QED BY <1>1, <1>6, <3>1 DEF ArchPc
  <2>2. CASE ~ Stall(hit, ext)
    <3>1. p1' = FetchStage(top) /\ p2' = DecodeStage(ext)
      BY <1>3, <2>2, StageMoves
    <3>2. p1'.valid = TRUE /\ p1'.pc = pc /\ p2'.valid = p1.valid /\ p2'.pc = p1.pc
      BY <3>1 DEF FetchStage, DecodeStage
    <3>. QED BY <1>6, <3>2 DEF ArchPc
  <2>. QED BY <2>1, <2>2
<1>. QED
  BY <1>4, <1>5, <1>7, <1>8 DEF ISA!vars

\* An instruction that takes effect in this cycle without being flushed.
LEMMA FreshStep ==
    ASSUME Legal, imem \in Programs, TypeOK, InFlight, p2.valid, ~ held,
           NEW hit \in BOOLEAN, NEW fin \in BOOLEAN, NEW ext \in BusPhase,
           NEW top \in Word, NEW irq \in AsyncInputs,
           Cycle(hit, ext, fin, top, irq), ~ Flush(irq)
    PROVE  ISA!Execute \/ UNCHANGED ISA!vars
<1>1. ~ IrqTaken(irq) /\ ~ SyncExcept /\ ~ Mret /\ ~ AluFlush
  BY DEF Flush, Exception, AluFlush
<1>2. regs' = IF Dest # X0 THEN [regs EXCEPT ![Dest] = Driven(ext)] ELSE regs
  BY DEF Cycle, WriteRegs
<1>3. /\ Dest \in Reg /\ Outcome \in Word /\ Driven(ext) \in Word /\ DataAddr \in Word
      /\ regs \in [Reg -> Word] /\ dmem \in [Word -> Word]
  BY DrivenTypes DEF TypeOK
<1>4. CASE Stall(hit, ext)
  <2>1. p1' = p1 /\ p2' = p2 /\ pc' = pc
    BY <1>4, StageMoves
  <2>2. I2' = I2 /\ Dest' = Dest
    BY <2>1 DEF I2, Dest
  <2>3. CASE held'
    <3>1. I2.op = "store" => StoreDone(ext)
      BY <2>3 DEF Cycle, MarkHeld
    <3>2. ArchPc' = Follow(I2, p2.pc, p2.a, p2.b)
      BY <2>1, <2>2, <2>3 DEF ArchPc, Follow, JumpEn, JumpAddr, Succ
    <3>3. Dest # X0 => Outcome' = Outcome
      <4>1. Dest # X0 => I2.op # "store"
        BY DEF Dest, DecodeRd, Produces, CsrOps, CsrImm
      <4>2. Dest # X0 => dmem' = dmem
        BY <4>1 DEF Cycle, WriteMem
      <4>3. DataAddr' = DataAddr
        BY <2>1, <2>2 DEF DataAddr, MemAddr
      <4>. QED BY <2>1, <2>2, <4>2, <4>3 DEF Outcome, RdData, Succ
    <3>4. ArchRegs' = IF Dest # X0 THEN [regs EXCEPT ![Dest] = Outcome] ELSE regs
      BY <1>2, <1>3, <2>2, <2>3, <3>3 DEF ArchRegs
    <3>. QED BY <1>1, <3>1, <3>2, <3>4, ExecuteStep
  <2>4. CASE ~ held'
    <3>1. I2.op = "store" /\ ~ StoreDone(ext)
      BY <1>4, <2>4 DEF Cycle, MarkHeld
    <3>2. Dest = X0 /\ I2.op \notin CsrOps
      BY <3>1 DEF Dest, DecodeRd, Produces, CsrOps, CsrImm
    <3>3. regs' = regs /\ dmem' = dmem /\ imem' = imem
      BY <1>2, <3>1, <3>2 DEF Cycle, WriteMem
    <3>4. csr' = csr /\ mcause' = mcause
      BY <1>1, <3>2, QuietWrites
    <3>5. ArchPc' = ArchPc /\ ArchRegs' = ArchRegs
      BY <2>1, <2>4, <3>3 DEF ArchPc, ArchRegs
    <3>. QED BY <3>3, <3>4, <3>5 DEF ISA!vars
  <2>. QED BY <2>3, <2>4
<1>5. CASE ~ Stall(hit, ext)
  <2>1. p2' = DecodeStage(ext) /\ held' = FALSE
    BY <1>5, StageMoves
  <2>2. p1.valid /\ p1.pc = Guess(p2)
    BY DEF InFlight, PathOK
  <2>3. p2'.valid = p1.valid /\ p2'.pc = p1.pc
    BY <2>1 DEF DecodeStage
  <2>4. ArchPc' = Follow(I2, p2.pc, p2.a, p2.b)
    BY <1>1, <2>1, <2>2, <2>3, GoodGuess DEF ArchPc
  <2>5. Driven(ext) = Outcome
    BY <1>5 DEF Driven, Stall
  <2>6. ArchRegs' = IF Dest # X0 THEN [regs EXCEPT ![Dest] = Outcome] ELSE regs
    BY <1>2, <2>1, <2>5 DEF ArchRegs
  <2>7. I2.op = "store" => StoreDone(ext)
    BY <1>5 DEF Stall, BusStallEx, StoreDone
  <2>. QED BY <1>1, <2>4, <2>6, <2>7, ExecuteStep
<1>. QED
  BY <1>4, <1>5

\* An instruction that already took effect changes nothing any more.
LEMMA HeldStutters ==
    ASSUME TypeOK, InFlight, held,
           NEW hit \in BOOLEAN, NEW fin \in BOOLEAN, NEW ext \in BusPhase,
           NEW top \in Word, NEW irq \in AsyncInputs,
           Cycle(hit, ext, fin, top, irq), ~ IrqTaken(irq)
    PROVE  UNCHANGED ISA!vars
<1>1. p2.valid /\ ~ AluFlush /\ ~ SyncExcept
      /\ (I2.op = "store" => dmem[DataAddr] = p2.b)
      /\ (I2.op \in CsrOps => csr[I2.csr] = CsrData(I2, p2.a, p2.c))
  BY DEF InFlight, HeldOK
<1>2. ~ Flush(irq)
  BY <1>1 DEF Flush, Exception
<1>3. /\ Dest \in Reg /\ Outcome \in Word /\ Driven(ext) \in Word /\ DataAddr \in Word
      /\ regs \in [Reg -> Word] /\ dmem \in [Word -> Word] /\ csr \in [Csr -> Word]
      /\ I2 \in Instr
  BY DrivenTypes DEF TypeOK
<1>4. dmem' = dmem /\ imem' = imem
  BY <1>1, <1>3 DEF Cycle, WriteMem
<1>5. csr' = csr /\ mcause' = mcause
  <2>1. I2.csr \in Csr
    BY <1>3 DEF Instr
  <2>. QED BY <1>1, <1>3, <2>1, QuietWrites
<1>6. regs' = IF Dest # X0 THEN [regs EXCEPT ![Dest] = Driven(ext)] ELSE regs
  BY DEF Cycle, WriteRegs
<1>7. CASE Stall(hit, ext)
  <2>1. p1' = p1 /\ p2' = p2 /\ pc' = pc
    BY <1>2, <1>7, StageMoves
  <2>2. held'
    BY <1>1, <1>2, <1>7 DEF Cycle, MarkHeld
  <2>3. I2' = I2 /\ Dest' = Dest /\ DataAddr' = DataAddr
    BY <2>1 DEF I2, Dest, DataAddr, MemAddr
  <2>4. Outcome' = Outcome
    BY <1>4, <2>1, <2>3 DEF Outcome, RdData, Succ
  <2>5. ArchPc' = ArchPc
    BY <1>1, <2>1, <2>2, <2>3 DEF ArchPc, Follow, JumpEn, JumpAddr, Succ
  <2>6. ArchRegs' = ArchRegs
    BY <1>3, <1>6, <2>2, <2>3, <2>4 DEF ArchRegs
  <2>. QED BY <1>4, <1>5, <2>5, <2>6 DEF ISA!vars
<1>8. CASE ~ Stall(hit, ext)
  <2>1. p2' = DecodeStage(ext) /\ held' = FALSE
    BY <1>2, <1>8, StageMoves
  <2>2. p1.valid /\ p1.pc = Guess(p2)
    BY <1>1 DEF InFlight, PathOK
  <2>3. p2'.valid = p1.valid /\ p2'.pc = p1.pc
    BY <2>1 DEF DecodeStage
  <2>4. ArchPc' = ArchPc
    BY <1>1, <2>1, <2>2, <2>3, GoodGuess DEF ArchPc
  <2>5. Driven(ext) = Outcome
    BY <1>8 DEF Driven, Stall
  <2>6. ArchRegs' = ArchRegs
    BY <1>6, <2>1, <2>5 DEF ArchRegs
  <2>. QED BY <1>4, <1>5, <2>4, <2>6 DEF ISA!vars
<1>. QED
  BY <1>7, <1>8

\* A flush without an interrupt: a trap, a return from one, or a jump that
\* was predicted wrongly; each is one ISA step.
LEMMA FlushStep ==
    ASSUME Legal, imem \in Programs, TypeOK, InFlight, p2.valid, ~ held,
           NEW hit \in BOOLEAN, NEW fin \in BOOLEAN, NEW ext \in BusPhase,
           NEW top \in Word, NEW irq \in AsyncInputs,
           Cycle(hit, ext, fin, top, irq), Flush(irq), ~ IrqTaken(irq)
    PROVE  ISA!Step
<1>1. p1' = Bubble1 /\ p2' = Bubble2 /\ held' = FALSE
  BY StageMoves
<1>2. p1'.valid = FALSE /\ p2'.valid = FALSE
  BY <1>1 DEF Bubble1, Bubble2
<1>3. ArchPc' = pc' /\ ArchRegs' = regs'
  BY <1>1, <1>2 DEF ArchPc, ArchRegs
<1>4. ArchPc = p2.pc /\ ArchRegs = regs /\ ISA!Current = I2
  BY FreshIsCurrent
<1>5. pc' = NextPc(hit, ext, top, irq) /\ imem' = imem
  BY DEF Cycle, MoveStages
<1>6. regs' = IF Dest # X0 THEN [regs EXCEPT ![Dest] = Driven(ext)] ELSE regs
  BY DEF Cycle, WriteRegs
<1>7. CASE SyncExcept
  <2>1. pc' = csr["mtvec"]
    BY <1>5, <1>7 DEF NextPc, Exception
  <2>2. csr' = [csr EXCEPT !["mepc"] = p2.pc] /\ mcause' = TrapCause(I2)
    BY <1>7 DEF Cycle, WriteCsr, WriteCause
  <2>3. Dest = X0 /\ I2.op # "store"
    BY <1>7 DEF SyncExcept, Traps, Dest, DecodeRd, Produces, CsrOps, CsrImm
  <2>4. regs' = regs /\ dmem' = dmem
    BY <1>6, <2>3 DEF Cycle, WriteMem
  <2>5. ISA!MustTrap /\ ISA!TrapCause(ISA!Current) = TrapCause(I2)
    BY <1>4, <1>7 DEF ISA!MustTrap, ISA!Traps, Traps, SyncExcept, ISA!TrapCause, TrapCause
  <2>6. ISA!Trap
    BY <1>3, <1>4, <1>5, <2>1, <2>2, <2>4, <2>5 DEF ISA!Trap
  <2>. QED BY <2>6 DEF ISA!Step
<1>8. CASE ~ SyncExcept /\ Mret
  <2>1. /\ I2.op = "mret" /\ Dest = X0 /\ I2.op \notin CsrOps
        /\ ~ Taking
    BY <1>8 DEF Mret, Dest, DecodeRd, Produces, CsrOps, Taking, JumpEn, CsrImm
  <2>2. ~ p2.predEn
    BY <2>1 DEF InFlight, PathOK, AsFetched, PredictEn, I2
  <2>3. pc' = csr["mepc"]
    BY <1>5, <1>8, <2>1, <2>2 DEF NextPc, Exception, Redirect
  <2>4. regs' = regs /\ dmem' = dmem
    BY <1>6, <2>1 DEF Cycle, WriteMem
  <2>5. csr' = csr /\ mcause' = mcause
    BY <1>8, <2>1, QuietWrites
  <2>6. ISA!Return
    BY <1>3, <1>4, <1>5, <2>1, <2>3, <2>4, <2>5 DEF ISA!Return
  <2>. QED BY <2>6 DEF ISA!Step
<1>9. CASE ~ SyncExcept /\ ~ Mret
  <2>1. Taking \in BOOLEAN /\ p2.predEn \in BOOLEAN
    BY DrivenTypes DEF TypeOK, Stage2
  <2>2. ~ Exception(irq) /\ I2.op \notin {"ecall", "ebreak"}
    BY <1>9 DEF Exception, SyncExcept, Traps
  <2>3. Taking # p2.predEn \/ (p2.predEn /\ Target # p2.predAddr)
    BY <1>9, <2>2 DEF Flush, AluFlush
  <2>4. /\ p2.predEn => I2.op \in Jumps
        /\ I2.op = "br" /\ p2.predEn => p2.predAddr = Target
    BY DEF InFlight, PathOK, AsFetched, PredictEn, I2, Jumps, Target, JumpAddr
  <2>5. Taking => I2.op \in Jumps
    BY DEF Taking, JumpEn, Jumps
  <2>6. I2.op \in Jumps
    BY <2>1, <2>3, <2>4, <2>5
  <2>7. pc' = IF Taking THEN Target ELSE Succ(p2.pc)
    BY <1>5, <1>9, <2>1, <2>2, <2>3, <2>4 DEF NextPc, Redirect
  <2>8. ArchPc' = Follow(I2, p2.pc, p2.a, p2.b)
    BY <1>3, <2>7 DEF Follow, Taking, Target
  <2>9. Driven(ext) = Outcome
    BY <2>6 DEF Driven, DivStall, Jumps
  <2>10. ArchRegs' = IF Dest # X0 THEN [regs EXCEPT ![Dest] = Outcome] ELSE regs
    BY <1>3, <1>6, <2>9
  <2>11. I2.op # "store"
    BY <2>6 DEF Jumps
  <2>12. ISA!Execute
    BY <1>9, <2>8, <2>10, <2>11, ExecuteStep
  <2>. QED BY <2>12 DEF ISA!Step
<1>. QED
  BY <1>7, <1>8, <1>9

\* Interrupt entry.
LEMMA InterruptStep ==
    ASSUME Legal, imem \in Programs, TypeOK, InFlight,
           NEW hit \in BOOLEAN, NEW fin \in BOOLEAN, NEW ext \in BusPhase,
           NEW top \in Word, NEW irq \in AsyncInputs,
           Cycle(hit, ext, fin, top, irq), IrqTaken(irq)
    PROVE  irq # "none" /\ ISA!Interrupt(irq)
<1>1. irq # "none" /\ Exception(irq) /\ Flush(irq) /\ ~ DivStall
  BY DEF IrqTaken, Exception, Flush
<1>2. p1' = Bubble1 /\ p2' = Bubble2 /\ held' = FALSE
  BY <1>1, StageMoves
<1>3. p1'.valid = FALSE /\ p2'.valid = FALSE
  BY <1>2 DEF Bubble1, Bubble2
<1>4. ArchPc' = pc' /\ ArchRegs' = regs'
  BY <1>2, <1>3 DEF ArchPc, ArchRegs
<1>5. pc' = csr["mtvec"] /\ imem' = imem
  BY <1>1 DEF Cycle, MoveStages, NextPc
<1>6. \E w \in Word : csr' = [csr EXCEPT !["mepc"] = w]
  <2>1. dll \in Word /\ csr' = [csr EXCEPT !["mepc"] = dll]
    BY DEF Cycle, WriteCsr, TypeOK
  <2>. QED BY <2>1
<1>7. /\ Dest \in Reg /\ Outcome \in Word /\ Driven(ext) \in Word /\ DataAddr \in Word
      /\ regs \in [Reg -> Word] /\ dmem \in [Word -> Word] /\ held \in BOOLEAN
  BY DrivenTypes DEF TypeOK
<1>8. /\ regs' = IF Dest # X0 THEN [regs EXCEPT ![Dest] = Driven(ext)] ELSE regs
      /\ dmem' = IF I2.op = "store" /\ StoreDone(ext)
                 THEN [dmem EXCEPT ![DataAddr] = p2.b] ELSE dmem
  BY DEF Cycle, WriteRegs, WriteMem
<1>9. /\ Driven(ext) # Outcome => I2.op = "load" /\ Driven(ext) = Zero
  BY <1>1 DEF Driven
<1>10. ~ p2.valid => p2 = Bubble2 /\ ~ held /\ Dest = X0 /\ I2.op = "nop" /\ ~ SyncExcept
  <2>. SUFFICES ASSUME ~ p2.valid
                PROVE  p2 = Bubble2 /\ ~ held /\ Dest = X0 /\ I2.op = "nop" /\ ~ SyncExcept
    OBVIOUS
  <2>1. p2 = Bubble2 /\ ~ held
    BY DEF InFlight, PathOK, HeldOK
  <2>2. I2.op = "nop" /\ Dest = X0
    BY <2>1 DEF I2, Bubble2, Nop, Dest, DecodeRd, Produces, CsrOps, CsrImm
  <2>. QED BY <2>1, <2>2 DEF SyncExcept, Traps
<1>11. mcause' \in {irq} \cup (IF ISA!MustTrap THEN {ISA!TrapCause(ISA!Current)} ELSE {})
  <2>1. mcause' = IF SyncExcept THEN TrapCause(I2) ELSE irq
    BY DEF Cycle, WriteCause
  <2>2. CASE SyncExcept
    <3>1. p2.valid /\ ~ held
      BY <1>10, <2>2 DEF InFlight, HeldOK
    <3>2. ISA!Current = I2
      BY <3>1, FreshIsCurrent
    <3>3. ISA!MustTrap /\ ISA!TrapCause(ISA!Current) = TrapCause(I2)
      BY <3>2, <2>2 DEF ISA!MustTrap, ISA!Traps, Traps, SyncExcept, ISA!TrapCause, TrapCause
    <3>. QED BY <2>1, <2>2, <3>3
  <2>. QED BY <2>1, <2>2
<1>12. \/ ArchRegs' \in {ArchRegs, ISA!RegsAfter} /\ dmem' \in {dmem, ISA!DmemAfter}
       \/ /\ \E r \in Reg \ {X0} : ArchRegs' = [ArchRegs EXCEPT ![r] = Zero]
          /\ dmem' = dmem
  <2>1. CASE ~ p2.valid
    <3>1. ArchRegs = regs /\ regs' = regs /\ dmem' = dmem
      BY <1>8, <1>10, <2>1 DEF ArchRegs
    <3>. QED BY <1>4, <3>1
  <2>2. CASE p2.valid /\ ~ held
    <3>1. /\ ArchRegs = regs
          /\ ISA!RegsAfter =
                IF Dest # X0 THEN [regs EXCEPT ![Dest] = Outcome] ELSE regs
          /\ ISA!DmemAfter =
                IF I2.op = "store" THEN [dmem EXCEPT ![DataAddr] = p2.b] ELSE dmem
      BY <2>2, FreshIsCurrent
    <3>2. dmem' \in {dmem, ISA!DmemAfter}
      BY <1>8, <3>1
    <3>3. CASE Driven(ext) = Outcome \/ Dest = X0
      BY <1>4, <1>8, <3>1, <3>2, <3>3
    <3>4. CASE Driven(ext) # Outcome /\ Dest # X0
      <4>1. ArchRegs' = [ArchRegs EXCEPT ![Dest] = Zero] /\ dmem' = dmem
        BY <1>4, <1>8, <1>9, <3>1, <3>4
      <4>. QED BY <1>7, <3>4, <4>1
    <3>. QED BY <3>3, <3>4
  <2>3. CASE held
    <3>1. dmem' = dmem
      <4>1. I2.op = "store" => dmem[DataAddr] = p2.b
        BY <2>3 DEF InFlight, HeldOK
      <4>. QED BY <1>7, <1>8, <4>1
    <3>2. ArchRegs = IF Dest # X0 THEN [regs EXCEPT ![Dest] = Outcome] ELSE regs
      BY <2>3 DEF ArchRegs
    <3>3. CASE Driven(ext) = Outcome \/ Dest = X0
      <4>1. ArchRegs' = ArchRegs
        BY <1>4, <1>8, <3>2, <3>3
      <4>. QED BY <3>1, <4>1
    <3>4. CASE Driven(ext) # Outcome /\ Dest # X0
      <4>1. ArchRegs' = [ArchRegs EXCEPT ![Dest] = Zero]
        BY <1>4, <1>7, <1>8, <1>9, <3>2, <3>4
      <4>. QED BY <1>7, <3>1, <3>4, <4>1
    <3>. QED BY <3>3, <3>4
  <2>. QED BY <1>7, <2>1, <2>2, <2>3
<1>. QED
  BY <1>1, <1>4, <1>5, <1>6, <1>11, <1>12 DEF ISA!Interrupt

LEMMA RefinementStep ==
    ASSUME Legal, imem \in Programs, TypeOK, InFlight, [Next]_vars
    PROVE  [ISA!Next]_(ISA!vars)
<1>1. CASE UNCHANGED vars
  BY <1>1 DEF vars, machine, stages, ISA!vars, ArchPc, ArchRegs, Outcome, Dest,
     DataAddr, I2
<1>2. ASSUME NEW hit \in BOOLEAN, NEW fin \in BOOLEAN, NEW ext \in BusPhase,
             NEW top \in Word, NEW irq \in AsyncInputs,
             Cycle(hit, ext, fin, top, irq)
      PROVE  [ISA!Next]_(ISA!vars)
  <2>1. CASE IrqTaken(irq)
    BY <1>2, <2>1, InterruptStep DEF ISA!Next
  <2>2. CASE ~ IrqTaken(irq) /\ ~ p2.valid
    BY <1>2, <2>2, BubbleStep
  <2>3. CASE ~ IrqTaken(irq) /\ p2.valid /\ held
    BY <1>2, <2>3, HeldStutters
  <2>4. CASE ~ IrqTaken(irq) /\ p2.valid /\ ~ held
    <3>1. CASE Flush(irq)
      BY <1>2, <2>4, <3>1, FlushStep DEF ISA!Next
    <3>2. CASE ~ Flush(irq)
      BY <1>2, <2>4, <3>2, FreshStep DEF ISA!Next, ISA!Step
    <3>. QED BY <3>1, <3>2
  <2>. QED BY <2>1, <2>2, <2>3, <2>4
<1>. QED
  BY <1>1, <1>2 DEF Next

(***************************************************************************)
(* The three-stage pipeline implements the instruction set: whatever the   *)
(* stalls, the predictions and the return stack, it executes the program   *)
(* one instruction after the other, and an interrupt does no more than     *)
(* ISA!Interrupt admits.  (core_top.v with the modules it connects, for    *)
(* programs of defined encodings.)                                         *)
(***************************************************************************)
THEOREM Refinement == ASSUME Legal PROVE Spec => ImplementsIsa
<1>1. Init => ISA!Init
  BY RefinementInit
<1>2. Init => TypeOK /\ InFlight /\ imem \in Programs
  BY TypeInit, InFlightInit DEF Init
<1>3. TypeOK /\ InFlight /\ imem \in Programs /\ [Next]_vars
        => (TypeOK /\ InFlight /\ imem \in Programs)'
  <2>1. imem \in Programs /\ [Next]_vars => imem' \in Programs
    BY DEF Next, Cycle, vars
  <2>. QED BY <2>1, TypeStep, InFlightStep
<1>4. Legal /\ TypeOK /\ InFlight /\ imem \in Programs /\ [Next]_vars
        => [ISA!Next]_(ISA!vars)
  BY RefinementStep
<1>. QED
  BY <1>1, <1>2, <1>3, <1>4, PTL DEF Spec, ISA!Spec, ImplementsIsa
=============================================================================
