------------------------------ MODULE LoadStore ------------------------------
(***************************************************************************)
(* Loads and stores to the two local memories: the size and extension      *)
(* logic of alu.v, the byte lanes of data_lm.v (DLM) and the word port of  *)
(* instruction_lm.v (ILM).  Every step is the cycle of the instruction in  *)
(* execute; the region decoding of addr_mux.v is its `region`.             *)
(***************************************************************************)
EXTENDS Naturals

CONSTANTS Byte, Depth, Accesses,
    Words,  \* words the memory address wires tell apart: 2^DATA_MEM_WIDTH
    Image   \* initial words

\* The bytes an extension writes are among those told apart.
Parameters == {0, 255} \subseteq Byte /\ Byte \subseteq 0 .. 255

VARIABLES
    dlm, ilm,      \* local_mem of d_lm and of i_lm: words of four byte lanes
    data_err,      \* d_lm: the address of the cycle before was out of range
    mem_rd_data,   \* the read lanes of d_lm, which keep their value when undriven
    rd_data,       \* what the last load wrote to its register
    access         \* history: the last access

memoryVars == <<dlm, ilm, data_err, mem_rd_data, rd_data, access>>

Bytes == INSTANCE ByteMemory WITH
    bytes   <- [r \in {"ilm", "dlm"} |-> [n \in 0 .. 4 * Depth - 1 |->
                  IF r = "ilm" THEN ilm[n \div 4][n % 4] ELSE dlm[n \div 4][n % 4]]],
    trapped <- data_err

\* The accesses the hardware handles; others it leaves to the program to avoid.
Handles(a) ==
    /\ a.op \in Bytes!Loads \cup Bytes!Stores
    /\ a.addr \in Nat /\ a.data \in Bytes!Word
    /\ Bytes!Legal(a)
    /\ a.region = "ilm" => Bytes!Size(a.op) = 4

Index(addr)  == (addr \div 4) % Words
Offset(addr) == addr % 4

\* mem_strb: the low Size lanes are enabled.
Strobed(a, lane) == lane < Bytes!Size(a.op)

-----------------------------------------------------------------------------
\* Seeded fault: byte 0 takes every byte store.
DlmStoredUnshifted(a) ==
    [b \in Bytes!Lanes |-> IF Strobed(a, b) THEN a.data[b] ELSE dlm[Index(a.addr)][b]]

\* A store moves the low lanes of rs2 up by the offset; what moves past the
\* word is dropped.
DlmStored(a) ==
    [b \in Bytes!Lanes |->
        IF b >= Offset(a.addr) /\ Strobed(a, b - Offset(a.addr))
        THEN a.data[b - Offset(a.addr)]
        ELSE dlm[Index(a.addr)][b]]

\* A load moves the lanes down again.  No lane is driven past the end of the
\* word: the latch keeps the value it had.
DlmRead(a) ==
    [b \in Bytes!Lanes |->
        IF data_err THEN 0
        ELSE IF b + Offset(a.addr) > 3 THEN mem_rd_data[b]
        ELSE IF Strobed(a, b) THEN dlm[Index(a.addr)][b + Offset(a.addr)] ELSE 0]

\* An access that is not the DLM's leaves it reading word 0 with all its lanes.
DlmAtRest == IF data_err THEN [b \in Bytes!Lanes |-> 0] ELSE dlm[0]

\* Past the last word stores are lost and the lanes carry X.  A store drives the
\* read lanes as a load does; only a load takes them.
Dlm(a) ==
    /\ a.region = "dlm"
    /\ data_err' = (Index(a.addr) > Depth - 1)
    /\ \E w \in IF Index(a.addr) > Depth - 1
                   THEN {mem_rd_data, [b \in Bytes!Lanes |-> 0]} ELSE {DlmRead(a)} :
          /\ mem_rd_data' = w
          /\ rd_data' = IF a.op \in Bytes!Loads THEN Bytes!Extended(a.op, w) ELSE rd_data
    /\ dlm' = IF a.op \in Bytes!Stores /\ Index(a.addr) <= Depth - 1 /\ ~data_err
                THEN [dlm EXCEPT ![Index(a.addr)] = DlmStored(a)]
                ELSE dlm
    /\ access' = a
    /\ UNCHANGED ilm

\* The ILM has neither strobes nor an offset nor a range check.  While it is not
\* addressed, the DLM sees address 0.
Ilm(a) ==
    /\ a.region = "ilm" /\ Index(a.addr) < Depth
    /\ IF a.op \in Bytes!Stores
         THEN /\ ilm' = [ilm EXCEPT ![Index(a.addr)] = a.data]
              /\ UNCHANGED rd_data
         ELSE /\ rd_data' = Bytes!Extended(a.op, ilm[Index(a.addr)])
              /\ UNCHANGED ilm
    /\ data_err' = FALSE
    /\ mem_rd_data' = DlmAtRest
    /\ access' = a
    /\ UNCHANGED dlm

\* No access: address 0 of the DLM.
Idle ==
    /\ data_err' = FALSE
    /\ mem_rd_data' = DlmAtRest
    /\ UNCHANGED <<dlm, ilm, rd_data, access>>

\* The contents after power-up are whatever the loader left: the words of Image.
LoadStoreInit ==
    /\ dlm \in [0 .. Depth - 1 -> Image]
    /\ ilm \in [0 .. Depth - 1 -> Image]
    /\ data_err = FALSE
    /\ mem_rd_data \in Image
    /\ rd_data \in Image
    /\ access \in Accesses

LoadStoreNext == (\E a \in Accesses : Dlm(a) \/ Ilm(a)) \/ Idle

LoadStoreSpec == LoadStoreInit /\ [][LoadStoreNext]_memoryVars

-----------------------------------------------------------------------------
\* The values the memories, the latches and the flag can hold.
LoadStoreTypeOK ==
    /\ dlm \in [0 .. Depth - 1 -> Bytes!Word]
    /\ ilm \in [0 .. Depth - 1 -> Bytes!Word]
    /\ data_err \in BOOLEAN
    /\ mem_rd_data \in Bytes!Word
    /\ rd_data \in Bytes!Word
    /\ access \in Accesses

\* Sub-word stores and loads of any sizes and offsets, in any order, agree on
\* which byte of the local memories each of them means (alu.v:216-255,
\* data_lm.v:44-95, instruction_lm.v:26-48).
ImplementsBytes == Bytes!Spec
=============================================================================
