----------------------------- MODULE ByteMemory -----------------------------
(***************************************************************************)
(* What RV32I promises of loads and stores to the local memories: memory   *)
(* is an array of bytes, a store changes exactly the bytes it names, and a *)
(* load yields the bytes last stored, extended as its name says.  An       *)
(* access that is misaligned or outside the memory traps: neither it nor   *)
(* the instruction behind it has any effect.                               *)
(***************************************************************************)
EXTENDS Naturals

CONSTANTS
    Byte,      \* the byte values that occur, 0 and 255 among them
    Depth,     \* words of each memory
    Accesses   \* accesses of the program: records of op, region, addr, data

Lanes == 0 .. 3
Word  == [Lanes -> Byte]

Loads  == {"lb", "lh", "lw", "lbu", "lhu"}
Stores == {"sb", "sh", "sw"}
Size(op) == IF op \in {"lb", "lbu", "sb"} THEN 1
            ELSE IF op \in {"lh", "lhu", "sh"} THEN 2 ELSE 4

\* Sign or zero extension of the low lanes of `word`.
SignByte(byte) == IF byte >= 128 THEN 255 ELSE 0
Extended(op, word) ==
    [i \in Lanes |-> IF i < Size(op) THEN word[i]
                     ELSE IF op \in {"lb", "lh"} THEN SignByte(word[Size(op) - 1]) ELSE 0]

VARIABLES
    bytes,    \* the byte at each address of each memory
    rd_data,  \* what the last load wrote to its register
    trapped,  \* the last access trapped
    access    \* the access made last

Init ==
    /\ bytes \in [{"ilm", "dlm"} -> [0 .. 4 * Depth - 1 -> Byte]]
    /\ rd_data \in Word
    /\ trapped = FALSE
    /\ access \in Accesses

Legal(a) == a.addr % Size(a.op) = 0 /\ a.addr + Size(a.op) <= 4 * Depth

Load(a) ==
    /\ a.op \in Loads
    /\ rd_data' = Extended(a.op, [i \in Lanes |->
                      IF i < Size(a.op) THEN bytes[a.region][a.addr + i] ELSE 0])
    /\ UNCHANGED bytes

Store(a) ==
    /\ a.op \in Stores
    /\ bytes' = [bytes EXCEPT ![a.region] =
                   [n \in DOMAIN @ |-> IF n \in a.addr .. a.addr + Size(a.op) - 1
                                       THEN a.data[n - a.addr] ELSE @[n]]]
    /\ UNCHANGED rd_data

Access(a) ==
    /\ access' = a /\ ~trapped /\ Legal(a)
    /\ Load(a) \/ Store(a)
    /\ UNCHANGED trapped

Trap(a) ==
    /\ access' = a /\ ~trapped /\ ~Legal(a)
    /\ trapped' = TRUE
    /\ UNCHANGED <<bytes, rd_data>>

\* The instruction behind the trap, whatever it was, has no effect.
Flush ==
    /\ trapped
    /\ trapped' = FALSE /\ access' \in Accesses
    /\ UNCHANGED <<bytes, rd_data>>

Next == (\E a \in Accesses : Access(a) \/ Trap(a)) \/ Flush

vars == <<bytes, rd_data, trapped, access>>

Spec == Init /\ [][Next]_vars
=============================================================================
