------------------------------ MODULE MCUnits ------------------------------
(***************************************************************************)
(* A small instance of Units.  For the load/store path: one word of data   *)
(* memory and one of instruction memory, and the accesses a program may    *)
(* make to them.                                                           *)
(***************************************************************************)
EXTENDS Units

\* Two words whose bytes differ at the lowest lane from all others.
TwoWords == {[i \in 0 .. 3 |-> IF i = 0 THEN b ELSE 255 - b] : b \in {0, 255}}
Zeros  == {[i \in 0 .. 3 |-> 0]}

\* The operations on one, two and four bytes.
LoadOf  == [n \in {1, 2, 4} |-> CASE n = 1 -> {"lb", "lbu"}
                                  [] n = 2 -> {"lh", "lhu"}
                                  [] n = 4 -> {"lw"}]
StoreOf == [n \in {1, 2, 4} |-> CASE n = 1 -> {"sb"} [] n = 2 -> {"sh"} [] n = 4 -> {"sw"}]

OfSize(region, size, addrs) ==
    [op : LoadOf[size], region : {region}, addr : addrs, data : Zeros]
    \cup [op : StoreOf[size], region : {region}, addr : addrs, data : TwoWords]

AnySize(region, addrs) == UNION {OfSize(region, n, addrs) : n \in {1, 2, 4}}

\* Aligned accesses inside the DLM, and word accesses to the ILM.
Aligned == UNION {OfSize("dlm", n, {k \in 0 .. 4 * Depth - 1 : k % n = 0}) : n \in {1, 2, 4}}
           \cup OfSize("ilm", 4, {0})
ASSUME AlignedHandled == \A a \in Aligned : Handles(a)

\* The same, and one kind of access each that the hardware does not handle:
\* ImplementsBytes fails of each.
Misaligned == Aligned \cup AnySize("dlm", 0 .. 4 * Depth - 1)
PastEnd    == Aligned \cup {a \in OfSize("dlm", 4, {4 * Depth}) : a.op = "lw"}
IlmBytes   == Aligned \cup AnySize("ilm", 0 .. 3)
=============================================================================
