----------------------------- MODULE ReturnStack -----------------------------
(***************************************************************************)
(* The return-address stack, rtl/core/ras_stack.v, driven by the calls and *)
(* returns predict.v sees in the fetch stage.  The stack is written at     *)
(* every clock edge on which the fetch stage shows a call or a return,     *)
(* also while the pipeline is stalled and on a path it is about to leave.  *)
(* The program is well nested: each return goes back to the call that is   *)
(* open.                                                                   *)
(***************************************************************************)
EXTENDS Naturals, Sequences

CONSTANTS
    DEPTH,      \* entries of the stack (8 in the code)
    Addr,       \* return addresses
    MaxOpen     \* bound: calls open at a time

ASSUME StackAssumption ==
    /\ DEPTH \in Nat \ {0}
    /\ 0 \notin Addr
    /\ MaxOpen \in Nat

VARIABLES
    ras_mem, sp_index,
    open,      \* the return addresses of the calls that are open, outermost first
    lost,      \* history: a call found the stack full
    skewed,    \* history: a call or a return acted when it should not have
    op,        \* what the fetch stage shows: "call", "ret", "both" or "other"
    addr       \* the return address it would push

vars == <<ras_mem, sp_index, open, lost, skewed, op, addr>>

Init ==
    /\ ras_mem = [i \in 0 .. DEPTH - 1 |-> 0]
    /\ sp_index = 0
    /\ open = <<>>
    /\ lost = FALSE
    /\ skewed = FALSE
    /\ op = "other"
    /\ addr \in Addr

-----------------------------------------------------------------------------
empty == sp_index = 0
full  == sp_index = DEPTH

top_addr == IF empty THEN 0 ELSE ras_mem[sp_index - 1]

push == op \in {"call", "both"}
pop  == op \in {"ret", "both"}

\* Seeded fault: a return that calls at once pushes above the top.
SlotAbove == sp_index

\* Where a push goes: a return that calls at once replaces the top.
Slot == IF pop /\ ~ empty THEN sp_index - 1 ELSE sp_index

StackEdge ==
    /\ ras_mem' = IF push /\ (pop \/ ~ full)
                  THEN [ras_mem EXCEPT ![Slot] = addr] ELSE ras_mem
    /\ sp_index' = IF push /\ ~ pop /\ ~ full THEN sp_index + 1
                   ELSE IF pop /\ ~ push /\ ~ empty THEN sp_index - 1
                   ELSE IF pop /\ push /\ empty THEN sp_index + 1
                   ELSE sp_index

\* What the program may fetch next: it returns from open calls only.
Fetch(calls) ==
    /\ op' \in {"other"} \cup (IF Len(calls) < MaxOpen THEN {"call"} ELSE {})
                         \cup (IF calls # <<>> THEN {"ret", "both"} ELSE {})
    /\ addr' \in Addr

\* The program's own view of its calls.
Closed(calls) == [i \in 1 .. Len(calls) - 1 |-> calls[i]]

After(calls) == CASE op = "call" -> Append(calls, addr)
                  [] op = "ret"  -> Closed(calls)
                  [] op = "both" -> Append(Closed(calls), addr)
                  [] OTHER       -> calls

\* With no call open and nothing on the stack, all is well again.
Settled(calls) == calls = <<>> /\ sp_index' = 0

\* The fetch stage moves on.
Move ==
    /\ StackEdge
    /\ open' = After(open)
    /\ lost' = ((lost \/ (op = "call" /\ full)) /\ ~ Settled(open'))
    /\ skewed' = (skewed /\ ~ Settled(open'))
    /\ Fetch(After(open))

\* The fetch stage is held, or what it shows is on a wrong path: the stack is
\* clocked all the same, and nothing undoes it.
Skew ==
    /\ push \/ pop
    /\ StackEdge
    /\ skewed' = ~ Settled(open)
    /\ UNCHANGED <<open, lost>>

Hold   == Skew /\ UNCHANGED <<op, addr>>
Squash == Skew /\ Fetch(open)

Next == Move \/ Hold \/ Squash

Spec == Init /\ [][Next]_vars

-----------------------------------------------------------------------------
\* The values of the stack: its pointer stays within its depth.
TypeOK ==
    /\ ras_mem \in [0 .. DEPTH - 1 -> Addr \cup {0}]
    /\ sp_index \in 0 .. DEPTH
    /\ open \in Seq(Addr)
    /\ lost \in BOOLEAN /\ skewed \in BOOLEAN
    /\ op \in {"call", "ret", "both", "other"}
    /\ addr \in Addr

(***************************************************************************)
(* The stack holds the open calls, entry for entry, until a call finds it  *)
(* full or one is counted twice.                                           *)
(***************************************************************************)
HoldsOpenCalls ==
    ~ lost /\ ~ skewed => /\ sp_index = Len(open)
                          /\ \A i \in 1 .. Len(open) : ras_mem[i - 1] = open[i]

(***************************************************************************)
(* While the calls nest no deeper than the stack, every return is          *)
(* predicted to go back to the call that is open.                          *)
(***************************************************************************)
ReturnPredicted == open # <<>> /\ ~ lost => top_addr = open[Len(open)]
=============================================================================
