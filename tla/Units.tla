-------------------------------- MODULE Units --------------------------------
(***************************************************************************)
(* The units of the core that share no wire: the return-address stack and  *)
(* the machine timer with its driver, the divider, the multiplier and the  *)
(* load/store path.  One of them runs, at its own clock; the others stand  *)
(* still in a first state of theirs.                                       *)
(***************************************************************************)
EXTENDS ReturnStack, Mtimer, LoadStore, Divider, Multiplier

VARIABLE unit    \* the one that runs

ASSUME UnitsAssumption == Parameters

unitVars == <<unit, vars, timerVars, dividerVars, multiplierVars, memoryVars>>

Any(S) == CHOOSE x \in S : TRUE

UnitsInit ==
    /\ unit \in {"stack", "timer", "divider", "multiplier", "memory"}
    /\ Init /\ (unit # "stack" => addr = Any(Addr))
    /\ TimerInit /\ (unit # "timer" => mtimer_cmp = 0)
    /\ DividerInit
    /\ LoadStoreInit /\ (unit # "memory" => access = Any(Accesses))
    /\ IF unit = "multiplier" THEN MultiplierInit
       ELSE func3 = "mul" /\ rs1 = 0 /\ rs2 = 0 /\ rd = 0

-----------------------------------------------------------------------------
Stack == unit = "stack" /\ Next
         /\ UNCHANGED <<unit, timerVars, dividerVars, multiplierVars, memoryVars>>

Timer == unit = "timer" /\ TimerNext
         /\ UNCHANGED <<unit, vars, dividerVars, multiplierVars, memoryVars>>

Divide == unit = "divider" /\ DividerNext
          /\ UNCHANGED <<unit, vars, timerVars, multiplierVars, memoryVars>>

\* A multiplication is over when its wires have settled.
Multiply == unit = "multiplier" /\ (Settle \/ (rd # -1 /\ UNCHANGED multiplierVars))
            /\ UNCHANGED <<unit, vars, timerVars, dividerVars, memoryVars>>

LoadOrStore == unit = "memory" /\ LoadStoreNext
               /\ UNCHANGED <<unit, vars, timerVars, dividerVars, multiplierVars>>

UnitsNext == Stack \/ Timer \/ Divide \/ Multiply \/ LoadOrStore

\* The clock of the divider and of the timer runs, and the core executes the
\* driver's instructions.
UnitsSpec ==
    /\ UnitsInit /\ [][UnitsNext]_unitVars
    /\ WF_dividerVars(unit = "divider" /\ DividerStep)
    /\ WF_timerVars(unit = "timer" /\ TimerNext)
    /\ WF_timerVars(unit = "timer" /\ Access /\ Edge)

=============================================================================
