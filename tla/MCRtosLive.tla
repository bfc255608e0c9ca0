----------------------------- MODULE MCRtosLive -----------------------------
(***************************************************************************)
(* Tasks that loop for ever under ticks that come for ever.  At least      *)
(* Slice steps lie between two ticks, unless the processor is idle: a step *)
(* is some tens of instructions, a tick a millisecond.                     *)
(***************************************************************************)
EXTENDS MCRtos

CONSTANT Slice

VARIABLE steps  \* since the last tick, Slice at most

Forever(sc) == [sc EXCEPT !.ticks = NULL]

\* Two consumers of equal priority that wait for ever, and a producer that
\* sometimes gives up.
Feeding ==
    Forever(Sc(<< QCreate(q1, 1), Create(t1, 1), Create(t2, 1), Create(t3, 2), Start >>,
        t1 :> Loop(P(<< {Recv(q1, 3)} >>), 1, 1)
     @@ t2 :> Loop(P(<< {Recv(q1, 3)} >>), 1, 1)
     @@ t3 :> Loop(P(<< {MDelay(1)}, {Send(q1, "x", 1), Send(q1, "x", 3)} >>), 2, 1), 4, {}))

\* A mutex that three tasks share, the highest of which sleeps in between and
\* sometimes gives up.
Sharing ==
    LET Using == Loop(P(<< {Take(q1, 3)}, {Give(q1)} >>), 2, 1)
    IN  Forever(Sc(<< Mutex(q1), Create(t1, 1), Create(t2, 1), Create(t3, 2), Start >>,
        t1 :> Using @@ t2 :> Using
     @@ t3 :> Loop(OnFail(P(<< {MDelay(1)}, {Take(q1, 3), Take(q1, 1)}, {Give(q1)} >>), 2, 1), 3, 1), 4, {}))

\* Two tasks with their own periods, the second of which notifies a third.
Periodic ==
    Forever(Sc(<< Create(t1, 1), Create(t2, 1), Create(t3, 2), Start >>,
        t1 :> Loop(P(<< {Until(2)} >>), 1, 1)
     @@ t2 :> Loop(P(<< {NTake(TRUE, 3)} >>), 1, 1)
     @@ t3 :> Loop(P(<< {MDelay(1), MDelay(2)}, {Notify(t2, "eIncrement", 0)} >>), 2, 1), 4, {}))

LoopingOnly == [Feeding |-> Feeding, Sharing |-> Sharing, Periodic |-> Periodic]

TaskStep == /\ prvIdleTask \/ \E t \in Tasks : TaskCall(t) \/ QueueCall(t)
            /\ steps' = IF steps = Slice THEN steps ELSE steps + 1
TickStep == Tick /\ (steps = Slice \/ k.pxCurrentTCB = IdleTask) /\ steps' = 0
MainStep == Main /\ UNCHANGED steps

LiveVars == <<vars, steps>>
LiveNext == MainStep \/ TaskStep \/ TickStep

LiveSpec ==
    /\ Init /\ steps = 0
    /\ [][LiveNext]_LiveVars
    /\ []<><<TickStep>>_LiveVars

\* Every call a task makes returns, as long as ticks come: a call that waits for
\* a time gives up, one that waits for ever is served, and no task of a shared
\* priority is starved by the others (tasks.c:2707, queue.c:740 to 1633).
CallsReturn ==
    \A t \in {t1, t2, t3} : frame[t].pc # "app" ~> frame[t].pc = "app"
=============================================================================
