------------------------------ MODULE Croutine ------------------------------
(***************************************************************************)
(* The co-routines of FreeRTOS (src/c_test/FreeRTOS/Source/croutine.c),    *)
(* with the queue functions (queue.c) and macros (croutine.h) they wait    *)
(* with.                                                                   *)
(*                                                                         *)
(* One task calls vCoRoutineSchedule over and over; each step below is the *)
(* code between two points where an interrupt may come.  A co-routine is a *)
(* loop of macros, its uxState the macro it is at and how far in it.  The  *)
(* messages of a queue are only counted.                                   *)
(***************************************************************************)
EXTENDS Lists

CONSTANTS
    CoRoutines, CoQueues,
    CoPriority,     \* of each co-routine
    CoProgram,      \* of each co-routine: a sequence of [op, q, ticks]
    CoLength,       \* of each queue
    CoTickMod,      \* TickType_t counts modulo this
    CoLag,          \* the ticks that may pass between two looks at the counter
    CoCalls,        \* bounds the calls of interrupts on the queues
    NoCo

Macros == [op : {"crDELAY"}, ticks : 0 .. CoTickMod - 1]
          \cup [op : {"crQUEUE_SEND", "crQUEUE_RECEIVE"}, q : CoQueues, ticks : 0 .. CoTickMod - 1]

ASSUME CoAssumption ==
    /\ IsFiniteSet(CoRoutines) /\ NoCo \notin CoRoutines
    /\ CoPriority \in [CoRoutines -> Nat] /\ CoLength \in [CoQueues -> Nat \ {0}]
    /\ CoTickMod \in Nat \ {0}
    /\ CoProgram \in [CoRoutines -> Seq(Macros) \ {<<>>}]
    /\ CoCalls \in Nat

VARIABLES
    c,              \* the memory of croutine.c and the queues
    at              \* where vCoRoutineSchedule is

coVars == <<c, at>>

CoPriorities == {CoPriority[r] : r \in CoRoutines}

\* c.left, the ticks each delayed co-routine has to go, c.early and c.skipped
\* are kept for the properties.
CoInit ==
    /\ at = "create"
    /\ c = [pxReadyCoRoutineLists |-> [p \in CoPriorities |-> vListInitialise],
            pxDelayed |-> <<>>, pxOverflowDelayed |-> <<>>, xPendingReady |-> <<>>,
            pxCurrentCoRoutine |-> NoCo, uxTopCoRoutineReadyPriority |-> 0,
            xCoRoutineTickCount |-> 0, xLastTickCount |-> 0, xPassedTicks |-> 0, now |-> 0,
            wake |-> [r \in CoRoutines |-> 0], event |-> [r \in CoRoutines |-> 0],
            uxState |-> [r \in CoRoutines |-> [line |-> 1, phase |-> "call"]],
            uxMessagesWaiting |-> [q \in CoQueues |-> 0],
            toSend |-> [q \in CoQueues |-> <<>>], toReceive |-> [q \in CoQueues |-> <<>>],
            left |-> [r \in CoRoutines |-> 0], early |-> FALSE, skipped |-> {}, calls |-> CoCalls]

-----------------------------------------------------------------------------

prvAddCoRoutineToReadyQueue(x, r) ==
    [x EXCEPT !.uxTopCoRoutineReadyPriority = IF CoPriority[r] > @ THEN CoPriority[r] ELSE @,
              !.pxReadyCoRoutineLists[CoPriority[r]] = vListInsertEnd(@, r)]

InReadyCo(x, r) == \E p \in CoPriorities : Contains_(x.pxReadyCoRoutineLists[p], r)

\* uxListRemove(&(pxCRCB->xGenericListItem)) and of the xEventListItem
RemoveGeneric(x, r) ==
    [x EXCEPT !.pxReadyCoRoutineLists = [p \in CoPriorities |-> uxListRemove(@[p], r)],
              !.pxDelayed = Without(@, r), !.pxOverflowDelayed = Without(@, r)]
RemoveEventCo(x, r) ==
    [x EXCEPT !.toSend = [q \in CoQueues |-> Without(@[q], r)],
              !.toReceive = [q \in CoQueues |-> Without(@[q], r)],
              !.xPendingReady = Without(@, r)]

xCoRoutineCreate(x, r) ==
    prvAddCoRoutineToReadyQueue(
        [x EXCEPT !.pxCurrentCoRoutine = IF @ = NoCo THEN r ELSE @,
                  !.event[r] = Cardinality(CoPriorities) - CoPriority[r]], r)

vCoRoutineAddToDelayedList(x, ticks) ==
    LET r    == x.pxCurrentCoRoutine
        wake == (x.xCoRoutineTickCount + ticks) % CoTickMod
        x1   == [RemoveGeneric(x, r) EXCEPT !.wake[r] = wake, !.left[r] = ticks]
        Into(list) == vListInsert(list, r, x1.wake, CoTickMod - 1)
    IN  IF wake < x.xCoRoutineTickCount THEN [x1 EXCEPT !.pxOverflowDelayed = Into(@)]
        ELSE [x1 EXCEPT !.pxDelayed = Into(@)]

\* ret: whether the co-routine that waited is as urgent as the current one.
xCoRoutineRemoveFromEventList(x, list) ==
    LET r == Head(list)
    IN  [x |-> [RemoveEventCo(x, r) EXCEPT !.xPendingReady = Append(@, r)],
         ret |-> CoPriority[r] >= CoPriority[x.pxCurrentCoRoutine]]

\* A message is put in or taken out, and the first waiter on that side is told.
Signal(x, list) ==
    IF list = <<>> THEN [x |-> x, ret |-> FALSE] ELSE xCoRoutineRemoveFromEventList(x, list)
Put(x, q) == [x EXCEPT !.uxMessagesWaiting[q] = @ + 1]
Get(x, q) == [x EXCEPT !.uxMessagesWaiting[q] = @ - 1]

Full(x, q)  == x.uxMessagesWaiting[q] = CoLength[q]
Empty(x, q) == x.uxMessagesWaiting[q] = 0

-----------------------------------------------------------------------------
(* The macros of the co-routine that runs. *)

Running == at = "run"
Me      == c.pxCurrentCoRoutine
Macro   == CoProgram[Me][c.uxState[Me].line]
Phase   == c.uxState[Me].phase
NextLine(x) == [x EXCEPT !.uxState[Me] =
                    [line |-> (@.line % Len(CoProgram[Me])) + 1, phase |-> "call"]]

\* crSET_STATE0, crSET_STATE1: the co-routine returns to the scheduler.
Return(x, phase) == /\ c' = [x EXCEPT !.uxState[Me].phase = phase]
                    /\ at' = "pending"
Continue(x)      == c' = x /\ UNCHANGED at

\* After the wait of a delay, or after a yield, the macro is over.
Resumed ==
    /\ Running /\ Phase \in {"delayed", "yielded"}
    /\ Continue(NextLine(c))

crDELAY ==
    /\ Running /\ Macro.op = "crDELAY" /\ Phase = "call"
    /\ Return(IF Macro.ticks > 0 THEN vCoRoutineAddToDelayedList(c, Macro.ticks) ELSE c, "delayed")

\* The first critical section of xQueueCRSend and xQueueCRReceive: wait, give
\* up, or go on.  Once resumed the call is made again with no time to wait.
WaitFor(no, lists) ==
    LET q     == Macro.q
        ticks == IF Phase = "call" THEN Macro.ticks ELSE 0
        x     == vCoRoutineAddToDelayedList(c, ticks)
        Queued(list) == vListInsert(list, Me, x.event, CoTickMod - 1)
    IN  \/ /\ no /\ ticks > 0
           /\ Return(IF lists = "toSend" THEN [x EXCEPT !.toSend[q] = Queued(@)]
                     ELSE [x EXCEPT !.toReceive[q] = Queued(@)], "blocked")
        \/ /\ no /\ ticks = 0
           /\ Continue(NextLine(c))
        \/ /\ ~no
           /\ Continue([c EXCEPT !.uxState[Me].phase = "second"])

xQueueCRSend ==
    /\ Running /\ Macro.op = "crQUEUE_SEND" /\ Phase \in {"call", "blocked"}
    /\ WaitFor(Full(c, Macro.q), "toSend")

xQueueCRReceive ==
    /\ Running /\ Macro.op = "crQUEUE_RECEIVE" /\ Phase \in {"call", "blocked"}
    /\ WaitFor(Empty(c, Macro.q), "toReceive")

\* The second critical section: an interrupt may have been faster.
Transfer ==
    LET q    == Macro.q
        send == Macro.op = "crQUEUE_SEND"
        done == IF send THEN Signal(Put(c, q), c.toReceive[q]) ELSE Signal(Get(c, q), c.toSend[q])
    IN  /\ Running /\ Phase = "second"
        /\ \/ /\ IF send THEN Full(c, q) ELSE Empty(c, q)
              /\ Continue(NextLine(c))
           \/ /\ ~IF send THEN Full(c, q) ELSE Empty(c, q)
              /\ IF done.ret THEN Return(done.x, "yielded") ELSE Continue(NextLine(done.x))

-----------------------------------------------------------------------------
(* vCoRoutineSchedule *)

Create ==
    /\ at = "create"
    /\ \/ \E r \in CoRoutines : ~InReadyCo(c, r) /\ c' = xCoRoutineCreate(c, r) /\ UNCHANGED at
       \/ (\A r \in CoRoutines : InReadyCo(c, r)) /\ at' = "pending" /\ UNCHANGED c

prvCheckPendingReadyList ==
    /\ at = "pending"
    /\ IF c.xPendingReady = <<>>
       THEN /\ at' = "ticks"
            /\ c' = [c EXCEPT !.xPassedTicks = (c.now + CoTickMod - c.xLastTickCount) % CoTickMod]
       ELSE LET r == Head(c.xPendingReady)
            IN  /\ c' = prvAddCoRoutineToReadyQueue(RemoveGeneric(RemoveEventCo(c, r), r), r)
                /\ UNCHANGED at

\* prvCheckDelayedList: one tick of those that have passed, ...
PassTick ==
    /\ at = "ticks"
    /\ IF c.xPassedTicks = 0
       THEN c' = [c EXCEPT !.xLastTickCount = c.xCoRoutineTickCount] /\ at' = "select"
       ELSE LET tick == (c.xCoRoutineTickCount + 1) % CoTickMod
                x    == [c EXCEPT !.xCoRoutineTickCount = tick, !.xPassedTicks = @ - 1,
                                  !.left = [r \in CoRoutines |-> IF @[r] = 0 THEN 0 ELSE @[r] - 1]]
            IN  /\ c' = IF tick # 0 THEN x
                        ELSE [x EXCEPT !.pxDelayed = x.pxOverflowDelayed,
                                       !.pxOverflowDelayed = x.pxDelayed]
                /\ at' = "expire"

\* Seeded fault: an expired co-routine stays in its event list.
ExpireStillWaiting ==
    /\ at = "expire"
    /\ IF c.pxDelayed = <<>> \/ c.xCoRoutineTickCount < c.wake[Head(c.pxDelayed)]
       THEN at' = "ticks" /\ UNCHANGED c
       ELSE /\ c' = prvAddCoRoutineToReadyQueue(RemoveGeneric(c, Head(c.pxDelayed)), Head(c.pxDelayed))
            /\ UNCHANGED at

\* ... and one co-routine whose time has come.
Expire ==
    /\ at = "expire"
    /\ IF c.pxDelayed = <<>> \/ c.xCoRoutineTickCount < c.wake[Head(c.pxDelayed)]
       THEN at' = "ticks" /\ UNCHANGED c
       ELSE LET r == Head(c.pxDelayed)
            IN  /\ c' = [prvAddCoRoutineToReadyQueue(RemoveEventCo(RemoveGeneric(c, r), r), r)
                            EXCEPT !.early = @ \/ c.left[r] > 0]
                /\ UNCHANGED at

\* The co-routines of the highest priority take turns; with none ready the
\* scheduler returns.
vCoRoutineSchedule ==
    LET ready == {p \in CoPriorities : p <= c.uxTopCoRoutineReadyPriority
                                         /\ c.pxReadyCoRoutineLists[p].items # <<>>}
        top   == CHOOSE p \in ready : \A p2 \in ready : p2 <= p
        list  == listGET_OWNER_OF_NEXT_ENTRY(c.pxReadyCoRoutineLists[top])
    IN  /\ at = "select"
        /\ \/ /\ ready = {}
              /\ c' = [c EXCEPT !.uxTopCoRoutineReadyPriority = 0]
              /\ at' = "pending"
           \/ /\ ready # {}
              /\ c' = [c EXCEPT !.uxTopCoRoutineReadyPriority = top,
                                !.pxReadyCoRoutineLists[top] = list,
                                !.pxCurrentCoRoutine = Owner(list)]
              /\ at' = "run"

-----------------------------------------------------------------------------
(* Interrupts: the tick, and calls on the queues, which wake no waiter when   *)
(* the interrupt has woken one already.                                       *)

CoTick ==
    /\ at # "create"
    /\ (c.now + CoTickMod - c.xCoRoutineTickCount - c.xPassedTicks) % CoTickMod < CoLag
    /\ c' = [c EXCEPT !.now = (@ + 1) % CoTickMod]
    /\ UNCHANGED at

WakeUnless(woken, x, q, list) ==
    [IF woken THEN [x EXCEPT !.skipped = IF list = <<>> THEN @ ELSE @ \cup {q}]
     ELSE Signal(x, list).x EXCEPT !.calls = @ - 1]

xQueueCRSendFromISR(q, woken) ==
    /\ at # "create" /\ ~Full(c, q) /\ c.calls > 0
    /\ c' = WakeUnless(woken, Put(c, q), q, c.toReceive[q])
    /\ UNCHANGED at

xQueueCRReceiveFromISR(q, woken) ==
    /\ at # "create" /\ ~Empty(c, q) /\ c.calls > 0
    /\ c' = WakeUnless(woken, Get(c, q), q, c.toSend[q])
    /\ UNCHANGED at

CoNext ==
    \/ Create \/ prvCheckPendingReadyList \/ PassTick \/ Expire \/ vCoRoutineSchedule
    \/ Resumed \/ crDELAY \/ xQueueCRSend \/ xQueueCRReceive \/ Transfer
    \/ CoTick
    \/ \E q \in CoQueues, woken \in BOOLEAN :
        xQueueCRSendFromISR(q, woken) \/ xQueueCRReceiveFromISR(q, woken)

CoSpec == CoInit /\ [][CoNext]_coVars

-----------------------------------------------------------------------------
(* Properties. *)

Items(s, r)     == {i \in DOMAIN s : s[i] = r}
Times(s, r)     == Cardinality(Items(s, r))
GenericItems(r) == Cardinality({p \in CoPriorities : Contains_(c.pxReadyCoRoutineLists[p], r)})
                       + Times(c.pxDelayed, r) + Times(c.pxOverflowDelayed, r)
WaitItems(r)    == Cardinality((UNION {{"toSend"} \X {q} \X Items(c.toSend[q], r) : q \in CoQueues})
                               \cup (UNION {{"toReceive"} \X {q} \X Items(c.toReceive[q], r) : q \in CoQueues}))

Woken(q, op, waiting) ==
    {r \in CoRoutines : /\ c.uxState[r].phase \in {"blocked", "second"}
                        /\ CoProgram[r][c.uxState[r].line].op = op
                        /\ CoProgram[r][c.uxState[r].line].q = q
                        /\ ~\E i \in DOMAIN waiting : waiting[i] = r}

\* A co-routine waits in one place, is ready only when it waits for nothing,
\* sleeps no longer and no shorter than it asked, and never beside a message
\* or a free place that no other co-routine was woken for, unless an interrupt
\* that had woken one before put it there (croutine.c, queue.c 2373 to 2641).
CoRoutinesHeeded ==
    at # "create" =>
    /\ \A r \in CoRoutines :
        /\ GenericItems(r) = 1
        /\ WaitItems(r) + Times(c.xPendingReady, r) <= 1
        /\ InReadyCo(c, r) => WaitItems(r) + Times(c.xPendingReady, r) = 0
        /\ at # "expire" /\ ~InReadyCo(c, r) => c.left[r] > 0
    /\ ~c.early
    /\ \A p \in CoPriorities : c.pxReadyCoRoutineLists[p].items # <<>> => p <= c.uxTopCoRoutineReadyPriority
    /\ \A q \in CoQueues \ c.skipped :
        /\ c.toReceive[q] # <<>> =>
               c.uxMessagesWaiting[q] <= Cardinality(Woken(q, "crQUEUE_RECEIVE", c.toReceive[q]))
        /\ c.toSend[q] # <<>> =>
               CoLength[q] - c.uxMessagesWaiting[q] <= Cardinality(Woken(q, "crQUEUE_SEND", c.toSend[q]))

=============================================================================
