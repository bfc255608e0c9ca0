--------------------------- MODULE Kernel_proofs ---------------------------
(***************************************************************************)
(* What each function of the scheduler keeps, whatever the number of       *)
(* tasks, of priorities and of event lists, and the width of the counters: *)
(* proofs.                                                                 *)
(*                                                                         *)
(* x is the scheduler's memory before a function, y after it.              *)
(***************************************************************************)
EXTENDS Kernel, Lists_proofs

-----------------------------------------------------------------------------
(* The memory. *)

KernelFields ==
    {"pxCurrentTCB", "xSchedulerRunning", "uxSchedulerSuspended", "xYieldPending",
     "uxCurrentNumberOfTasks", "uxDeletedTasksWaitingCleanUp", "pxReadyTasksLists",
     "uxTopReadyPriority", "pxDelayedTaskList", "pxOverflowDelayedTaskList",
     "xPendingReadyList", "xSuspendedTaskList", "xTasksWaitingTermination", "xEventLists",
     "xTickCount", "xPendedTicks", "xNumOfOverflows", "xNextTaskUnblockTime", "uxPriority",
     "uxBasePriority", "xItemValue", "xEventValue", "xEventBits", "ucNotifyState",
     "ulNotifiedValue", "ucDelayAborted", "uxMutexesHeld", "elapsed", "due", "asserts",
     "allocated"}

Ticks        == 0 .. TickMod - 1
TaskLists    == {s \in Seq(Tasks) : Distinct(s)}
ReadyLists   == {l \in [items : Seq(Tasks), index : Nat] : GoodReady(Tasks, l)}

Mem(x) ==
    /\ KernelFields \subseteq DOMAIN x
    /\ x.pxCurrentTCB \in Tasks \cup {NULL}
    /\ x.xSchedulerRunning \in BOOLEAN /\ x.xYieldPending \in BOOLEAN
    /\ x.uxSchedulerSuspended \in Nat /\ x.xPendedTicks \in Nat
    /\ x.pxReadyTasksLists \in [Priorities -> ReadyLists]
    /\ x.uxTopReadyPriority \subseteq Priorities
    /\ x.pxDelayedTaskList \in TaskLists /\ x.pxOverflowDelayedTaskList \in TaskLists
    /\ x.xSuspendedTaskList \in TaskLists /\ x.xTasksWaitingTermination \in TaskLists
    /\ x.xPendingReadyList \in TaskLists /\ x.xEventLists \in [EventLists -> TaskLists]
    /\ x.uxPriority \in [Tasks -> Priorities] /\ x.uxBasePriority \in [Tasks -> Priorities]
    /\ x.xTickCount \in Ticks /\ x.xNextTaskUnblockTime \in Ticks
    /\ x.xItemValue \in [Tasks -> Ticks]
    /\ x.elapsed \in 0 .. ElapsedMod - 1 /\ x.due \in [Tasks -> 0 .. ElapsedMod - 1]
    /\ x.allocated \subseteq Tasks

\* Who is in which list.
ReadyAt(x, p)  == Elements(x.pxReadyTasksLists[p].items)
Ready(x)       == {t \in Tasks : \E p \in Priorities : t \in ReadyAt(x, p)}
Delayed(x)     == Elements(x.pxDelayedTaskList)
Overflowed(x)  == Elements(x.pxOverflowDelayedTaskList)
Suspended(x)   == Elements(x.xSuspendedTaskList)
Deleted(x)     == Elements(x.xTasksWaitingTermination)
Pended(x)      == Elements(x.xPendingReadyList)
WaitingAt(x, e) == Elements(x.xEventLists[e])
Waiting(x)     == {t \in Tasks : \E e \in EventLists : t \in WaitingAt(x, e)}

\* Every task but those in out is in one state list, a ready one in that of its
\* priority; the lists that are not empty have their bit, and only the bits in
\* loose may be left of one that is.
Homes(x, out) ==
    /\ Ready(x) \cup Delayed(x) \cup Overflowed(x) \cup Suspended(x) \cup Deleted(x)
           = x.allocated \ out
    /\ Ready(x) \cap (Delayed(x) \cup Overflowed(x) \cup Suspended(x) \cup Deleted(x)) = {}
    /\ Delayed(x) \cap (Overflowed(x) \cup Suspended(x) \cup Deleted(x)) = {}
    /\ Overflowed(x) \cap (Suspended(x) \cup Deleted(x)) = {}
    /\ Suspended(x) \cap Deleted(x) = {}
Ranked(x) == \A p \in Priorities : \A t \in ReadyAt(x, p) : x.uxPriority[t] = p
Bits(x, loose) ==
    \A p \in Priorities :
        /\ ReadyAt(x, p) # {} => p \in x.uxTopReadyPriority
        /\ p \in x.uxTopReadyPriority /\ p \notin loose => ReadyAt(x, p) # {}

\* An event item is in one list at most, and not that of a deleted task.
Apart(x) ==
    /\ Pended(x) \cup Waiting(x) \subseteq x.allocated \ Deleted(x)
    /\ Pended(x) \cap Waiting(x) = {}
    /\ \A d, e \in EventLists : d # e => WaitingAt(x, d) \cap WaitingAt(x, e) = {}

\* A task sleeps for less than a turn of the tick counter, its item holds the
\* count at which it wakes, and which list it is in says whether that comes
\* after the counter has wrapped.  The lists are sorted, and
\* xNextTaskUnblockTime is not after the first.
Until(x, t) == (x.due[t] + ElapsedMod - x.elapsed) % ElapsedMod
Times(x, least) ==
    /\ \A t \in Delayed(x) :
        /\ Until(x, t) \in least .. TickMod - 1
        /\ x.xItemValue[t] = x.xTickCount + Until(x, t)
        /\ x.xNextTaskUnblockTime <= x.xItemValue[t]
    /\ \A t \in Overflowed(x) :
        /\ Until(x, t) \in 1 .. TickMod - 1
        /\ x.xItemValue[t] = x.xTickCount + Until(x, t) - TickMod
    /\ SortedBy(x.pxDelayedTaskList, x.xItemValue)
    /\ SortedBy(x.pxOverflowDelayedTaskList, x.xItemValue)

Sound(x, out, loose, least) ==
    Mem(x) /\ Homes(x, out) /\ Ranked(x) /\ Bits(x, loose) /\ Apart(x) /\ Times(x, least)

\* What a step leaves alone.
SameReady(x, y)   == y.pxReadyTasksLists = x.pxReadyTasksLists
SameTop(x, y)     == y.uxTopReadyPriority = x.uxTopReadyPriority
SameSleep(x, y)   == /\ y.pxDelayedTaskList = x.pxDelayedTaskList
                     /\ y.pxOverflowDelayedTaskList = x.pxOverflowDelayedTaskList
SameParked(x, y)  == /\ y.xSuspendedTaskList = x.xSuspendedTaskList
                     /\ y.xTasksWaitingTermination = x.xTasksWaitingTermination
SameEvents(x, y)  == y.xPendingReadyList = x.xPendingReadyList /\ y.xEventLists = x.xEventLists
SameTimes(x, y)   == y.xItemValue = x.xItemValue /\ y.due = x.due
SameNext(x, y)    == y.xNextTaskUnblockTime = x.xNextTaskUnblockTime
SameClock(x, y)   == y.xTickCount = x.xTickCount /\ y.elapsed = x.elapsed
SameRanks(x, y)   == y.uxPriority = x.uxPriority /\ y.uxBasePriority = x.uxBasePriority
SameCurrent(x, y) == y.pxCurrentTCB = x.pxCurrentTCB
SameYield(x, y)   == y.xYieldPending = x.xYieldPending
SameAsserts(x, y) == y.asserts = x.asserts
SameRest(x, y)    == /\ y.xSchedulerRunning = x.xSchedulerRunning
                     /\ y.uxSchedulerSuspended = x.uxSchedulerSuspended
                     /\ y.xPendedTicks = x.xPendedTicks
                     /\ y.allocated = x.allocated
                     /\ y.uxDeletedTasksWaitingCleanUp = x.uxDeletedTasksWaitingCleanUp

\* What moving a task from one list to another leaves alone.
Kept(x, y) ==
    /\ SameTimes(x, y) /\ SameClock(x, y) /\ SameRanks(x, y) /\ SameCurrent(x, y) /\ SameYield(x, y)
    /\ SameAsserts(x, y) /\ SameRest(x, y)
    /\ y.xTasksWaitingTermination = x.xTasksWaitingTermination

LEMMA Numbers ==
    /\ TickMod \in Nat /\ TickMod > 1 /\ ElapsedMod \in Nat /\ ElapsedMod >= TickMod
    /\ configMAX_PRIORITIES \in Nat \ {0} /\ 0 \in Priorities /\ Priorities \subseteq Nat
    /\ portMAX_DELAY \in Ticks /\ 0 \in Ticks /\ NULL \notin Tasks /\ IdleTask \in Tasks
<1>1. TickMod \in Nat /\ TickMod > 1 /\ configMAX_PRIORITIES \in Nat \ {0} /\ NULL \notin Tasks /\ IdleTask \in Tasks
    BY KernelAssumption
<1>2. ElapsedMod \in Nat /\ ElapsedMod >= TickMod
    <2>1. \A m \in Nat : m > 1 => m * m \in Nat /\ m * m >= m
        OBVIOUS
    <2> QED BY <1>1, <2>1 DEF ElapsedMod
<1> QED BY <1>1, <1>2 DEF Priorities, portMAX_DELAY, Ticks

\* uxListRemove(&(pxTCB->xStateListItem))
LEMMA RemoveStateIs ==
    ASSUME NEW x, Mem(x), NEW t
    PROVE  LET y == RemoveState(x, t)
           IN  /\ Mem(y)
               /\ \A p \in Priorities : ReadyAt(y, p) = ReadyAt(x, p) \ {t}
               /\ Ready(y) = Ready(x) \ {t} /\ Delayed(y) = Delayed(x) \ {t}
               /\ Overflowed(y) = Overflowed(x) \ {t} /\ Suspended(y) = Suspended(x) \ {t}
               /\ Deleted(y) = Deleted(x) \ {t}
               /\ t \notin Deleted(x) => y.xTasksWaitingTermination = x.xTasksWaitingTermination
               /\ \A v \in [Tasks -> Int] :
                    /\ SortedBy(x.pxDelayedTaskList, v) => SortedBy(y.pxDelayedTaskList, v)
                    /\ SortedBy(x.pxOverflowDelayedTaskList, v) => SortedBy(y.pxOverflowDelayedTaskList, v)
               /\ SameTop(x, y) /\ SameEvents(x, y) /\ SameTimes(x, y) /\ SameNext(x, y) /\ SameClock(x, y)
               /\ SameRanks(x, y) /\ SameCurrent(x, y) /\ SameYield(x, y) /\ SameAsserts(x, y) /\ SameRest(x, y)
<1> DEFINE ready     == [p \in Priorities |-> uxListRemove(x.pxReadyTasksLists[p], t)]
           delayed   == Without(x.pxDelayedTaskList, t)
           over      == Without(x.pxOverflowDelayedTaskList, t)
           suspended == Without(x.xSuspendedTaskList, t)
           deleted   == Without(x.xTasksWaitingTermination, t)
           y == [x EXCEPT !.pxReadyTasksLists = ready, !.pxDelayedTaskList = delayed,
                          !.pxOverflowDelayedTaskList = over, !.xSuspendedTaskList = suspended,
                          !.xTasksWaitingTermination = deleted]
<1>1. RemoveState(x, t) = y
    BY DEF RemoveState
<1>2. ASSUME NEW p \in Priorities
      PROVE  ready[p] \in ReadyLists /\ Elements(ready[p].items) = Elements(x.pxReadyTasksLists[p].items) \ {t}
    <2>1. GoodReady(Tasks, x.pxReadyTasksLists[p])
        BY DEF Mem, ReadyLists
    <2>2. ready[p] = uxListRemove(x.pxReadyTasksLists[p], t)
        OBVIOUS
    <2> HIDE DEF ready
    <2>3. GoodReady(Tasks, ready[p]) /\ Elements(ready[p].items) = Elements(x.pxReadyTasksLists[p].items) \ {t}
        BY <2>1, <2>2, ReadyRemoveIs
    <2> QED BY <2>3 DEF GoodReady, ReadyLists
<1>3. ASSUME NEW s \in TaskLists
      PROVE  /\ Without(s, t) \in TaskLists /\ Elements(Without(s, t)) = Elements(s) \ {t}
             /\ t \notin Elements(s) => Without(s, t) = s
             /\ \A v \in [Tasks -> Int] : SortedBy(s, v) => SortedBy(Without(s, t), v)
    BY WithoutIs DEF TaskLists
<1>4. /\ delayed \in TaskLists /\ over \in TaskLists /\ suspended \in TaskLists /\ deleted \in TaskLists
      /\ Elements(delayed) = Delayed(x) \ {t} /\ Elements(over) = Overflowed(x) \ {t}
      /\ Elements(suspended) = Suspended(x) \ {t} /\ Elements(deleted) = Deleted(x) \ {t}
      /\ t \notin Deleted(x) => deleted = x.xTasksWaitingTermination
      /\ \A v \in [Tasks -> Int] :
            /\ SortedBy(x.pxDelayedTaskList, v) => SortedBy(delayed, v)
            /\ SortedBy(x.pxOverflowDelayedTaskList, v) => SortedBy(over, v)
    BY <1>3 DEF Mem, Delayed, Overflowed, Suspended, Deleted
<1>5. ready \in [Priorities -> ReadyLists]
    BY <1>2
<1> HIDE DEF ready, delayed, over, suspended, deleted
<1>6. /\ y.pxReadyTasksLists = ready /\ y.pxDelayedTaskList = delayed
      /\ y.pxOverflowDelayedTaskList = over /\ y.xSuspendedTaskList = suspended
      /\ y.xTasksWaitingTermination = deleted /\ DOMAIN y = DOMAIN x
      /\ SameTop(x, y) /\ SameEvents(x, y) /\ SameTimes(x, y) /\ SameNext(x, y) /\ SameClock(x, y)
      /\ SameRanks(x, y) /\ SameCurrent(x, y) /\ SameYield(x, y) /\ SameAsserts(x, y) /\ SameRest(x, y)
    BY DEF Mem, KernelFields, SameTop, SameEvents, SameTimes, SameNext, SameClock, SameRanks,
           SameCurrent, SameYield, SameAsserts, SameRest
<1> HIDE DEF y
<1>7. Mem(y)
    BY <1>4, <1>5, <1>6 DEF Mem, SameTop, SameEvents, SameTimes, SameNext, SameClock, SameRanks,
           SameCurrent, SameYield, SameAsserts, SameRest
<1>8. \A p \in Priorities : ReadyAt(y, p) = ReadyAt(x, p) \ {t}
    BY <1>2, <1>6 DEF ReadyAt
<1>9. Ready(y) = Ready(x) \ {t}
    BY <1>8 DEF Ready
<1>10. /\ Delayed(y) = Delayed(x) \ {t} /\ Overflowed(y) = Overflowed(x) \ {t}
       /\ Suspended(y) = Suspended(x) \ {t} /\ Deleted(y) = Deleted(x) \ {t}
    BY <1>4, <1>6 DEF Delayed, Overflowed, Suspended, Deleted
<1> QED BY <1>1, <1>4, <1>6, <1>7, <1>8, <1>9, <1>10

\* uxListRemove(&(pxTCB->xEventListItem))
LEMMA RemoveEventIs ==
    ASSUME NEW x, Mem(x), NEW t
    PROVE  LET y == RemoveEvent(x, t)
           IN  /\ Mem(y)
               /\ Pended(y) = Pended(x) \ {t} /\ Waiting(y) = Waiting(x) \ {t}
               /\ \A e \in EventLists : WaitingAt(y, e) = WaitingAt(x, e) \ {t}
               /\ SameReady(x, y) /\ SameTop(x, y) /\ SameSleep(x, y) /\ SameParked(x, y)
               /\ SameTimes(x, y) /\ SameNext(x, y) /\ SameClock(x, y)
               /\ SameRanks(x, y) /\ SameCurrent(x, y) /\ SameYield(x, y) /\ SameAsserts(x, y) /\ SameRest(x, y)
<1> DEFINE events  == [e \in EventLists |-> Without(x.xEventLists[e], t)]
           pending == Without(x.xPendingReadyList, t)
           y == [x EXCEPT !.xEventLists = events, !.xPendingReadyList = pending]
<1>1. RemoveEvent(x, t) = y
    BY DEF RemoveEvent
<1>2. ASSUME NEW s \in TaskLists
      PROVE  Without(s, t) \in TaskLists /\ Elements(Without(s, t)) = Elements(s) \ {t}
    BY WithoutIs DEF TaskLists
<1>3. pending \in TaskLists /\ Elements(pending) = Pended(x) \ {t}
    BY <1>2 DEF Mem, Pended
<1>4. ASSUME NEW e \in EventLists
      PROVE  events[e] \in TaskLists /\ Elements(events[e]) = Elements(x.xEventLists[e]) \ {t}
    <2>1. x.xEventLists[e] \in TaskLists /\ events[e] = Without(x.xEventLists[e], t)
        BY DEF Mem
    <2> HIDE DEF events
    <2> QED BY <1>2, <2>1
<1>5. events \in [EventLists -> TaskLists]
    BY <1>4
<1> HIDE DEF events, pending
<1>6. /\ y.xEventLists = events /\ y.xPendingReadyList = pending /\ DOMAIN y = DOMAIN x
      /\ SameReady(x, y) /\ SameTop(x, y) /\ SameSleep(x, y) /\ SameParked(x, y)
      /\ SameTimes(x, y) /\ SameNext(x, y) /\ SameClock(x, y)
      /\ SameRanks(x, y) /\ SameCurrent(x, y) /\ SameYield(x, y) /\ SameAsserts(x, y) /\ SameRest(x, y)
    BY DEF Mem, KernelFields, SameReady, SameTop, SameSleep, SameParked, SameTimes, SameNext, SameClock,
           SameRanks, SameCurrent, SameYield, SameAsserts, SameRest
<1> HIDE DEF y
<1>7. Mem(y)
    BY <1>3, <1>5, <1>6 DEF Mem, SameReady, SameTop, SameSleep, SameParked, SameTimes, SameNext, SameClock,
           SameRanks, SameCurrent, SameYield, SameAsserts, SameRest
<1>8. Pended(y) = Pended(x) \ {t}
    BY <1>3, <1>6 DEF Pended
<1>9. \A e \in EventLists : WaitingAt(y, e) = WaitingAt(x, e) \ {t}
    BY <1>4, <1>6 DEF WaitingAt
<1>10. Waiting(y) = Waiting(x) \ {t}
    BY <1>9 DEF Waiting
<1> QED BY <1>1, <1>6, <1>7, <1>8, <1>9, <1>10

\* A ready list that the task is not in gets it, and its bit.
LEMMA AddReadyIs ==
    ASSUME NEW x, Mem(x), NEW t \in Tasks, t \notin Ready(x)
    PROVE  LET y == prvAddTaskToReadyList(x, t)
           IN  /\ Mem(y)
               /\ \A p \in Priorities :
                    ReadyAt(y, p) = IF p = x.uxPriority[t] THEN ReadyAt(x, p) \cup {t} ELSE ReadyAt(x, p)
               /\ Ready(y) = Ready(x) \cup {t}
               /\ y.uxTopReadyPriority = x.uxTopReadyPriority \cup {x.uxPriority[t]}
               /\ SameSleep(x, y) /\ SameParked(x, y) /\ SameEvents(x, y)
               /\ SameTimes(x, y) /\ SameNext(x, y) /\ SameClock(x, y)
               /\ SameRanks(x, y) /\ SameCurrent(x, y) /\ SameYield(x, y) /\ SameAsserts(x, y) /\ SameRest(x, y)
<1> DEFINE P     == x.uxPriority[t]
           old   == x.pxReadyTasksLists
           new   == vListInsertEnd(old[P], t)
           ready == [old EXCEPT ![P] = new]
           top   == x.uxTopReadyPriority \cup {P}
           y == [x EXCEPT !.uxTopReadyPriority = top, !.pxReadyTasksLists = ready]
<1>1. P \in Priorities /\ old \in [Priorities -> ReadyLists]
    BY DEF Mem
<1>2. prvAddTaskToReadyList(x, t) = y
    <2>1. prvAddTaskToReadyList(x, t) =
              [x EXCEPT !.uxTopReadyPriority = top, !.pxReadyTasksLists[P] = new]
        BY DEF prvAddTaskToReadyList
    <2> HIDE DEF new, top
    <2> QED BY <2>1
<1>3. new \in ReadyLists /\ Elements(new.items) = Elements(old[P].items) \cup {t}
    <2>1. GoodReady(Tasks, old[P])
        BY <1>1 DEF ReadyLists
    <2>2. t \notin Elements(old[P].items)
        BY <1>1 DEF Ready, ReadyAt
    <2> HIDE DEF old, P
    <2>3. GoodReady(Tasks, new) /\ Elements(new.items) = Elements(old[P].items) \cup {t}
        BY <2>1, <2>2, ReadyInsertIs
    <2> QED BY <2>3 DEF ReadyLists, GoodReady
<1> HIDE DEF new
<1>4. \A p \in Priorities : ready[p] = IF p = P THEN new ELSE old[p]
    BY <1>1
<1>5. ready \in [Priorities -> ReadyLists]
    <2> HIDE DEF old, P
    <2> QED BY <1>1, <1>3
<1>6. top \subseteq Priorities
    BY <1>1 DEF Mem
<1> HIDE DEF ready, top
<1>7. /\ y.pxReadyTasksLists = ready /\ y.uxTopReadyPriority = top /\ DOMAIN y = DOMAIN x
      /\ SameSleep(x, y) /\ SameParked(x, y) /\ SameEvents(x, y)
      /\ SameTimes(x, y) /\ SameNext(x, y) /\ SameClock(x, y)
      /\ SameRanks(x, y) /\ SameCurrent(x, y) /\ SameYield(x, y) /\ SameAsserts(x, y) /\ SameRest(x, y)
    BY DEF Mem, KernelFields, SameSleep, SameParked, SameEvents, SameTimes, SameNext, SameClock,
           SameRanks, SameCurrent, SameYield, SameAsserts, SameRest
<1> HIDE DEF y
<1>8. Mem(y)
    BY <1>5, <1>6, <1>7 DEF Mem, SameSleep, SameParked, SameEvents, SameTimes, SameNext, SameClock,
           SameRanks, SameCurrent, SameYield, SameAsserts, SameRest
<1>9. \A p \in Priorities : ReadyAt(y, p) = IF p = P THEN ReadyAt(x, p) \cup {t} ELSE ReadyAt(x, p)
    BY <1>3, <1>4, <1>7 DEF ReadyAt
<1>10. Ready(y) = Ready(x) \cup {t}
    BY <1>1, <1>9 DEF Ready
<1> QED BY <1>2, <1>7, <1>8, <1>9, <1>10 DEF top, P

\* The bit of a list that is empty goes.
LEMMA ResetReadyIs ==
    ASSUME NEW x, Mem(x), NEW p \in Priorities
    PROVE  LET y == taskRESET_READY_PRIORITY(x, p)
           IN  /\ Mem(y)
               /\ y.uxTopReadyPriority = IF ReadyAt(x, p) = {} THEN x.uxTopReadyPriority \ {p}
                                         ELSE x.uxTopReadyPriority
               /\ SameReady(x, y) /\ SameSleep(x, y) /\ SameParked(x, y) /\ SameEvents(x, y)
               /\ SameTimes(x, y) /\ SameNext(x, y) /\ SameClock(x, y)
               /\ SameRanks(x, y) /\ SameCurrent(x, y) /\ SameYield(x, y) /\ SameAsserts(x, y) /\ SameRest(x, y)
<1> DEFINE top == x.uxTopReadyPriority \ {p}
           y   == [x EXCEPT !.uxTopReadyPriority = top]
<1>1. listCURRENT_LIST_LENGTH(x.pxReadyTasksLists[p]) = 0 <=> ReadyAt(x, p) = {}
    <2>1. x.pxReadyTasksLists[p].items \in Seq(Tasks)
        BY DEF Mem, ReadyLists
    <2> DEFINE s == x.pxReadyTasksLists[p].items
    <2> HIDE DEF s
    <2>2. Len(s) = 0 <=> Elements(s) = {}
        <3>1. Len(s) \in Nat /\ DOMAIN s = 1 .. Len(s)
            BY <2>1 DEF s
        <3>2. Len(s) # 0 => 1 \in DOMAIN s
            BY <3>1
        <3>3. Len(s) = 0 => DOMAIN s = {}
            BY <3>1
        <3> QED BY <3>2, <3>3 DEF Elements
    <2> QED BY <2>2 DEF s, ReadyAt, listCURRENT_LIST_LENGTH
<1>2. taskRESET_READY_PRIORITY(x, p) = IF ReadyAt(x, p) = {} THEN y ELSE x
    BY <1>1 DEF taskRESET_READY_PRIORITY
<1>3. top \subseteq Priorities
    BY DEF Mem
<1> HIDE DEF top
<1>4. /\ y.uxTopReadyPriority = top /\ DOMAIN y = DOMAIN x
      /\ SameReady(x, y) /\ SameSleep(x, y) /\ SameParked(x, y) /\ SameEvents(x, y)
      /\ SameTimes(x, y) /\ SameNext(x, y) /\ SameClock(x, y)
      /\ SameRanks(x, y) /\ SameCurrent(x, y) /\ SameYield(x, y) /\ SameAsserts(x, y) /\ SameRest(x, y)
    BY DEF Mem, KernelFields, SameReady, SameSleep, SameParked, SameEvents, SameTimes, SameNext, SameClock,
           SameRanks, SameCurrent, SameYield, SameAsserts, SameRest
<1> HIDE DEF y
<1>5. Mem(y)
    BY <1>3, <1>4 DEF Mem, SameReady, SameSleep, SameParked, SameEvents, SameTimes, SameNext, SameClock,
           SameRanks, SameCurrent, SameYield, SameAsserts, SameRest
<1>6. CASE ReadyAt(x, p) = {}
    BY <1>2, <1>4, <1>5, <1>6 DEF top
<1>7. CASE ReadyAt(x, p) # {}
    BY <1>2, <1>7 DEF SameReady, SameSleep, SameParked, SameEvents, SameTimes, SameNext, SameClock,
           SameRanks, SameCurrent, SameYield, SameAsserts, SameRest
<1> QED BY <1>6, <1>7

\* The next unblock time is that of the head of the delayed list.
LEMMA ResetNextIs ==
    ASSUME NEW x, Mem(x)
    PROVE  LET y == prvResetNextTaskUnblockTime(x)
           IN  /\ Mem(y)
               /\ SortedBy(x.pxDelayedTaskList, x.xItemValue) =>
                    \A t \in Delayed(x) : y.xNextTaskUnblockTime <= x.xItemValue[t]
               /\ SameReady(x, y) /\ SameTop(x, y) /\ SameSleep(x, y) /\ SameParked(x, y) /\ SameEvents(x, y)
               /\ SameTimes(x, y) /\ SameClock(x, y)
               /\ SameRanks(x, y) /\ SameCurrent(x, y) /\ SameYield(x, y) /\ SameAsserts(x, y) /\ SameRest(x, y)
<1> DEFINE s    == x.pxDelayedTaskList
           next == IF s = <<>> THEN portMAX_DELAY ELSE x.xItemValue[Head(s)]
           y    == [x EXCEPT !.xNextTaskUnblockTime = next]
<1>1. prvResetNextTaskUnblockTime(x) = y
    BY DEF prvResetNextTaskUnblockTime
<1>2. s \in Seq(Tasks) /\ x.xItemValue \in [Tasks -> Ticks]
    BY DEF Mem, TaskLists
<1>3. s # <<>> => Head(s) \in Tasks /\ 1 \in DOMAIN s /\ s[1] = Head(s)
    <2> HIDE DEF s
    <2> QED BY <1>2
<1>4. next \in Ticks
    BY <1>2, <1>3, Numbers
<1>5. ASSUME SortedBy(s, x.xItemValue), NEW t \in Delayed(x) PROVE next <= x.xItemValue[t]
    <2>1. PICK i \in DOMAIN s : s[i] = t
        BY <1>5 DEF Delayed, Elements
    <2>2. s # <<>> /\ i \in Nat /\ i >= 1 /\ t \in Tasks
        <3> HIDE DEF s
        <3> QED BY <1>2, <2>1
    <2>3. x.xItemValue[t] \in Nat
        BY <1>2, <2>2, Numbers DEF Ticks
    <2>4. next = x.xItemValue[s[1]]
        BY <1>3, <2>2
    <2>5. CASE i = 1
        BY <2>1, <2>3, <2>4, <2>5
    <2>6. CASE 1 < i
        <3> HIDE DEF s, next
        <3> QED BY <1>3, <1>5, <2>1, <2>2, <2>4, <2>6 DEF SortedBy
    <2> QED BY <2>2, <2>5, <2>6
<1> HIDE DEF next
<1>6. /\ y.xNextTaskUnblockTime = next /\ DOMAIN y = DOMAIN x
      /\ SameReady(x, y) /\ SameTop(x, y) /\ SameSleep(x, y) /\ SameParked(x, y) /\ SameEvents(x, y)
      /\ SameTimes(x, y) /\ SameClock(x, y)
      /\ SameRanks(x, y) /\ SameCurrent(x, y) /\ SameYield(x, y) /\ SameAsserts(x, y) /\ SameRest(x, y)
    BY DEF Mem, KernelFields, SameReady, SameTop, SameSleep, SameParked, SameEvents, SameTimes, SameClock,
           SameRanks, SameCurrent, SameYield, SameAsserts, SameRest
<1> HIDE DEF y
<1>7. Mem(y)
    BY <1>4, <1>6 DEF Mem, SameReady, SameTop, SameSleep, SameParked, SameEvents, SameTimes, SameClock,
           SameRanks, SameCurrent, SameYield, SameAsserts, SameRest
<1> QED BY <1>1, <1>5, <1>6, <1>7

-----------------------------------------------------------------------------
(* Moving a task between lists. *)

\* A task leaves the state list it is in.
LEMMA RemoveStateKeeps ==
    ASSUME NEW x, NEW out, NEW loose, NEW least, Sound(x, out, loose, least), NEW t \in Tasks, t \notin Deleted(x)
    PROVE  LET y == RemoveState(x, t)
           IN  /\ Sound(y, out \cup {t}, loose \cup {x.uxPriority[t]}, least)
               /\ t \notin Ready(x) => Sound(y, out \cup {t}, loose, least)
               /\ Ready(y) = Ready(x) \ {t} /\ Delayed(y) = Delayed(x) \ {t}
               /\ Overflowed(y) = Overflowed(x) \ {t} /\ Suspended(y) = Suspended(x) \ {t}
               /\ SameEvents(x, y) /\ SameTop(x, y) /\ SameNext(x, y) /\ Kept(x, y)
<1> DEFINE y == RemoveState(x, t)
<1>1. Mem(x) /\ Homes(x, out) /\ Ranked(x) /\ Bits(x, loose) /\ Apart(x) /\ Times(x, least)
    BY DEF Sound
<1>2. /\ Mem(y)
      /\ \A p \in Priorities : ReadyAt(y, p) = ReadyAt(x, p) \ {t}
      /\ Ready(y) = Ready(x) \ {t} /\ Delayed(y) = Delayed(x) \ {t}
      /\ Overflowed(y) = Overflowed(x) \ {t} /\ Suspended(y) = Suspended(x) \ {t}
      /\ Deleted(y) = Deleted(x) \ {t}
      /\ t \notin Deleted(x) => y.xTasksWaitingTermination = x.xTasksWaitingTermination
      /\ \A v \in [Tasks -> Int] :
           /\ SortedBy(x.pxDelayedTaskList, v) => SortedBy(y.pxDelayedTaskList, v)
           /\ SortedBy(x.pxOverflowDelayedTaskList, v) => SortedBy(y.pxOverflowDelayedTaskList, v)
      /\ SameTop(x, y) /\ SameEvents(x, y) /\ SameTimes(x, y) /\ SameNext(x, y) /\ SameClock(x, y)
      /\ SameRanks(x, y) /\ SameCurrent(x, y) /\ SameYield(x, y) /\ SameAsserts(x, y) /\ SameRest(x, y)
    BY <1>1, RemoveStateIs
<1> HIDE DEF y
<1>3. Kept(x, y)
    BY <1>2 DEF Kept
<1>4. Homes(y, out \cup {t})
    BY <1>1, <1>2 DEF Homes, SameRest
<1>5. Ranked(y)
    BY <1>1, <1>2 DEF Ranked, SameRanks
<1>6. \A p \in Priorities : t \in ReadyAt(x, p) => p = x.uxPriority[t] /\ t \in Ready(x)
    BY <1>1 DEF Ranked, Ready
<1>7. Bits(y, loose \cup {x.uxPriority[t]})
    BY <1>1, <1>2, <1>6 DEF Bits, SameTop
<1>8. t \notin Ready(x) => Bits(y, loose)
    BY <1>1, <1>2, <1>6 DEF Bits, SameTop
<1>9. Apart(y)
    BY <1>1, <1>2 DEF Apart, SameEvents, SameRest, Pended, Waiting, WaitingAt
<1>10. Times(y, least)
    <2>1. x.xItemValue \in [Tasks -> Int]
        BY <1>1, Numbers DEF Mem, Ticks
    <2> QED BY <1>1, <1>2, <2>1 DEF Times, Until, SameTimes, SameClock, SameNext
<1> QED BY <1>2, <1>3, <1>4, <1>5, <1>7, <1>8, <1>9, <1>10 DEF Sound, y

\* A task in no state list becomes ready.
LEMMA AddReadyKeeps ==
    ASSUME NEW x, NEW out, NEW loose, NEW least, Sound(x, out, loose, least), NEW t \in out, t \in x.allocated
    PROVE  LET y == prvAddTaskToReadyList(x, t)
           IN  /\ Sound(y, out \ {t}, loose \ {x.uxPriority[t]}, least)
               /\ Ready(y) = Ready(x) \cup {t}
               /\ SameSleep(x, y) /\ SameParked(x, y) /\ SameEvents(x, y) /\ SameNext(x, y) /\ Kept(x, y)
<1> DEFINE y == prvAddTaskToReadyList(x, t)
<1>1. Mem(x) /\ Homes(x, out) /\ Ranked(x) /\ Bits(x, loose) /\ Apart(x) /\ Times(x, least)
    BY DEF Sound
<1>2. t \in Tasks /\ t \notin Ready(x) /\ t \notin Delayed(x) /\ t \notin Overflowed(x) /\ t \notin Suspended(x)
      /\ t \notin Deleted(x)
    BY <1>1 DEF Homes, Mem
<1>3. /\ Mem(y)
      /\ \A p \in Priorities :
           ReadyAt(y, p) = IF p = x.uxPriority[t] THEN ReadyAt(x, p) \cup {t} ELSE ReadyAt(x, p)
      /\ Ready(y) = Ready(x) \cup {t}
      /\ y.uxTopReadyPriority = x.uxTopReadyPriority \cup {x.uxPriority[t]}
      /\ SameSleep(x, y) /\ SameParked(x, y) /\ SameEvents(x, y)
      /\ SameTimes(x, y) /\ SameNext(x, y) /\ SameClock(x, y)
      /\ SameRanks(x, y) /\ SameCurrent(x, y) /\ SameYield(x, y) /\ SameAsserts(x, y) /\ SameRest(x, y)
    BY <1>1, <1>2, AddReadyIs
<1> HIDE DEF y
<1>4. Kept(x, y)
    BY <1>3 DEF Kept, SameParked
<1>5. /\ Delayed(y) = Delayed(x) /\ Overflowed(y) = Overflowed(x) /\ Suspended(y) = Suspended(x)
      /\ Deleted(y) = Deleted(x)
    BY <1>3 DEF SameSleep, SameParked, Delayed, Overflowed, Suspended, Deleted
<1>6. Homes(y, out \ {t})
    BY <1>1, <1>2, <1>3, <1>5 DEF Homes, SameRest
<1>7. Ranked(y)
    BY <1>1, <1>3 DEF Ranked, SameRanks
<1>8. Bits(y, loose \ {x.uxPriority[t]})
    BY <1>1, <1>3 DEF Bits
<1>9. Apart(y)
    BY <1>1, <1>3, <1>5 DEF Apart, SameEvents, SameRest, Pended, Waiting, WaitingAt
<1>10. Times(y, least)
    BY <1>1, <1>3, <1>5 DEF Times, Until, SameTimes, SameClock, SameNext, SameSleep
<1> QED BY <1>3, <1>4, <1>6, <1>7, <1>8, <1>9, <1>10 DEF Sound, y

\* The event item leaves its list.
LEMMA RemoveEventKeeps ==
    ASSUME NEW x, NEW out, NEW loose, NEW least, Sound(x, out, loose, least), NEW t
    PROVE  LET y == RemoveEvent(x, t)
           IN  /\ Sound(y, out, loose, least)
               /\ Pended(y) = Pended(x) \ {t} /\ Waiting(y) = Waiting(x) \ {t}
               /\ SameReady(x, y) /\ SameTop(x, y) /\ SameSleep(x, y) /\ SameParked(x, y) /\ SameNext(x, y)
               /\ Kept(x, y)
<1> DEFINE y == RemoveEvent(x, t)
<1>1. Mem(x) /\ Homes(x, out) /\ Ranked(x) /\ Bits(x, loose) /\ Apart(x) /\ Times(x, least)
    BY DEF Sound
<1>2. /\ Mem(y)
      /\ Pended(y) = Pended(x) \ {t} /\ Waiting(y) = Waiting(x) \ {t}
      /\ \A e \in EventLists : WaitingAt(y, e) = WaitingAt(x, e) \ {t}
      /\ SameReady(x, y) /\ SameTop(x, y) /\ SameSleep(x, y) /\ SameParked(x, y)
      /\ SameTimes(x, y) /\ SameNext(x, y) /\ SameClock(x, y)
      /\ SameRanks(x, y) /\ SameCurrent(x, y) /\ SameYield(x, y) /\ SameAsserts(x, y) /\ SameRest(x, y)
    BY <1>1, RemoveEventIs
<1> HIDE DEF y
<1>3. Kept(x, y)
    BY <1>2 DEF Kept, SameParked
<1>4. /\ \A p \in Priorities : ReadyAt(y, p) = ReadyAt(x, p)
      /\ Ready(y) = Ready(x) /\ Delayed(y) = Delayed(x) /\ Overflowed(y) = Overflowed(x)
      /\ Suspended(y) = Suspended(x) /\ Deleted(y) = Deleted(x)
    BY <1>2 DEF SameReady, SameSleep, SameParked, ReadyAt, Ready, Delayed, Overflowed, Suspended, Deleted
<1>5. Homes(y, out) /\ Ranked(y) /\ Bits(y, loose)
    BY <1>1, <1>2, <1>4 DEF Homes, Ranked, Bits, SameRest, SameRanks, SameTop
<1>6. Apart(y)
    BY <1>1, <1>2, <1>4 DEF Apart, SameRest
<1>7. Times(y, least)
    BY <1>1, <1>2, <1>4 DEF Times, Until, SameTimes, SameClock, SameNext, SameSleep
<1> QED BY <1>2, <1>3, <1>5, <1>6, <1>7 DEF Sound, y

\* The bits that may be stale are those in loose.
LEMMA ResetReadyKeeps ==
    ASSUME NEW x, NEW out, NEW loose, NEW least, Sound(x, out, loose, least), NEW p \in Priorities
    PROVE  LET y == taskRESET_READY_PRIORITY(x, p)
           IN  /\ Sound(y, out, loose \ {p}, least)
               /\ SameReady(x, y) /\ SameSleep(x, y) /\ SameParked(x, y) /\ SameEvents(x, y) /\ SameNext(x, y)
               /\ Kept(x, y)
<1> DEFINE y == taskRESET_READY_PRIORITY(x, p)
<1>1. Mem(x) /\ Homes(x, out) /\ Ranked(x) /\ Bits(x, loose) /\ Apart(x) /\ Times(x, least)
    BY DEF Sound
<1>2. /\ Mem(y)
      /\ y.uxTopReadyPriority = IF ReadyAt(x, p) = {} THEN x.uxTopReadyPriority \ {p}
                                ELSE x.uxTopReadyPriority
      /\ SameReady(x, y) /\ SameSleep(x, y) /\ SameParked(x, y) /\ SameEvents(x, y)
      /\ SameTimes(x, y) /\ SameNext(x, y) /\ SameClock(x, y)
      /\ SameRanks(x, y) /\ SameCurrent(x, y) /\ SameYield(x, y) /\ SameAsserts(x, y) /\ SameRest(x, y)
    BY <1>1, ResetReadyIs
<1> HIDE DEF y
<1>3. Kept(x, y)
    BY <1>2 DEF Kept, SameParked
<1>4. /\ \A q \in Priorities : ReadyAt(y, q) = ReadyAt(x, q)
      /\ Ready(y) = Ready(x) /\ Delayed(y) = Delayed(x) /\ Overflowed(y) = Overflowed(x)
      /\ Suspended(y) = Suspended(x) /\ Deleted(y) = Deleted(x)
    BY <1>2 DEF SameReady, SameSleep, SameParked, ReadyAt, Ready, Delayed, Overflowed, Suspended, Deleted
<1>5. Homes(y, out) /\ Ranked(y)
    BY <1>1, <1>2, <1>4 DEF Homes, Ranked, SameRest, SameRanks
<1>6. Bits(y, loose \ {p})
    BY <1>1, <1>2, <1>4 DEF Bits
<1>7. Apart(y)
    BY <1>1, <1>2, <1>4 DEF Apart, SameRest, SameEvents, Pended, Waiting, WaitingAt
<1>8. Times(y, least)
    BY <1>1, <1>2, <1>4 DEF Times, Until, SameTimes, SameClock, SameNext, SameSleep
<1> QED BY <1>2, <1>3, <1>5, <1>6, <1>7, <1>8 DEF Sound, y

-----------------------------------------------------------------------------
(* Steps that move nobody. *)

\* The lists, the bits and the times are the same.
Alike(x, y) ==
    /\ SameReady(x, y) /\ SameTop(x, y) /\ SameSleep(x, y) /\ SameParked(x, y) /\ SameEvents(x, y)
    /\ SameTimes(x, y) /\ SameNext(x, y) /\ SameClock(x, y) /\ SameRanks(x, y)
    /\ y.xSchedulerRunning = x.xSchedulerRunning /\ y.allocated = x.allocated
    /\ y.uxDeletedTasksWaitingCleanUp = x.uxDeletedTasksWaitingCleanUp

SameViews(x, y) ==
    /\ \A p \in Priorities : ReadyAt(y, p) = ReadyAt(x, p)
    /\ Ready(y) = Ready(x) /\ Delayed(y) = Delayed(x) /\ Overflowed(y) = Overflowed(x)
    /\ Suspended(y) = Suspended(x) /\ Deleted(y) = Deleted(x)
    /\ Pended(y) = Pended(x) /\ Waiting(y) = Waiting(x)

LEMMA AlikeViews ==
    ASSUME NEW x, NEW y, SameReady(x, y), SameSleep(x, y), SameParked(x, y), SameEvents(x, y)
    PROVE  SameViews(x, y)
BY DEF SameReady, SameSleep, SameParked, SameEvents, SameViews, ReadyAt, Ready, Delayed, Overflowed,
       Suspended, Deleted, Pended, Waiting, WaitingAt

LEMMA AlikeKeeps ==
    ASSUME NEW x, NEW y, NEW out, NEW loose, NEW least, Sound(x, out, loose, least), Alike(x, y), Mem(y)
    PROVE  Sound(y, out, loose, least) /\ SameViews(x, y)
<1>1. Mem(x) /\ Homes(x, out) /\ Ranked(x) /\ Bits(x, loose) /\ Apart(x) /\ Times(x, least)
    BY DEF Sound
<1>2. SameViews(x, y)
    BY AlikeViews DEF Alike
<1>3. Homes(y, out) /\ Ranked(y) /\ Bits(y, loose)
    BY <1>1, <1>2 DEF Homes, Ranked, Bits, Alike, SameViews, SameRanks, SameTop
<1>4. Apart(y)
    BY <1>1, <1>2 DEF Apart, Alike, SameViews, SameEvents, WaitingAt
<1>5. Times(y, least)
    BY <1>1, <1>2 DEF Times, Until, Alike, SameViews, SameTimes, SameClock, SameNext, SameSleep
<1> QED BY <1>2, <1>3, <1>4, <1>5 DEF Sound

\* A failed configASSERT leaves everything but its name.
LEMMA AssertIs ==
    ASSUME NEW x, Mem(x), NEW holds, NEW what
    PROVE  LET y == configASSERT(x, holds, what)
           IN  /\ Mem(y) /\ Alike(x, y) /\ SameCurrent(x, y) /\ SameYield(x, y) /\ SameRest(x, y)
               /\ holds => y = x
               /\ y.asserts = {} => holds
<1> DEFINE z == [x EXCEPT !.asserts = x.asserts \cup {what}]
<1>1. configASSERT(x, holds, what) = IF holds THEN x ELSE z
    BY DEF configASSERT
<1>2. /\ z.asserts = x.asserts \cup {what} /\ DOMAIN z = DOMAIN x
      /\ SameReady(x, z) /\ SameTop(x, z) /\ SameSleep(x, z) /\ SameParked(x, z) /\ SameEvents(x, z)
      /\ SameTimes(x, z) /\ SameNext(x, z) /\ SameClock(x, z) /\ SameRanks(x, z)
      /\ SameCurrent(x, z) /\ SameYield(x, z) /\ SameRest(x, z)
    BY DEF Mem, KernelFields, SameReady, SameTop, SameSleep, SameParked, SameEvents, SameTimes, SameNext,
           SameClock, SameRanks, SameCurrent, SameYield, SameRest
<1> HIDE DEF z
<1>3. Mem(z)
    BY <1>2 DEF Mem, SameReady, SameTop, SameSleep, SameParked, SameEvents, SameTimes, SameNext,
           SameClock, SameRanks, SameCurrent, SameYield, SameRest
<1>4. CASE holds
    BY <1>1, <1>4 DEF Alike, SameReady, SameTop, SameSleep, SameParked, SameEvents, SameTimes, SameNext,
           SameClock, SameRanks, SameCurrent, SameYield, SameRest
<1>5. CASE ~holds
    BY <1>1, <1>2, <1>3, <1>5 DEF Alike, SameRest
<1> QED BY <1>4, <1>5

\* The fields no list depends on.
Asking(x, b)       == [x EXCEPT !.xYieldPending = b]
Choosing(x, l, t)  == [x EXCEPT !.pxReadyTasksLists = l, !.pxCurrentTCB = t]
Suspending(x, n, m) == [x EXCEPT !.uxSchedulerSuspended = n, !.xPendedTicks = m]

LEMMA YieldSetIs ==
    ASSUME NEW x, Mem(x), NEW b \in BOOLEAN
    PROVE  LET y == Asking(x, b)
           IN  /\ Mem(y) /\ Alike(x, y) /\ SameCurrent(x, y) /\ SameRest(x, y) /\ SameAsserts(x, y)
               /\ y.xYieldPending = b
<1> DEFINE y == Asking(x, b)
<1>1. /\ y.xYieldPending = b /\ DOMAIN y = DOMAIN x
      /\ SameReady(x, y) /\ SameTop(x, y) /\ SameSleep(x, y) /\ SameParked(x, y) /\ SameEvents(x, y)
      /\ SameTimes(x, y) /\ SameNext(x, y) /\ SameClock(x, y) /\ SameRanks(x, y)
      /\ SameCurrent(x, y) /\ SameAsserts(x, y) /\ SameRest(x, y)
    BY DEF Asking, Mem, KernelFields, SameReady, SameTop, SameSleep, SameParked, SameEvents, SameTimes, SameNext,
           SameClock, SameRanks, SameCurrent, SameAsserts, SameRest
<1> HIDE DEF y
<1>2. Mem(y)
    BY <1>1 DEF Mem, SameReady, SameTop, SameSleep, SameParked, SameEvents, SameTimes, SameNext,
           SameClock, SameRanks, SameCurrent, SameRest
<1> QED BY <1>1, <1>2 DEF Alike, SameRest, y

LEMMA CurrentSetIs ==
    ASSUME NEW x, Mem(x), NEW l \in [Priorities -> ReadyLists], NEW t \in Tasks,
           \A p \in Priorities : l[p].items = x.pxReadyTasksLists[p].items
    PROVE  LET y == Choosing(x, l, t)
           IN  /\ Mem(y) /\ y.pxCurrentTCB = t /\ \A p \in Priorities : ReadyAt(y, p) = ReadyAt(x, p)
               /\ SameTop(x, y) /\ SameSleep(x, y) /\ SameParked(x, y) /\ SameEvents(x, y)
               /\ SameTimes(x, y) /\ SameNext(x, y) /\ SameClock(x, y) /\ SameRanks(x, y)
               /\ SameYield(x, y) /\ SameAsserts(x, y) /\ SameRest(x, y)
<1> DEFINE y == Choosing(x, l, t)
<1>1. /\ y.pxCurrentTCB = t /\ y.pxReadyTasksLists = l /\ DOMAIN y = DOMAIN x
      /\ SameTop(x, y) /\ SameSleep(x, y) /\ SameParked(x, y) /\ SameEvents(x, y)
      /\ SameTimes(x, y) /\ SameNext(x, y) /\ SameClock(x, y) /\ SameRanks(x, y)
      /\ SameYield(x, y) /\ SameAsserts(x, y) /\ SameRest(x, y)
    BY DEF Choosing, Mem, KernelFields, SameTop, SameSleep, SameParked, SameEvents, SameTimes, SameNext,
           SameClock, SameRanks, SameYield, SameAsserts, SameRest
<1> HIDE DEF y
<1>2. Mem(y)
    BY <1>1 DEF Mem, SameTop, SameSleep, SameParked, SameEvents, SameTimes, SameNext,
           SameClock, SameRanks, SameYield, SameRest
<1>3. \A p \in Priorities : ReadyAt(y, p) = ReadyAt(x, p)
    BY <1>1 DEF ReadyAt
<1> QED BY <1>1, <1>2, <1>3 DEF y

LEMMA SuspendedSetIs ==
    ASSUME NEW x, Mem(x), NEW n \in Nat, NEW m \in Nat
    PROVE  LET y == Suspending(x, n, m)
           IN  /\ Mem(y) /\ Alike(x, y) /\ SameCurrent(x, y) /\ SameYield(x, y) /\ SameAsserts(x, y)
               /\ y.uxSchedulerSuspended = n /\ y.xPendedTicks = m
<1> DEFINE y == Suspending(x, n, m)
<1>1. /\ y.uxSchedulerSuspended = n /\ y.xPendedTicks = m /\ DOMAIN y = DOMAIN x
      /\ SameReady(x, y) /\ SameTop(x, y) /\ SameSleep(x, y) /\ SameParked(x, y) /\ SameEvents(x, y)
      /\ SameTimes(x, y) /\ SameNext(x, y) /\ SameClock(x, y) /\ SameRanks(x, y)
      /\ SameCurrent(x, y) /\ SameYield(x, y) /\ SameAsserts(x, y)
      /\ y.xSchedulerRunning = x.xSchedulerRunning /\ y.allocated = x.allocated
      /\ y.uxDeletedTasksWaitingCleanUp = x.uxDeletedTasksWaitingCleanUp
    BY DEF Suspending, Mem, KernelFields, SameReady, SameTop, SameSleep, SameParked, SameEvents, SameTimes, SameNext,
           SameClock, SameRanks, SameCurrent, SameYield, SameAsserts
<1> HIDE DEF y
<1>2. Mem(y)
    BY <1>1 DEF Mem, SameReady, SameTop, SameSleep, SameParked, SameEvents, SameTimes, SameNext,
           SameClock, SameRanks, SameCurrent, SameYield
<1> QED BY <1>1, <1>2 DEF Alike, y

\* The counts, the notifications and the event values: no list depends on them.
LEMMA OtherSetIs ==
    ASSUME NEW x, Mem(x), NEW y, DOMAIN y = DOMAIN x, Alike(x, y),
           SameCurrent(x, y), SameYield(x, y), SameAsserts(x, y), SameRest(x, y)
    PROVE  Mem(y)
BY DEF Alike, Mem, SameReady, SameTop, SameSleep, SameParked, SameEvents, SameTimes, SameNext,
       SameClock, SameRanks, SameCurrent, SameYield, SameRest

-----------------------------------------------------------------------------
(* Becoming ready, and going to sleep. *)

\* A task leaves its state list and becomes ready.
LEMMA ResumedKeeps ==
    ASSUME NEW x, NEW least, Sound(x, {}, {}, least), NEW t \in x.allocated, t \notin Deleted(x)
    PROVE  LET y == prvAddTaskToReadyList(RemoveState(x, t), t)
           IN  /\ Sound(y, {}, {}, least)
               /\ Ready(y) = Ready(x) \cup {t} /\ Delayed(y) = Delayed(x) \ {t}
               /\ Overflowed(y) = Overflowed(x) \ {t} /\ Suspended(y) = Suspended(x) \ {t}
               /\ SameEvents(x, y) /\ SameNext(x, y) /\ Kept(x, y)
<1> DEFINE z == RemoveState(x, t)
           y == prvAddTaskToReadyList(z, t)
<1>1. t \in Tasks
    BY DEF Sound, Mem
<1>2. /\ Sound(z, {} \cup {t}, {} \cup {x.uxPriority[t]}, least)
      /\ Ready(z) = Ready(x) \ {t} /\ Delayed(z) = Delayed(x) \ {t}
      /\ Overflowed(z) = Overflowed(x) \ {t} /\ Suspended(z) = Suspended(x) \ {t}
      /\ SameEvents(x, z) /\ SameNext(x, z) /\ Kept(x, z)
    BY <1>1, RemoveStateKeeps
<1> HIDE DEF z
<1>3. z.uxPriority = x.uxPriority /\ z.allocated = x.allocated
    BY <1>2 DEF Kept, SameRanks, SameRest
<1>4. Sound(z, {t}, {x.uxPriority[t]}, least)
    BY <1>2
<1>5. /\ Sound(y, {t} \ {t}, {x.uxPriority[t]} \ {z.uxPriority[t]}, least)
      /\ Ready(y) = Ready(z) \cup {t}
      /\ SameSleep(z, y) /\ SameParked(z, y) /\ SameEvents(z, y) /\ SameNext(z, y) /\ Kept(z, y)
    BY <1>3, <1>4, AddReadyKeeps
<1> HIDE DEF y
<1>6. {t} \ {t} = {} /\ {x.uxPriority[t]} \ {z.uxPriority[t]} = {}
    BY <1>3
<1>7. Sound(y, {}, {}, least)
    BY <1>5, <1>6
<1>8. Kept(x, y) /\ SameEvents(x, y) /\ SameNext(x, y)
    BY <1>2, <1>5 DEF Kept, SameEvents, SameNext, SameTimes, SameClock, SameRanks, SameCurrent, SameYield,
           SameAsserts, SameRest
<1>9. /\ Ready(y) = Ready(x) \cup {t} /\ Delayed(y) = Delayed(x) \ {t}
      /\ Overflowed(y) = Overflowed(x) \ {t} /\ Suspended(y) = Suspended(x) \ {t}
    BY <1>2, <1>5 DEF SameSleep, SameParked, Delayed, Overflowed, Suspended
<1> QED BY <1>7, <1>8, <1>9 DEF y, z

\* A task leaves both its lists and becomes ready.
LEMMA UnblockKeeps ==
    ASSUME NEW x, NEW least, Sound(x, {}, {}, least), NEW t \in x.allocated, t \notin Deleted(x)
    PROVE  LET y == Unblock(x, t)
           IN  /\ Sound(y, {}, {}, least)
               /\ Ready(y) = Ready(x) \cup {t} /\ Delayed(y) = Delayed(x) \ {t}
               /\ Overflowed(y) = Overflowed(x) \ {t} /\ Suspended(y) = Suspended(x) \ {t}
               /\ Pended(y) = Pended(x) \ {t} /\ Waiting(y) = Waiting(x) \ {t}
               /\ SameNext(x, y) /\ Kept(x, y)
<1> DEFINE z == RemoveState(x, t)
           w == RemoveEvent(z, t)
           y == prvAddTaskToReadyList(w, t)
<1>1. t \in Tasks
    BY DEF Sound, Mem
<1>2. /\ Sound(z, {} \cup {t}, {} \cup {x.uxPriority[t]}, least)
      /\ Ready(z) = Ready(x) \ {t} /\ Delayed(z) = Delayed(x) \ {t}
      /\ Overflowed(z) = Overflowed(x) \ {t} /\ Suspended(z) = Suspended(x) \ {t}
      /\ SameEvents(x, z) /\ SameNext(x, z) /\ Kept(x, z)
    BY <1>1, RemoveStateKeeps
<1> HIDE DEF z
<1>3. Sound(z, {t}, {x.uxPriority[t]}, least)
    BY <1>2
<1>4. /\ Sound(w, {t}, {x.uxPriority[t]}, least)
      /\ Pended(w) = Pended(z) \ {t} /\ Waiting(w) = Waiting(z) \ {t}
      /\ SameReady(z, w) /\ SameSleep(z, w) /\ SameParked(z, w) /\ SameNext(z, w) /\ Kept(z, w)
    BY <1>3, RemoveEventKeeps
<1> HIDE DEF w
<1>5. w.uxPriority = x.uxPriority /\ w.allocated = x.allocated
    BY <1>2, <1>4 DEF Kept, SameRanks, SameRest
<1>6. /\ Sound(y, {t} \ {t}, {x.uxPriority[t]} \ {w.uxPriority[t]}, least)
      /\ Ready(y) = Ready(w) \cup {t}
      /\ SameSleep(w, y) /\ SameParked(w, y) /\ SameEvents(w, y) /\ SameNext(w, y) /\ Kept(w, y)
    BY <1>4, <1>5, AddReadyKeeps
<1> HIDE DEF y
<1>7. {t} \ {t} = {} /\ {x.uxPriority[t]} \ {w.uxPriority[t]} = {}
    BY <1>5
<1>8. Sound(y, {}, {}, least)
    BY <1>6, <1>7
<1>9. Kept(x, y) /\ SameNext(x, y)
    BY <1>2, <1>4, <1>6 DEF Kept, SameNext, SameTimes, SameClock, SameRanks, SameCurrent, SameYield,
           SameAsserts, SameRest
<1>10. /\ Ready(w) = Ready(z) /\ Delayed(w) = Delayed(z) /\ Overflowed(w) = Overflowed(z)
       /\ Suspended(w) = Suspended(z) /\ Pended(z) = Pended(x) /\ Waiting(z) = Waiting(x)
    BY <1>2, <1>4 DEF SameReady, SameSleep, SameParked, SameEvents, Ready, ReadyAt, Delayed, Overflowed, Suspended,
           Pended, Waiting, WaitingAt
<1>11. /\ Delayed(y) = Delayed(w) /\ Overflowed(y) = Overflowed(w) /\ Suspended(y) = Suspended(w)
       /\ Pended(y) = Pended(w) /\ Waiting(y) = Waiting(w)
    BY <1>6 DEF SameSleep, SameParked, SameEvents, Delayed, Overflowed, Suspended, Pended, Waiting, WaitingAt
<1>12. Unblock(x, t) = y
    BY DEF Unblock, y, w, z
<1> QED BY <1>2, <1>4, <1>6, <1>8, <1>9, <1>10, <1>11, <1>12

\* The next unblock time is computed anew.
LEMMA ResetNextKeeps ==
    ASSUME NEW x, NEW out, NEW loose, NEW least, Sound(x, out, loose, least)
    PROVE  LET y == prvResetNextTaskUnblockTime(x)
           IN  /\ Sound(y, out, loose, least) /\ SameViews(x, y)
               /\ SameReady(x, y) /\ SameTop(x, y) /\ SameSleep(x, y) /\ SameParked(x, y) /\ SameEvents(x, y)
               /\ Kept(x, y)
<1> DEFINE y == prvResetNextTaskUnblockTime(x)
<1>1. Mem(x) /\ Homes(x, out) /\ Ranked(x) /\ Bits(x, loose) /\ Apart(x) /\ Times(x, least)
    BY DEF Sound
<1>2. /\ Mem(y)
      /\ SortedBy(x.pxDelayedTaskList, x.xItemValue) =>
           \A t \in Delayed(x) : y.xNextTaskUnblockTime <= x.xItemValue[t]
      /\ SameReady(x, y) /\ SameTop(x, y) /\ SameSleep(x, y) /\ SameParked(x, y) /\ SameEvents(x, y)
      /\ SameTimes(x, y) /\ SameClock(x, y)
      /\ SameRanks(x, y) /\ SameCurrent(x, y) /\ SameYield(x, y) /\ SameAsserts(x, y) /\ SameRest(x, y)
    BY <1>1, ResetNextIs
<1> HIDE DEF y
<1>3. SameViews(x, y) /\ Kept(x, y)
    BY <1>2, AlikeViews DEF Kept, SameParked
<1>4. Homes(y, out) /\ Ranked(y) /\ Bits(y, loose)
    BY <1>1, <1>2, <1>3 DEF Homes, Ranked, Bits, SameViews, SameRanks, SameTop, SameRest
<1>5. Apart(y)
    BY <1>1, <1>2, <1>3 DEF Apart, SameViews, SameEvents, WaitingAt, SameRest
<1>6. Times(y, least)
    BY <1>1, <1>2, <1>3 DEF Times, Until, SameViews, SameTimes, SameClock, SameSleep
<1> QED BY <1>2, <1>3, <1>4, <1>5, <1>6 DEF Sound, y

\* One more at the end of a list.
LEMMA JoinedIs ==
    ASSUME NEW s \in TaskLists, NEW t \in Tasks, t \notin Elements(s)
    PROVE  /\ Append(s, t) \in TaskLists /\ Elements(Append(s, t)) = Elements(s) \cup {t}
           /\ Len(Append(s, t)) = Len(s) + 1 /\ Len(s) \in Nat
<1> DEFINE i == Len(s) + 1
           u == Append(s, t)
<1>1. s \in Seq(Tasks) /\ Distinct(s)
    BY DEF TaskLists
<1>2. i \in 1 .. Len(s) + 1 /\ PutIn(Tasks, s, i, t, u)
    BY <1>1, AppendIs
<1>3. u \in Seq(Tasks) /\ Len(u) = Len(s) + 1 /\ Len(s) \in Nat
    BY <1>1, <1>2 DEF PutIn
<1> HIDE DEF i, u
<1>4. Distinct(u) /\ Elements(u) = Elements(s) \cup {t}
    BY <1>1, <1>2, <1>3, PutInList
<1> QED BY <1>3, <1>4 DEF TaskLists, u

\* A task in no state list joins the suspended ones.
LEMMA ParkKeeps ==
    ASSUME NEW x, NEW out, NEW loose, NEW least, Sound(x, out, loose, least), NEW t \in out, t \in x.allocated,
           NEW y, DOMAIN y = DOMAIN x, y.xSuspendedTaskList = Append(x.xSuspendedTaskList, t),
           y.xTasksWaitingTermination = x.xTasksWaitingTermination,
           SameReady(x, y), SameTop(x, y), SameSleep(x, y), SameEvents(x, y), SameTimes(x, y), SameNext(x, y),
           SameClock(x, y), SameRanks(x, y), SameCurrent(x, y), SameYield(x, y), SameAsserts(x, y), SameRest(x, y)
    PROVE  /\ Sound(y, out \ {t}, loose, least) /\ Kept(x, y)
           /\ Ready(y) = Ready(x) /\ Delayed(y) = Delayed(x) /\ Overflowed(y) = Overflowed(x)
           /\ Suspended(y) = Suspended(x) \cup {t}
<1>1. Mem(x) /\ Homes(x, out) /\ Ranked(x) /\ Bits(x, loose) /\ Apart(x) /\ Times(x, least)
    BY DEF Sound
<1>2. t \in Tasks /\ t \notin Ready(x) /\ t \notin Delayed(x) /\ t \notin Overflowed(x) /\ t \notin Suspended(x)
      /\ t \notin Deleted(x)
    BY <1>1 DEF Homes, Mem
<1>3. y.xSuspendedTaskList \in TaskLists /\ Suspended(y) = Suspended(x) \cup {t}
    BY <1>1, <1>2, JoinedIs DEF Suspended, Mem
<1>4. Mem(y)
    BY <1>1, <1>3 DEF Mem, SameReady, SameTop, SameSleep, SameEvents, SameTimes, SameNext,
           SameClock, SameRanks, SameCurrent, SameYield, SameRest
<1>5. /\ Ready(y) = Ready(x) /\ Delayed(y) = Delayed(x) /\ Overflowed(y) = Overflowed(x)
      /\ Deleted(y) = Deleted(x) /\ \A p \in Priorities : ReadyAt(y, p) = ReadyAt(x, p)
    BY DEF SameReady, SameSleep, Ready, ReadyAt, Delayed, Overflowed, Deleted
<1>6. Homes(y, out \ {t})
    BY <1>1, <1>2, <1>3, <1>5 DEF Homes, SameRest
<1>7. Ranked(y) /\ Bits(y, loose)
    BY <1>1, <1>5 DEF Ranked, Bits, SameRanks, SameTop
<1>8. Apart(y)
    BY <1>1, <1>5 DEF Apart, SameEvents, SameRest, Pended, Waiting, WaitingAt
<1>9. Times(y, least)
    BY <1>1, <1>5 DEF Times, Until, SameTimes, SameClock, SameNext, SameSleep
<1> QED BY <1>3, <1>4, <1>5, <1>6, <1>7, <1>8, <1>9 DEF Sound, Kept

-----------------------------------------------------------------------------
(* Sums of circular counters. *)

LEMMA WrapsOnce ==
    ASSUME NEW m \in Nat \ {0}, NEW a \in 0 .. 2 * m - 1
    PROVE  a % m = IF a < m THEN a ELSE a - m
<1>1. CASE a < m
    <2>1. a % m = a
        BY <1>1
    <2> QED BY <1>1, <2>1
<1>2. CASE a >= m
    <2>1. a % m = a - m
        BY <1>2
    <2> QED BY <1>2, <2>1
<1> QED BY <1>1, <1>2

\* The ticks left: those just asked for, and one fewer after each tick.
LEMMA LeftIs ==
    ASSUME NEW m \in Nat \ {0}, NEW now \in 0 .. m - 1
    PROVE  /\ \A n \in 0 .. m - 1 : (((now + n) % m) + m - now) % m = n
           /\ \A d \in 0 .. m - 1 : (d + m - now) % m >= 1 =>
                (d + m - ((now + 1) % m)) % m = ((d + m - now) % m) - 1
<1>1. ASSUME NEW n \in 0 .. m - 1 PROVE (((now + n) % m) + m - now) % m = n
    <2> DEFINE a == now + n
    <2>1. a \in 0 .. 2 * m - 1
        OBVIOUS
    <2> HIDE DEF a
    <2>2. a % m = IF a < m THEN a ELSE a - m
        BY <2>1, WrapsOnce
    <2> DEFINE d == a % m
               b == d + m - now
    <2>3. d = IF now + n < m THEN now + n ELSE now + n - m
        BY <2>2 DEF a
    <2> HIDE DEF d
    <2>4. b \in 0 .. 2 * m - 1 /\ b = IF now + n < m THEN m + n ELSE n
        BY <2>3
    <2> HIDE DEF b
    <2>5. b % m = IF b < m THEN b ELSE b - m
        BY <2>4, WrapsOnce
    <2>6. b % m = n
        BY <2>4, <2>5
    <2> QED BY <2>6 DEF a, b, d
<1>2. ASSUME NEW d \in 0 .. m - 1, (d + m - now) % m >= 1
      PROVE  (d + m - ((now + 1) % m)) % m = ((d + m - now) % m) - 1
    <2> DEFINE a == now + 1
               b == d + m - now
    <2>1. a \in 0 .. 2 * m - 1 /\ b \in 0 .. 2 * m - 1 /\ b % m >= 1
        BY <1>2
    <2> HIDE DEF a, b
    <2>2. /\ a % m = IF a < m THEN a ELSE a - m
          /\ b % m = IF b < m THEN b ELSE b - m
        BY <2>1, WrapsOnce
    <2> DEFINE next == a % m
               left == b % m
               c == d + m - next
    <2>3. next = IF now + 1 < m THEN now + 1 ELSE now + 1 - m
        BY <2>2 DEF a
    <2>4. left = (IF d < now THEN d + m - now ELSE d - now) /\ left >= 1
        BY <2>1, <2>2 DEF b
    <2> HIDE DEF next, left
    <2>5. c \in 0 .. 2 * m - 1
        BY <2>3
    <2>6. (IF c < m THEN c ELSE c - m) = left - 1
        BY <2>3, <2>4
    <2> HIDE DEF c
    <2>7. c % m = IF c < m THEN c ELSE c - m
        BY <2>5, WrapsOnce
    <2>8. c % m = left - 1
        BY <2>6, <2>7
    <2> QED BY <2>8 DEF a, b, c, next, left
<1> QED BY <1>1, <1>2

\* A task in no state list gets the time it wakes at.
WakeAt(x, t, wake, d) == [x EXCEPT !.xItemValue[t] = wake, !.due[t] = d]

LEMMA SetTimeKeeps ==
    ASSUME NEW x, NEW out, NEW loose, NEW least, Sound(x, out, loose, least), NEW t \in out, t \in x.allocated,
           NEW wake \in Ticks, NEW d \in 0 .. ElapsedMod - 1
    PROVE  LET y == WakeAt(x, t, wake, d)
           IN  /\ Sound(y, out, loose, least) /\ y.xItemValue[t] = wake /\ y.due[t] = d
               /\ DOMAIN y = DOMAIN x
               /\ SameReady(x, y) /\ SameTop(x, y) /\ SameSleep(x, y) /\ SameParked(x, y) /\ SameEvents(x, y)
               /\ SameNext(x, y) /\ SameClock(x, y) /\ SameRanks(x, y) /\ SameCurrent(x, y) /\ SameYield(x, y)
               /\ SameAsserts(x, y) /\ SameRest(x, y)
<1> DEFINE y == WakeAt(x, t, wake, d)
<1>1. Mem(x) /\ Homes(x, out) /\ Ranked(x) /\ Bits(x, loose) /\ Apart(x) /\ Times(x, least)
    BY DEF Sound
<1>2. t \in Tasks /\ t \notin Delayed(x) /\ t \notin Overflowed(x)
    BY <1>1 DEF Homes, Mem
<1>3. /\ y.xItemValue = [x.xItemValue EXCEPT ![t] = wake] /\ y.due = [x.due EXCEPT ![t] = d] /\ DOMAIN y = DOMAIN x
      /\ SameReady(x, y) /\ SameTop(x, y) /\ SameSleep(x, y) /\ SameParked(x, y) /\ SameEvents(x, y)
      /\ SameNext(x, y) /\ SameClock(x, y) /\ SameRanks(x, y) /\ SameCurrent(x, y) /\ SameYield(x, y)
      /\ SameAsserts(x, y) /\ SameRest(x, y)
    BY <1>1 DEF WakeAt, Mem, KernelFields, SameReady, SameTop, SameSleep, SameParked, SameEvents, SameNext,
           SameClock, SameRanks, SameCurrent, SameYield, SameAsserts, SameRest
<1> HIDE DEF y
<1>4. x.xItemValue \in [Tasks -> Ticks] /\ x.due \in [Tasks -> 0 .. ElapsedMod - 1]
    BY <1>1 DEF Mem
<1>5. y.xItemValue \in [Tasks -> Ticks] /\ y.due \in [Tasks -> 0 .. ElapsedMod - 1]
    BY <1>3, <1>4
<1>6. Mem(y)
    BY <1>1, <1>3, <1>5 DEF Mem, SameReady, SameTop, SameSleep, SameParked, SameEvents, SameNext,
           SameClock, SameRanks, SameCurrent, SameYield, SameRest
<1>7. SameViews(x, y)
    BY <1>3, AlikeViews
<1>8. Homes(y, out) /\ Ranked(y) /\ Bits(y, loose)
    BY <1>1, <1>3, <1>7 DEF Homes, Ranked, Bits, SameViews, SameRanks, SameTop, SameRest
<1>9. Apart(y)
    BY <1>1, <1>3, <1>7 DEF Apart, SameViews, SameEvents, WaitingAt, SameRest
<1>10. /\ y.xItemValue[t] = wake /\ y.due[t] = d
       /\ \A u \in Tasks : u # t => y.xItemValue[u] = x.xItemValue[u] /\ y.due[u] = x.due[u]
    BY <1>2, <1>3, <1>4
<1>11. ASSUME NEW s \in TaskLists, t \notin Elements(s), SortedBy(s, x.xItemValue) PROVE SortedBy(s, y.xItemValue)
    <2>1. \A i \in DOMAIN s : s[i] # t /\ s[i] \in Tasks
        BY <1>11 DEF Elements, TaskLists
    <2> QED BY <1>10, <1>11, <2>1 DEF SortedBy
<1>12. SortedBy(y.pxDelayedTaskList, y.xItemValue) /\ SortedBy(y.pxOverflowDelayedTaskList, y.xItemValue)
    BY <1>1, <1>2, <1>3, <1>11 DEF Times, Mem, Delayed, Overflowed, SameSleep
<1>13. ASSUME NEW u, u \in Delayed(x) \/ u \in Overflowed(x)
       PROVE  y.xItemValue[u] = x.xItemValue[u] /\ Until(y, u) = Until(x, u)
    <2>1. u \in Tasks /\ u # t
        BY <1>1, <1>2, <1>13 DEF Homes, Mem
    <2> QED BY <1>3, <1>10, <2>1 DEF Until, SameClock
<1>14. Times(y, least)
    BY <1>1, <1>3, <1>7, <1>12, <1>13 DEF Times, SameViews, SameClock, SameNext
<1> QED BY <1>3, <1>6, <1>8, <1>9, <1>10, <1>14 DEF Sound, y

\* A task in no state list goes to sleep, and wakes before the counter wraps.
LEMMA SleepKeeps ==
    ASSUME NEW x, NEW out, NEW loose, NEW least \in Nat, Sound(x, out, loose, least),
           NEW t \in out, t \in x.allocated,
           Until(x, t) \in least .. TickMod - 1, x.xItemValue[t] = x.xTickCount + Until(x, t),
           NEW y, DOMAIN y = DOMAIN x,
           y.pxDelayedTaskList = vListInsert(x.pxDelayedTaskList, t, x.xItemValue, portMAX_DELAY),
           y.pxOverflowDelayedTaskList = x.pxOverflowDelayedTaskList,
           y.xNextTaskUnblockTime = IF x.xItemValue[t] < x.xNextTaskUnblockTime THEN x.xItemValue[t]
                                    ELSE x.xNextTaskUnblockTime,
           SameReady(x, y), SameTop(x, y), SameParked(x, y), SameEvents(x, y), SameTimes(x, y),
           SameClock(x, y), SameRanks(x, y), SameCurrent(x, y), SameYield(x, y), SameAsserts(x, y), SameRest(x, y)
    PROVE  /\ Sound(y, out \ {t}, loose, least) /\ Kept(x, y)
           /\ Ready(y) = Ready(x) /\ Delayed(y) = Delayed(x) \cup {t} /\ Overflowed(y) = Overflowed(x)
           /\ Suspended(y) = Suspended(x)
<1>1. Mem(x) /\ Homes(x, out) /\ Ranked(x) /\ Bits(x, loose) /\ Apart(x) /\ Times(x, least)
    BY DEF Sound
<1>2. t \in Tasks /\ t \notin Ready(x) /\ t \notin Delayed(x) /\ t \notin Overflowed(x) /\ t \notin Suspended(x)
      /\ t \notin Deleted(x)
    BY <1>1 DEF Homes, Mem
<1>3. /\ y.pxDelayedTaskList \in TaskLists /\ Delayed(y) = Delayed(x) \cup {t}
      /\ SortedBy(y.pxDelayedTaskList, x.xItemValue)
    <2> DEFINE s == x.pxDelayedTaskList
               v == x.xItemValue
               u == vListInsert(s, t, v, portMAX_DELAY)
    <2>1. s \in Seq(Tasks) /\ Distinct(s) /\ t \notin Elements(s) /\ SortedBy(s, v)
        BY <1>1, <1>2 DEF Mem, TaskLists, Delayed, Times
    <2>2. v \in [Tasks -> Ticks]
        BY <1>1 DEF Mem
    <2> HIDE DEF s, v
    <2>3. v \in [Tasks -> Int] /\ portMAX_DELAY \in Int /\ \A a \in Tasks : v[a] <= portMAX_DELAY
        <3>1. \A n \in Ticks : n \in Int /\ n <= portMAX_DELAY
            BY Numbers DEF Ticks, portMAX_DELAY
        <3> QED BY <2>2, <3>1, Numbers
    <2>4. u \in Seq(Tasks) /\ Distinct(u) /\ Elements(u) = Elements(s) \cup {t} /\ SortedBy(u, v)
        <3>1. /\ u \in Seq(Tasks) /\ Distinct(u) /\ Elements(u) = Elements(s) \cup {t}
              /\ SortedBy(s, v) /\ (\A a \in Tasks : v[a] <= portMAX_DELAY) => SortedBy(u, v)
            BY <1>2, <2>1, <2>3, ListInsertIs
        <3> QED BY <2>1, <2>3, <3>1
    <2> HIDE DEF u
    <2>5. y.pxDelayedTaskList = u
        BY DEF u, s, v
    <2> QED BY <2>4, <2>5 DEF TaskLists, Delayed, s, v
<1>4. /\ y.xNextTaskUnblockTime \in Ticks /\ y.xNextTaskUnblockTime <= x.xNextTaskUnblockTime
      /\ y.xNextTaskUnblockTime <= x.xItemValue[t]
    <2>1. x.xNextTaskUnblockTime \in Ticks /\ x.xItemValue[t] \in Ticks
        BY <1>1, <1>2 DEF Mem
    <2>2. \A n \in Ticks : n \in Int
        BY DEF Ticks
    <2> QED BY <2>1, <2>2
<1>5. Mem(y)
    BY <1>1, <1>3, <1>4 DEF Mem, SameReady, SameTop, SameParked, SameEvents, SameTimes,
           SameClock, SameRanks, SameCurrent, SameYield, SameRest
<1>6. /\ Ready(y) = Ready(x) /\ Overflowed(y) = Overflowed(x) /\ Suspended(y) = Suspended(x)
      /\ Deleted(y) = Deleted(x) /\ \A p \in Priorities : ReadyAt(y, p) = ReadyAt(x, p)
    BY DEF SameReady, SameParked, Ready, ReadyAt, Overflowed, Suspended, Deleted
<1>7. Homes(y, out \ {t})
    BY <1>1, <1>2, <1>3, <1>6 DEF Homes, SameRest
<1>8. Ranked(y) /\ Bits(y, loose)
    BY <1>1, <1>6 DEF Ranked, Bits, SameRanks, SameTop
<1>9. Apart(y)
    BY <1>1, <1>6 DEF Apart, SameEvents, SameRest, Pended, Waiting, WaitingAt
<1>10. Times(y, least)
    <2>1. \A u \in Tasks : Until(y, u) = Until(x, u)
        BY DEF Until, SameTimes, SameClock
    <2>2. ASSUME NEW u \in Delayed(x) PROVE y.xNextTaskUnblockTime <= x.xItemValue[u]
        <3>1. u \in Tasks /\ x.xNextTaskUnblockTime <= x.xItemValue[u]
            BY <1>1 DEF Times, Homes, Mem
        <3>2. x.xNextTaskUnblockTime \in Ticks /\ x.xItemValue[u] \in Ticks
            BY <1>1, <3>1 DEF Mem
        <3>3. \A n \in Ticks : n \in Int
            BY DEF Ticks
        <3> QED BY <1>4, <3>1, <3>2, <3>3
    <2>3. \A u \in Delayed(x) \cup Overflowed(x) : u \in Tasks
        BY <1>1 DEF Homes, Mem
    <2> QED BY <1>1, <1>2, <1>3, <1>4, <1>6, <2>1, <2>2, <2>3 DEF Times, SameTimes, SameClock
<1> QED BY <1>3, <1>5, <1>6, <1>7, <1>8, <1>9, <1>10 DEF Sound, Kept, SameParked

\* A task in no state list goes to sleep, and wakes after the counter has wrapped.
LEMMA SleepLongKeeps ==
    ASSUME NEW x, NEW out, NEW loose, NEW least \in Nat, Sound(x, out, loose, least),
           NEW t \in out, t \in x.allocated,
           Until(x, t) \in 1 .. TickMod - 1, x.xItemValue[t] = x.xTickCount + Until(x, t) - TickMod,
           NEW y, DOMAIN y = DOMAIN x,
           y.pxOverflowDelayedTaskList = vListInsert(x.pxOverflowDelayedTaskList, t, x.xItemValue, portMAX_DELAY),
           y.pxDelayedTaskList = x.pxDelayedTaskList, SameNext(x, y),
           SameReady(x, y), SameTop(x, y), SameParked(x, y), SameEvents(x, y), SameTimes(x, y),
           SameClock(x, y), SameRanks(x, y), SameCurrent(x, y), SameYield(x, y), SameAsserts(x, y), SameRest(x, y)
    PROVE  /\ Sound(y, out \ {t}, loose, least) /\ Kept(x, y)
           /\ Ready(y) = Ready(x) /\ Delayed(y) = Delayed(x) /\ Overflowed(y) = Overflowed(x) \cup {t}
           /\ Suspended(y) = Suspended(x)
<1>1. Mem(x) /\ Homes(x, out) /\ Ranked(x) /\ Bits(x, loose) /\ Apart(x) /\ Times(x, least)
    BY DEF Sound
<1>2. t \in Tasks /\ t \notin Ready(x) /\ t \notin Delayed(x) /\ t \notin Overflowed(x) /\ t \notin Suspended(x)
      /\ t \notin Deleted(x)
    BY <1>1 DEF Homes, Mem
<1>3. /\ y.pxOverflowDelayedTaskList \in TaskLists /\ Overflowed(y) = Overflowed(x) \cup {t}
      /\ SortedBy(y.pxOverflowDelayedTaskList, x.xItemValue)
    <2> DEFINE s == x.pxOverflowDelayedTaskList
               v == x.xItemValue
               u == vListInsert(s, t, v, portMAX_DELAY)
    <2>1. s \in Seq(Tasks) /\ Distinct(s) /\ t \notin Elements(s) /\ SortedBy(s, v)
        BY <1>1, <1>2 DEF Mem, TaskLists, Overflowed, Times
    <2>2. v \in [Tasks -> Ticks]
        BY <1>1 DEF Mem
    <2> HIDE DEF s, v
    <2>3. v \in [Tasks -> Int] /\ portMAX_DELAY \in Int /\ \A a \in Tasks : v[a] <= portMAX_DELAY
        <3>1. \A n \in Ticks : n \in Int /\ n <= portMAX_DELAY
            BY Numbers DEF Ticks, portMAX_DELAY
        <3> QED BY <2>2, <3>1, Numbers
    <2>4. u \in Seq(Tasks) /\ Distinct(u) /\ Elements(u) = Elements(s) \cup {t} /\ SortedBy(u, v)
        <3>1. /\ u \in Seq(Tasks) /\ Distinct(u) /\ Elements(u) = Elements(s) \cup {t}
              /\ SortedBy(s, v) /\ (\A a \in Tasks : v[a] <= portMAX_DELAY) => SortedBy(u, v)
            BY <1>2, <2>1, <2>3, ListInsertIs
        <3> QED BY <2>1, <2>3, <3>1
    <2> HIDE DEF u
    <2>5. y.pxOverflowDelayedTaskList = u
        BY DEF u, s, v
    <2> QED BY <2>4, <2>5 DEF TaskLists, Overflowed, s, v
<1>5. Mem(y)
    BY <1>1, <1>3 DEF Mem, SameReady, SameTop, SameParked, SameEvents, SameTimes, SameNext,
           SameClock, SameRanks, SameCurrent, SameYield, SameRest
<1>6. /\ Ready(y) = Ready(x) /\ Delayed(y) = Delayed(x) /\ Suspended(y) = Suspended(x)
      /\ Deleted(y) = Deleted(x) /\ \A p \in Priorities : ReadyAt(y, p) = ReadyAt(x, p)
    BY DEF SameReady, SameParked, Ready, ReadyAt, Delayed, Suspended, Deleted
<1>7. Homes(y, out \ {t})
    BY <1>1, <1>2, <1>3, <1>6 DEF Homes, SameRest
<1>8. Ranked(y) /\ Bits(y, loose)
    BY <1>1, <1>6 DEF Ranked, Bits, SameRanks, SameTop
<1>9. Apart(y)
    BY <1>1, <1>6 DEF Apart, SameEvents, SameRest, Pended, Waiting, WaitingAt
<1>10. Times(y, least)
    <2>1. \A u \in Tasks : Until(y, u) = Until(x, u)
        BY DEF Until, SameTimes, SameClock
    <2>2. \A u \in Delayed(x) \cup Overflowed(x) : u \in Tasks
        BY <1>1 DEF Homes, Mem
    <2> QED BY <1>1, <1>2, <1>3, <1>6, <2>1, <2>2 DEF Times, SameTimes, SameClock, SameNext
<1> QED BY <1>3, <1>5, <1>6, <1>7, <1>8, <1>9, <1>10 DEF Sound, Kept, SameParked

-----------------------------------------------------------------------------
(* The running task goes to sleep. *)

\* What a step leaves alone that touches no event list and no deleted task.
Steady(x, y) ==
    /\ SameEvents(x, y) /\ SameClock(x, y) /\ SameRanks(x, y) /\ SameCurrent(x, y)
    /\ SameYield(x, y) /\ SameAsserts(x, y) /\ SameRest(x, y)
    /\ y.xTasksWaitingTermination = x.xTasksWaitingTermination

\* prvAddCurrentTaskToDelayedList keeps every task in one list, sorted by the
\* time it wakes at, and the running task is no longer ready.
LEMMA DelayKeeps ==
    ASSUME NEW x, Sound(x, {}, {}, 1), x.pxCurrentTCB \in x.allocated, x.pxCurrentTCB \notin Deleted(x),
           NEW ticks \in 1 .. TickMod - 1, NEW forever
    PROVE  LET y == prvAddCurrentTaskToDelayedList(x, ticks, forever)
           IN  /\ Sound(y, {}, {}, 1) /\ Steady(x, y)
               /\ Ready(y) = Ready(x) \ {x.pxCurrentTCB}
<1> DEFINE t    == x.pxCurrentTCB
           wake == (x.xTickCount + ticks) % TickMod
           due  == (x.elapsed + ticks) % ElapsedMod
           x0   == [x EXCEPT !.ucDelayAborted[t] = FALSE]
           xr   == RemoveState(x0, t)
           k1   == taskRESET_READY_PRIORITY(xr, x.uxPriority[t])
           k2   == [k1 EXCEPT !.xItemValue[t] = wake, !.due[t] = due]
           y    == prvAddCurrentTaskToDelayedList(x, ticks, forever)
           Goal(z) == /\ Sound(z, {}, {}, 1) /\ Steady(x, z) /\ Ready(z) = Ready(x) \ {t}
<1> SUFFICES Goal(y)
    OBVIOUS
<1>1. Mem(x) /\ t \in Tasks /\ x.xTickCount \in Ticks /\ x.elapsed \in 0 .. ElapsedMod - 1 /\ x.uxPriority[t] \in Priorities
    BY DEF Sound, Mem
<1>2. /\ DOMAIN x0 = DOMAIN x /\ Alike(x, x0) /\ SameCurrent(x, x0) /\ SameYield(x, x0) /\ SameAsserts(x, x0)
      /\ SameRest(x, x0)
    BY <1>1 DEF Mem, KernelFields, Alike, SameReady, SameTop, SameSleep, SameParked, SameEvents, SameTimes, SameNext,
           SameClock, SameRanks, SameCurrent, SameYield, SameAsserts, SameRest
<1>3. y = IF ticks = portMAX_DELAY /\ forever
          THEN [k1 EXCEPT !.xSuspendedTaskList = Append(@, t)]
          ELSE IF wake < x.xTickCount
          THEN [k2 EXCEPT !.pxOverflowDelayedTaskList = vListInsert(@, t, k2.xItemValue, portMAX_DELAY)]
          ELSE [k2 EXCEPT !.pxDelayedTaskList = vListInsert(@, t, k2.xItemValue, portMAX_DELAY),
                          !.xNextTaskUnblockTime = IF wake < @ THEN wake ELSE @]
    BY DEF prvAddCurrentTaskToDelayedList
<1> HIDE DEF x0, y
<1>4. Mem(x0)
    BY <1>1, <1>2, OtherSetIs
<1>5. Sound(x0, {}, {}, 1) /\ SameViews(x, x0)
    BY <1>2, <1>4, AlikeKeeps
<1>6. t \notin Deleted(x0) /\ x0.uxPriority = x.uxPriority
    BY <1>2, <1>5 DEF SameViews, Alike, SameRanks
<1>7. /\ Sound(xr, {} \cup {t}, {} \cup {x0.uxPriority[t]}, 1)
      /\ Ready(xr) = Ready(x0) \ {t} /\ SameEvents(x0, xr) /\ Kept(x0, xr)
    BY <1>1, <1>5, <1>6, RemoveStateKeeps
<1>8. {} \cup {t} = {t} /\ {} \cup {x0.uxPriority[t]} = {x.uxPriority[t]}
    BY <1>6
<1> HIDE DEF xr
<1>9. Sound(xr, {t}, {x.uxPriority[t]}, 1)
    BY <1>7, <1>8
<1>10. /\ Sound(k1, {t}, {x.uxPriority[t]} \ {x.uxPriority[t]}, 1)
       /\ SameReady(xr, k1) /\ SameEvents(xr, k1) /\ Kept(xr, k1)
    BY <1>1, <1>9, ResetReadyKeeps
<1> HIDE DEF k1
<1>11. {x.uxPriority[t]} \ {x.uxPriority[t]} = {}
    OBVIOUS
<1>12. Sound(k1, {t}, {}, 1)
    BY <1>10, <1>11
<1>13. Ready(k1) = Ready(x) \ {t}
    BY <1>5, <1>7, <1>10 DEF SameViews, SameReady, Ready, ReadyAt
<1>14. Steady(x, k1) /\ k1.allocated = x.allocated
    BY <1>2, <1>7, <1>10 DEF Steady, Kept, Alike, SameParked, SameEvents, SameClock, SameRanks, SameCurrent, SameYield,
           SameAsserts, SameRest
<1>15. TickMod \in Nat \ {0} /\ ElapsedMod \in Nat \ {0} /\ ticks \in 0 .. TickMod - 1 /\ ticks \in 0 .. ElapsedMod - 1
       /\ wake \in Ticks /\ due \in 0 .. ElapsedMod - 1
    BY <1>1, Numbers DEF Ticks
<1> HIDE DEF wake, due
<1>16. /\ Sound(k2, {t}, {}, 1) /\ k2.xItemValue[t] = wake /\ k2.due[t] = due
       /\ SameReady(k1, k2) /\ SameParked(k1, k2) /\ SameEvents(k1, k2)
       /\ SameClock(k1, k2) /\ SameRanks(k1, k2) /\ SameCurrent(k1, k2) /\ SameYield(k1, k2)
       /\ SameAsserts(k1, k2) /\ SameRest(k1, k2)
    <2>1. t \in {t} /\ t \in k1.allocated
        BY <1>14
    <2>2. k2 = WakeAt(k1, t, wake, due)
        BY DEF WakeAt
    <2> HIDE DEF t, k2
    <2> QED BY <1>12, <1>15, <2>1, <2>2, SetTimeKeeps
<1> HIDE DEF k2
<1>17. Steady(x, k2) /\ k2.allocated = x.allocated /\ Ready(k2) = Ready(x) \ {t}
    BY <1>13, <1>14, <1>16 DEF Steady, SameReady, SameParked, SameEvents, SameClock, SameRanks, SameCurrent, SameYield,
           SameAsserts, SameRest, Ready, ReadyAt
<1>18. Until(k2, t) = ticks /\ k2.xTickCount = x.xTickCount
    <2>1. k2.elapsed = x.elapsed
        BY <1>17 DEF Steady, SameClock
    <2>2. (due + ElapsedMod - x.elapsed) % ElapsedMod = ticks
        BY <1>1, <1>15, LeftIs DEF due
    <2> QED BY <1>16, <1>17, <2>1, <2>2 DEF Until, Steady, SameClock
<1>19. wake = IF x.xTickCount + ticks < TickMod THEN x.xTickCount + ticks ELSE x.xTickCount + ticks - TickMod
    <2> DEFINE a == x.xTickCount + ticks
    <2>1. a \in 0 .. 2 * TickMod - 1
        BY <1>1, <1>15 DEF Ticks
    <2> HIDE DEF a
    <2>2. a % TickMod = IF a < TickMod THEN a ELSE a - TickMod
        BY <1>15, <2>1, WrapsOnce
    <2>3. wake = a % TickMod
        BY DEF a, wake
    <2>4. a = x.xTickCount + ticks
        BY DEF a
    <2>5. x.xTickCount \in Int /\ ticks \in Int /\ TickMod \in Int /\ a \in Int
        BY <1>1, <1>15, <2>1 DEF Ticks
    <2> QED BY <2>2, <2>3, <2>4, <2>5
<1>20. CASE ticks = portMAX_DELAY /\ forever
    <2> DEFINE z == [k1 EXCEPT !.xSuspendedTaskList = Append(k1.xSuspendedTaskList, t)]
    <2>1. /\ DOMAIN z = DOMAIN k1 /\ z.xSuspendedTaskList = Append(k1.xSuspendedTaskList, t)
          /\ z.xTasksWaitingTermination = k1.xTasksWaitingTermination
          /\ SameReady(k1, z) /\ SameTop(k1, z) /\ SameSleep(k1, z) /\ SameEvents(k1, z) /\ SameTimes(k1, z)
          /\ SameNext(k1, z) /\ SameClock(k1, z) /\ SameRanks(k1, z) /\ SameCurrent(k1, z) /\ SameYield(k1, z)
          /\ SameAsserts(k1, z) /\ SameRest(k1, z)
        BY <1>12 DEF Sound, Mem, KernelFields, SameReady, SameTop, SameSleep, SameEvents, SameTimes, SameNext,
           SameClock, SameRanks, SameCurrent, SameYield, SameAsserts, SameRest
    <2>2. y = z
        BY <1>3, <1>20
    <2> HIDE DEF z
    <2>3. Sound(z, {t} \ {t}, {}, 1) /\ Kept(k1, z) /\ Ready(z) = Ready(k1)
        BY <1>1, <1>12, <1>14, <2>1, ParkKeeps
    <2>4. {t} \ {t} = {}
        OBVIOUS
    <2>5. Steady(x, z)
        BY <1>14, <2>1 DEF Steady, SameEvents, SameClock, SameRanks, SameCurrent, SameYield, SameAsserts, SameRest
    <2>6. Sound(z, {}, {}, 1) /\ Ready(z) = Ready(x) \ {t}
        BY <1>13, <2>3, <2>4
    <2> QED BY <2>2, <2>5, <2>6
<1>21. CASE ~(ticks = portMAX_DELAY /\ forever) /\ wake < x.xTickCount
    <2> DEFINE z == [k2 EXCEPT !.pxOverflowDelayedTaskList =
                                   vListInsert(k2.pxOverflowDelayedTaskList, t, k2.xItemValue, portMAX_DELAY)]
    <2>1. /\ DOMAIN z = DOMAIN k2
          /\ z.pxOverflowDelayedTaskList = vListInsert(k2.pxOverflowDelayedTaskList, t, k2.xItemValue, portMAX_DELAY)
          /\ z.pxDelayedTaskList = k2.pxDelayedTaskList
          /\ SameReady(k2, z) /\ SameTop(k2, z) /\ SameParked(k2, z) /\ SameEvents(k2, z) /\ SameTimes(k2, z)
          /\ SameNext(k2, z) /\ SameClock(k2, z) /\ SameRanks(k2, z) /\ SameCurrent(k2, z) /\ SameYield(k2, z)
          /\ SameAsserts(k2, z) /\ SameRest(k2, z)
        BY <1>16 DEF Sound, Mem, KernelFields, SameReady, SameTop, SameParked, SameEvents, SameTimes, SameNext,
           SameClock, SameRanks, SameCurrent, SameYield, SameAsserts, SameRest
    <2>2. y = z
        BY <1>3, <1>21
    <2> HIDE DEF z
    <2>3. Until(k2, t) \in 1 .. TickMod - 1 /\ k2.xItemValue[t] = k2.xTickCount + Until(k2, t) - TickMod
        BY <1>1, <1>15, <1>16, <1>18, <1>19, <1>21 DEF Ticks
    <2>4. Sound(z, {t} \ {t}, {}, 1) /\ Ready(z) = Ready(k2)
        BY <1>1, <1>16, <1>17, <2>1, <2>3, SleepLongKeeps
    <2>5. {t} \ {t} = {}
        OBVIOUS
    <2>6. Steady(x, z)
        BY <1>17, <2>1 DEF Steady, SameParked, SameEvents, SameClock, SameRanks, SameCurrent, SameYield, SameAsserts,
           SameRest
    <2>7. Sound(z, {}, {}, 1) /\ Ready(z) = Ready(x) \ {t}
        BY <1>17, <2>4, <2>5
    <2> QED BY <2>2, <2>6, <2>7
<1>22. CASE ~(ticks = portMAX_DELAY /\ forever) /\ ~(wake < x.xTickCount)
    <2> DEFINE z == [k2 EXCEPT !.pxDelayedTaskList =
                                   vListInsert(k2.pxDelayedTaskList, t, k2.xItemValue, portMAX_DELAY),
                               !.xNextTaskUnblockTime =
                                   IF wake < k2.xNextTaskUnblockTime THEN wake ELSE k2.xNextTaskUnblockTime]
    <2>1. /\ DOMAIN z = DOMAIN k2
          /\ z.pxDelayedTaskList = vListInsert(k2.pxDelayedTaskList, t, k2.xItemValue, portMAX_DELAY)
          /\ z.pxOverflowDelayedTaskList = k2.pxOverflowDelayedTaskList
          /\ z.xNextTaskUnblockTime = IF wake < k2.xNextTaskUnblockTime THEN wake ELSE k2.xNextTaskUnblockTime
          /\ SameReady(k2, z) /\ SameTop(k2, z) /\ SameParked(k2, z) /\ SameEvents(k2, z) /\ SameTimes(k2, z)
          /\ SameClock(k2, z) /\ SameRanks(k2, z) /\ SameCurrent(k2, z) /\ SameYield(k2, z)
          /\ SameAsserts(k2, z) /\ SameRest(k2, z)
        BY <1>16 DEF Sound, Mem, KernelFields, SameReady, SameTop, SameParked, SameEvents, SameTimes,
           SameClock, SameRanks, SameCurrent, SameYield, SameAsserts, SameRest
    <2>2. y = z
        BY <1>3, <1>22
    <2> HIDE DEF z
    <2>3. Until(k2, t) \in 1 .. TickMod - 1 /\ k2.xItemValue[t] = k2.xTickCount + Until(k2, t)
        BY <1>1, <1>15, <1>16, <1>18, <1>19, <1>22 DEF Ticks
    <2>4. Sound(z, {t} \ {t}, {}, 1) /\ Ready(z) = Ready(k2)
        BY <1>1, <1>16, <1>17, <2>1, <2>3, SleepKeeps
    <2>5. {t} \ {t} = {}
        OBVIOUS
    <2>6. Steady(x, z)
        BY <1>17, <2>1 DEF Steady, SameParked, SameEvents, SameClock, SameRanks, SameCurrent, SameYield, SameAsserts,
           SameRest
    <2>7. Sound(z, {}, {}, 1) /\ Ready(z) = Ready(x) \ {t}
        BY <1>17, <2>4, <2>5
    <2> QED BY <2>2, <2>6, <2>7
<1> QED BY <1>20, <1>21, <1>22

-----------------------------------------------------------------------------
(* A tick. *)

Ticking(x) ==
    [x EXCEPT !.xTickCount = (@ + 1) % TickMod, !.elapsed = (@ + 1) % ElapsedMod]

\* What a tick leaves alone, whoever becomes ready.
Timed(x, y) ==
    /\ SameParked(x, y) /\ SameEvents(x, y) /\ SameTimes(x, y) /\ SameRanks(x, y) /\ SameCurrent(x, y)
    /\ SameYield(x, y) /\ SameAsserts(x, y) /\ SameRest(x, y)

LEMMA TickingIs ==
    ASSUME NEW x, Sound(x, {}, {}, 1)
    PROVE  LET y == Ticking(x)
           IN  /\ Mem(y) /\ SameViews(x, y)
               /\ y.xTickCount = IF x.xTickCount + 1 < TickMod THEN x.xTickCount + 1 ELSE 0
               /\ \A t \in Delayed(x) \cup Overflowed(x) : Until(y, t) = Until(x, t) - 1
               /\ SameReady(x, y) /\ SameTop(x, y) /\ SameSleep(x, y) /\ SameNext(x, y) /\ Timed(x, y)
<1> DEFINE y    == Ticking(x)
           tick == (x.xTickCount + 1) % TickMod
           now  == (x.elapsed + 1) % ElapsedMod
<1>1. Mem(x) /\ Homes(x, {}) /\ Times(x, 1)
    BY DEF Sound
<1>2. /\ y.xTickCount = tick /\ y.elapsed = now /\ DOMAIN y = DOMAIN x
      /\ SameReady(x, y) /\ SameTop(x, y) /\ SameSleep(x, y) /\ SameNext(x, y) /\ Timed(x, y)
    BY <1>1 DEF Ticking, Mem, KernelFields, Timed, SameReady, SameTop, SameSleep, SameParked, SameEvents, SameTimes,
           SameNext, SameRanks, SameCurrent, SameYield, SameAsserts, SameRest
<1> HIDE DEF y
<1>3. /\ x.xTickCount \in Nat /\ x.xTickCount \in 0 .. TickMod - 1 /\ x.elapsed \in 0 .. ElapsedMod - 1
      /\ TickMod \in Nat \ {0} /\ ElapsedMod \in Nat \ {0}
    BY <1>1, Numbers DEF Mem, Ticks
<1>4. tick \in Ticks /\ now \in 0 .. ElapsedMod - 1
    BY <1>3 DEF Ticks
<1>5. tick = IF x.xTickCount + 1 < TickMod THEN x.xTickCount + 1 ELSE 0
    <2> DEFINE a == x.xTickCount + 1
    <2>1. a \in 0 .. 2 * TickMod - 1 /\ a <= TickMod /\ a \in Int
        BY <1>3
    <2>2. tick = a % TickMod
        OBVIOUS
    <2> HIDE DEF a, tick
    <2>3. a % TickMod = IF a < TickMod THEN a ELSE a - TickMod
        BY <1>3, <2>1, WrapsOnce
    <2>4. tick = IF a < TickMod THEN a ELSE 0
        BY <1>3, <2>1, <2>2, <2>3
    <2> QED BY <2>4 DEF a
<1> HIDE DEF tick
<1>6. Mem(y)
    BY <1>1, <1>2, <1>4 DEF Timed, Mem, SameReady, SameTop, SameSleep, SameParked, SameEvents, SameTimes,
           SameNext, SameRanks, SameCurrent, SameYield, SameRest
<1>7. SameViews(x, y)
    BY <1>2, AlikeViews DEF Timed
<1>8. ASSUME NEW t \in Delayed(x) \cup Overflowed(x) PROVE Until(y, t) = Until(x, t) - 1
    <2> DEFINE d == x.due[t]
    <2>1. t \in Tasks
        BY <1>1 DEF Homes, Mem
    <2>2. d \in 0 .. ElapsedMod - 1
        BY <1>1, <2>1 DEF Mem
    <2>3. (d + ElapsedMod - x.elapsed) % ElapsedMod >= 1
        <3>1. Until(x, t) \in 1 .. TickMod - 1
            BY <1>1, <1>8 DEF Times
        <3>2. Until(x, t) >= 1
            BY <3>1
        <3> QED BY <3>2 DEF Until
    <2>4. (d + ElapsedMod - now) % ElapsedMod = ((d + ElapsedMod - x.elapsed) % ElapsedMod) - 1
        <3> HIDE DEF d
        <3> QED BY <1>3, <2>2, <2>3, LeftIs
    <2>5. y.due[t] = d
        BY <1>2 DEF Timed, SameTimes
    <2>6. Until(y, t) = (d + ElapsedMod - now) % ElapsedMod
        BY <1>2, <2>5 DEF Until
    <2>7. Until(x, t) = (d + ElapsedMod - x.elapsed) % ElapsedMod
        BY DEF Until
    <2> QED BY <2>4, <2>6, <2>7
<1> QED BY <1>2, <1>5, <1>6, <1>7, <1>8 DEF y

\* The delayed lists change places.
Switching(x) ==
    [x EXCEPT !.pxDelayedTaskList         = x.pxOverflowDelayedTaskList,
              !.pxOverflowDelayedTaskList = x.pxDelayedTaskList,
              !.xNumOfOverflows           = (@ + 1) % TickMod]

\* One tick later a task may be due, and none is overdue.
LEMMA AdvanceKeeps ==
    ASSUME NEW x, Sound(x, {}, {}, 1)
    PROVE  LET y == Advance(x)
           IN  /\ Sound(y, {}, {}, 0) /\ SameReady(x, y) /\ SameTop(x, y) /\ Timed(x, y)
<1> DEFINE y == Advance(x)
           z == Ticking(x)
<1>1. Mem(x) /\ Homes(x, {}) /\ Ranked(x) /\ Bits(x, {}) /\ Apart(x) /\ Times(x, 1)
    BY DEF Sound
<1>2. /\ Mem(z) /\ SameViews(x, z)
      /\ z.xTickCount = IF x.xTickCount + 1 < TickMod THEN x.xTickCount + 1 ELSE 0
      /\ \A t \in Delayed(x) \cup Overflowed(x) : Until(z, t) = Until(x, t) - 1
      /\ SameReady(x, z) /\ SameTop(x, z) /\ SameSleep(x, z) /\ SameNext(x, z) /\ Timed(x, z)
    BY TickingIs
<1>3. y = SwitchIfWrapped(z)
    BY DEF Advance, Ticking
<1> HIDE DEF y, z
<1>4. Ranked(z) /\ Bits(z, {}) /\ Homes(z, {}) /\ Apart(z)
    BY <1>1, <1>2 DEF Ranked, Bits, Homes, Apart, SameViews, SameTop, Timed, SameRanks, SameRest, SameEvents, WaitingAt
<1>5. /\ x.xTickCount \in 0 .. TickMod - 1 /\ TickMod \in Nat /\ TickMod > 1
      /\ \A t \in Tasks : x.xItemValue[t] \in 0 .. TickMod - 1
    BY <1>1, Numbers DEF Mem, Ticks
<1>6. Delayed(x) \subseteq Tasks /\ Overflowed(x) \subseteq Tasks
    BY <1>1 DEF Homes, Mem
<1>7. z.xItemValue = x.xItemValue /\ z.xNextTaskUnblockTime = x.xNextTaskUnblockTime
    BY <1>2 DEF Timed, SameTimes, SameNext
<1>8. CASE x.xTickCount + 1 < TickMod
    <2>1. z.xTickCount = x.xTickCount + 1 /\ z.xTickCount # 0
        BY <1>2, <1>5, <1>8
    <2>2. y = z
        BY <1>3, <2>1 DEF SwitchIfWrapped
    <2>3. ASSUME NEW t \in Delayed(z)
          PROVE  /\ Until(z, t) \in 0 .. TickMod - 1
                 /\ z.xItemValue[t] = z.xTickCount + Until(z, t)
                 /\ z.xNextTaskUnblockTime <= z.xItemValue[t]
        <3>1. t \in Delayed(x)
            BY <1>2 DEF SameViews
        <3>2. /\ Until(x, t) \in 1 .. TickMod - 1 /\ x.xItemValue[t] = x.xTickCount + Until(x, t)
              /\ x.xNextTaskUnblockTime <= x.xItemValue[t] /\ Until(z, t) = Until(x, t) - 1
            BY <1>1, <1>2, <3>1 DEF Times
        <3> QED BY <1>5, <1>7, <2>1, <3>2
    <2>4. ASSUME NEW t \in Overflowed(z)
          PROVE  /\ Until(z, t) \in 1 .. TickMod - 1
                 /\ z.xItemValue[t] = z.xTickCount + Until(z, t) - TickMod
        <3>1. t \in Overflowed(x) /\ x.xItemValue[t] \in 0 .. TickMod - 1
            BY <1>2, <1>5, <1>6 DEF SameViews
        <3>2. /\ Until(x, t) \in 1 .. TickMod - 1 /\ x.xItemValue[t] = x.xTickCount + Until(x, t) - TickMod
              /\ Until(z, t) = Until(x, t) - 1
            BY <1>1, <1>2, <3>1 DEF Times
        <3> QED BY <1>5, <1>7, <1>8, <2>1, <3>1, <3>2
    <2>5. Times(z, 0)
        BY <1>1, <1>2, <1>7, <2>3, <2>4 DEF Times, SameSleep
    <2> QED BY <1>2, <1>4, <2>2, <2>5 DEF Sound, y
<1>9. CASE ~(x.xTickCount + 1 < TickMod)
    <2>1. z.xTickCount = 0 /\ x.xTickCount = TickMod - 1
        BY <1>2, <1>5, <1>9
    <2>2. ASSUME NEW t \in Delayed(x) PROVE FALSE
        <3>1. Until(x, t) \in 1 .. TickMod - 1 /\ x.xItemValue[t] = x.xTickCount + Until(x, t)
            BY <1>1 DEF Times
        <3>2. x.xItemValue[t] \in 0 .. TickMod - 1
            BY <1>5, <1>6
        <3> QED BY <1>5, <2>1, <3>1, <3>2
    <2>3. x.pxDelayedTaskList = <<>>
        <3>1. x.pxDelayedTaskList \in Seq(Tasks)
            BY <1>1 DEF Mem, TaskLists
        <3>2. Elements(x.pxDelayedTaskList) = {}
            BY <2>2 DEF Delayed
        <3> QED BY <3>1, <3>2, NobodyIn
    <2>4. z.pxDelayedTaskList = <<>> /\ z.pxOverflowDelayedTaskList = x.pxOverflowDelayedTaskList
        BY <1>2, <2>3 DEF SameSleep
    <2> DEFINE w == Switching(z)
    <2>5. y = prvResetNextTaskUnblockTime(w)
        BY <1>3, <2>1, <2>4 DEF SwitchIfWrapped, taskSWITCH_DELAYED_LISTS, configASSERT, Switching
    <2>6. /\ w.pxDelayedTaskList = x.pxOverflowDelayedTaskList /\ w.pxOverflowDelayedTaskList = <<>>
          /\ w.xTickCount = z.xTickCount /\ w.elapsed = z.elapsed
          /\ DOMAIN w = DOMAIN z /\ SameReady(z, w) /\ SameTop(z, w) /\ SameNext(z, w) /\ Timed(z, w)
        BY <1>2, <2>4 DEF Switching, Mem, KernelFields, Timed, SameReady, SameTop, SameParked, SameEvents, SameTimes,
           SameNext, SameRanks, SameCurrent, SameYield, SameAsserts, SameRest
    <2> HIDE DEF w
    <2>7. x.pxOverflowDelayedTaskList \in TaskLists /\ x.pxDelayedTaskList \in TaskLists
        BY <1>1 DEF Mem
    <2>8. Mem(w)
        BY <1>2, <2>3, <2>6, <2>7 DEF Timed, Mem, SameReady, SameTop, SameParked, SameEvents, SameTimes,
           SameNext, SameRanks, SameCurrent, SameYield, SameRest
    <2>9. /\ Mem(y)
          /\ SortedBy(w.pxDelayedTaskList, w.xItemValue) => \A t \in Delayed(w) : y.xNextTaskUnblockTime <= w.xItemValue[t]
          /\ SameReady(w, y) /\ SameTop(w, y) /\ SameSleep(w, y) /\ SameParked(w, y) /\ SameEvents(w, y)
          /\ SameTimes(w, y) /\ SameClock(w, y)
          /\ SameRanks(w, y) /\ SameCurrent(w, y) /\ SameYield(w, y) /\ SameAsserts(w, y) /\ SameRest(w, y)
        BY <2>5, <2>8, ResetNextIs
    <2>10. SameReady(x, y) /\ SameTop(x, y) /\ Timed(x, y)
        BY <1>2, <2>6, <2>9 DEF Timed, SameReady, SameTop, SameParked, SameEvents, SameTimes,
           SameRanks, SameCurrent, SameYield, SameAsserts, SameRest
    <2>11. /\ \A p \in Priorities : ReadyAt(y, p) = ReadyAt(x, p)
           /\ Ready(y) = Ready(x) /\ Suspended(y) = Suspended(x) /\ Deleted(y) = Deleted(x)
           /\ Pended(y) = Pended(x) /\ Waiting(y) = Waiting(x)
        BY <2>10 DEF Timed, SameReady, SameParked, SameEvents, ReadyAt, Ready, Suspended, Deleted, Pended, Waiting, WaitingAt
    <2>12. Delayed(y) = Overflowed(x) /\ Overflowed(y) = {} /\ Delayed(w) = Delayed(y) /\ Delayed(x) = {}
        <3>1. Elements(<<>>) = {}
            BY DEF Elements
        <3>2. /\ y.pxDelayedTaskList = x.pxOverflowDelayedTaskList /\ w.pxDelayedTaskList = y.pxDelayedTaskList
              /\ y.pxOverflowDelayedTaskList = <<>>
            BY <2>6, <2>9 DEF SameSleep
        <3> QED BY <2>2, <3>1, <3>2 DEF Delayed, Overflowed
    <2>13. Homes(y, {})
        BY <1>1, <2>10, <2>11, <2>12 DEF Homes, Timed, SameRest
    <2>14. Ranked(y) /\ Bits(y, {})
        BY <1>1, <2>10, <2>11 DEF Ranked, Bits, Timed, SameRanks, SameTop
    <2>15. Apart(y)
        BY <1>1, <2>10, <2>11 DEF Apart, Timed, SameEvents, SameRest, WaitingAt
    <2>16. /\ y.xItemValue = x.xItemValue /\ w.xItemValue = x.xItemValue /\ y.xTickCount = 0
           /\ y.due = z.due /\ y.elapsed = z.elapsed
           /\ y.pxDelayedTaskList = x.pxOverflowDelayedTaskList /\ y.pxOverflowDelayedTaskList = <<>>
        BY <1>7, <2>1, <2>6, <2>9 DEF Timed, SameTimes, SameClock, SameSleep
    <2>17. ASSUME NEW t \in Delayed(y)
           PROVE  Until(y, t) \in 0 .. TickMod - 1 /\ y.xItemValue[t] = y.xTickCount + Until(y, t)
        <3>1. t \in Overflowed(x) /\ Until(y, t) = Until(z, t)
            BY <2>12, <2>16 DEF Until
        <3>2. /\ Until(x, t) \in 1 .. TickMod - 1 /\ x.xItemValue[t] = x.xTickCount + Until(x, t) - TickMod
              /\ Until(z, t) = Until(x, t) - 1
            BY <1>1, <1>2, <3>1 DEF Times
        <3> QED BY <1>5, <2>1, <2>16, <3>1, <3>2
    <2>18. /\ SortedBy(y.pxDelayedTaskList, y.xItemValue) /\ SortedBy(w.pxDelayedTaskList, w.xItemValue)
           /\ SortedBy(y.pxOverflowDelayedTaskList, y.xItemValue)
        BY <1>1, <2>6, <2>16 DEF Times, SortedBy
    <2>19. Times(y, 0)
        BY <2>9, <2>12, <2>16, <2>17, <2>18 DEF Times
    <2> QED BY <2>9, <2>10, <2>13, <2>14, <2>15, <2>19 DEF Sound, y
<1> QED BY <1>8, <1>9

\* The tasks whose time has come lead the list, and none comes after them.
LEMMA ExpiredIs ==
    ASSUME NEW x, Sound(x, {}, {}, 0)
    PROVE  /\ Expired(x) \in TaskLists /\ Elements(Expired(x)) \subseteq Delayed(x)
           /\ \A t \in Delayed(x) : t \notin Elements(Expired(x)) => Until(x, t) >= 1
<1> DEFINE s     == x.pxDelayedTaskList
           later == {i \in DOMAIN s : x.xTickCount < x.xItemValue[s[i]]}
           first == CHOOSE i \in later : \A j \in later : i <= j
<1>1. Mem(x) /\ Homes(x, {}) /\ Times(x, 0)
    BY DEF Sound
<1>2. s \in Seq(Tasks) /\ Distinct(s) /\ SortedBy(s, x.xItemValue)
    BY <1>1 DEF Mem, TaskLists, Times
<1>3. DOMAIN s = 1 .. Len(s) /\ Len(s) \in Nat /\ \A i \in DOMAIN s : s[i] \in Tasks
    BY <1>2
<1>4. x.xTickCount \in Int /\ \A t \in Tasks : x.xItemValue[t] \in Int
    BY <1>1 DEF Mem, Ticks
<1>5. Expired(x) = IF later = {} THEN s ELSE SubSeq(s, 1, first - 1)
    BY DEF Expired
<1>6. ASSUME NEW t \in Delayed(x), x.xTickCount < x.xItemValue[t] PROVE Until(x, t) >= 1
    <2>1. Until(x, t) \in 0 .. TickMod - 1 /\ x.xItemValue[t] = x.xTickCount + Until(x, t)
        BY <1>1 DEF Times
    <2> QED BY <1>4, <1>6, <2>1, Numbers
<1>7. Delayed(x) = {s[i] : i \in DOMAIN s}
    BY DEF Delayed, Elements
<1>8. CASE later = {}
    <2>1. Expired(x) = s
        BY <1>5, <1>8
    <2> QED BY <1>2, <1>7, <2>1 DEF Elements, TaskLists
<1>9. CASE later # {}
    <2>1. later \in SUBSET Nat
        BY <1>3
    <2>2. \E i \in later : \A j \in later : i <= j
        BY <1>9, <2>1, LeastIs
    <2>3. first \in later /\ \A j \in later : first <= j
        BY <2>2
    <2>4. first \in 1 .. Len(s) /\ x.xTickCount < x.xItemValue[s[first]]
        BY <1>3, <2>3
    <2> DEFINE e == SubSeq(s, 1, first - 1)
    <2> HIDE DEF first
    <2>5. e \in Seq(Tasks) /\ Len(e) = first - 1 /\ \A i \in 1 .. first - 1 : e[i] = s[i]
        BY <1>2, <1>3, <2>4
    <2>6. Expired(x) = e
        BY <1>5, <1>9 DEF first
    <2> HIDE DEF e
    <2>7. DOMAIN e = 1 .. first - 1 /\ \A i \in DOMAIN e : i \in DOMAIN s /\ e[i] = s[i]
        BY <1>3, <2>4, <2>5
    <2>8. Distinct(e) /\ Elements(e) \subseteq Delayed(x)
        BY <1>2, <1>7, <2>7 DEF Distinct, Elements
    <2>9. ASSUME NEW t \in Delayed(x), t \notin Elements(e) PROVE x.xTickCount < x.xItemValue[t]
        <3>1. PICK i \in DOMAIN s : s[i] = t
            BY <1>7
        <3>2. i \notin DOMAIN e
            BY <2>7, <2>9, <3>1 DEF Elements
        <3>3. i \in 1 .. Len(s) /\ first <= i
            BY <1>3, <2>4, <2>7, <3>2
        <3>4. x.xItemValue[s[first]] <= x.xItemValue[s[i]]
            <4>1. CASE first = i
                BY <1>3, <1>4, <3>3, <4>1
            <4>2. CASE first # i
                BY <1>2, <1>3, <2>4, <3>3, <4>2 DEF SortedBy
            <4> QED BY <4>1, <4>2
        <3> QED BY <1>3, <1>4, <2>4, <3>1, <3>3, <3>4
    <2> QED BY <1>6, <2>5, <2>6, <2>8, <2>9 DEF TaskLists
<1> QED BY <1>8, <1>9

\* UnblockAll goes from one task to the next.
LEMMA UnblockSteps ==
    ASSUME NEW x, NEW s, Len(s) \in Nat
    PROVE  \E g : /\ g[0] = x /\ UnblockAll(x, s) = g[Len(s)]
                  /\ \A n \in Nat : n < Len(s) => g[n + 1] = Unblock(g[n], s[n + 1])
<1> DEFINE N == Len(s)
           At(g, n) == IF n = 0 THEN x ELSE Unblock(g[n - 1], s[n])
           after == CHOOSE g : g = [n \in 0 .. N |-> At(g, n)]
           S == {m \in Nat : \E g : g = [n \in 0 .. m |-> At(g, n)]}
<1>1. UnblockAll(x, s) = after[N]
    BY DEF UnblockAll
<1>2. 0 \in S
    <2> DEFINE g == [n \in 0 .. 0 |-> x]
    <2>1. \A n \in 0 .. 0 : n = 0
        OBVIOUS
    <2>2. g = [n \in 0 .. 0 |-> At(g, n)]
        BY <2>1
    <2> QED BY <2>2
<1>3. ASSUME NEW m \in Nat, m \in S PROVE m + 1 \in S
    <2>1. PICK g : g = [n \in 0 .. m |-> At(g, n)]
        BY <1>3
    <2> DEFINE h == [n \in 0 .. m + 1 |-> IF n = m + 1 THEN Unblock(g[m], s[m + 1]) ELSE g[n]]
    <2>2. ASSUME NEW n \in 0 .. m + 1 PROVE h[n] = At(h, n)
        <3>1. CASE n = m + 1
            <4>1. n # 0 /\ n - 1 = m /\ m \in 0 .. m + 1 /\ m # m + 1
                BY <3>1
            <4>2. h[n] = Unblock(g[m], s[m + 1]) /\ h[n - 1] = g[m]
                BY <3>1, <4>1
            <4> HIDE DEF h
            <4> QED BY <3>1, <4>1, <4>2
        <3>2. CASE n # m + 1
            <4>1. n \in 0 .. m /\ h[n] = g[n]
                BY <3>2
            <4>2. n # 0 => n - 1 \in 0 .. m + 1 /\ n - 1 # m + 1
                BY <3>2
            <4>3. n # 0 => h[n - 1] = g[n - 1]
                BY <4>2
            <4>4. g[n] = At(g, n)
                BY <2>1, <4>1
            <4> HIDE DEF h
            <4> QED BY <4>1, <4>3, <4>4
        <3> QED BY <3>1, <3>2
    <2>3. h = [n \in 0 .. m + 1 |-> h[n]]
        OBVIOUS
    <2> HIDE DEF h
    <2>4. h = [n \in 0 .. m + 1 |-> At(h, n)]
        BY <2>2, <2>3
    <2> QED BY <2>4
<1>4. N \in S
    <2> HIDE DEF S
    <2>1. \A n \in Nat : n \in S
        BY <1>2, <1>3, Induction
    <2> QED BY <2>1
<1>5. after = [n \in 0 .. N |-> At(after, n)]
    BY <1>4
<1> HIDE DEF after
<1>6. after[0] = x
    BY <1>5
<1>7. ASSUME NEW n \in Nat, n < N PROVE after[n + 1] = Unblock(after[n], s[n + 1])
    <2>1. n + 1 \in 0 .. N /\ n + 1 # 0 /\ (n + 1) - 1 = n
        BY <1>7
    <2>2. after[n + 1] = At(after, n + 1)
        BY <1>5, <2>1
    <2> QED BY <2>1, <2>2
<1> QED BY <1>1, <1>6, <1>7

-----------------------------------------------------------------------------
(* Tasks that become ready one after the other. *)

\* Those in S are ready now, and in no other list; asks says whether one as
\* urgent as the running task asks for a switch.
Roused(x, y, S, asks) ==
    /\ Ready(y) = Ready(x) \cup S /\ Delayed(y) = Delayed(x) \ S /\ Overflowed(y) = Overflowed(x) \ S
    /\ Suspended(y) = Suspended(x) \ S /\ Pended(y) = Pended(x) \ S /\ Waiting(y) = Waiting(x) \ S
    /\ SameNext(x, y) /\ SameTimes(x, y) /\ SameClock(x, y) /\ SameRanks(x, y) /\ SameCurrent(x, y)
    /\ SameAsserts(x, y) /\ SameRest(x, y) /\ y.xTasksWaitingTermination = x.xTasksWaitingTermination
    /\ y.xYieldPending <=>
         x.xYieldPending \/ (asks /\ \E t \in S : x.uxPriority[t] >= x.uxPriority[x.pxCurrentTCB])

LEMMA RousedOn ==
    ASSUME NEW x, NEW y, NEW z, NEW S, NEW T, NEW asks, Roused(x, y, S, asks), Roused(y, z, T, asks)
    PROVE  Roused(x, z, S \cup T, asks)
<1>1. /\ Ready(z) = Ready(x) \cup (S \cup T) /\ Delayed(z) = Delayed(x) \ (S \cup T)
      /\ Overflowed(z) = Overflowed(x) \ (S \cup T) /\ Suspended(z) = Suspended(x) \ (S \cup T)
      /\ Pended(z) = Pended(x) \ (S \cup T) /\ Waiting(z) = Waiting(x) \ (S \cup T)
    BY DEF Roused
<1>2. /\ SameNext(x, z) /\ SameTimes(x, z) /\ SameClock(x, z) /\ SameRanks(x, z) /\ SameCurrent(x, z)
      /\ SameAsserts(x, z) /\ SameRest(x, z) /\ z.xTasksWaitingTermination = x.xTasksWaitingTermination
    BY DEF Roused, SameNext, SameTimes, SameClock, SameRanks, SameCurrent, SameAsserts, SameRest
<1>3. y.uxPriority = x.uxPriority /\ y.pxCurrentTCB = x.pxCurrentTCB
    BY DEF Roused, SameRanks, SameCurrent
<1>4. z.xYieldPending <=>
        x.xYieldPending \/ (asks /\ \E t \in S \cup T : x.uxPriority[t] >= x.uxPriority[x.pxCurrentTCB])
    BY <1>3 DEF Roused
<1> QED BY <1>1, <1>2, <1>4 DEF Roused

\* A walk over a list that rouses one task after the other rouses them all.
LEMMA RouseEach ==
    ASSUME NEW x, NEW least, Sound(x, {}, {}, least), NEW s \in Seq(Tasks), NEW asks, NEW g, g[0] = x,
           \A t \in Elements(s) : t \in x.allocated /\ t \notin Deleted(x),
           \A n \in Nat : n < Len(s) /\ Sound(g[n], {}, {}, least)
                  /\ s[n + 1] \in g[n].allocated /\ s[n + 1] \notin Deleted(g[n])
              => Sound(g[n + 1], {}, {}, least) /\ Roused(g[n], g[n + 1], {s[n + 1]}, asks)
    PROVE  Sound(g[Len(s)], {}, {}, least) /\ Roused(x, g[Len(s)], Elements(s), asks)
<1> DEFINE E(n) == {s[i] : i \in 1 .. n}
           S == {n \in Nat : n <= Len(s) => Sound(g[n], {}, {}, least) /\ Roused(x, g[n], E(n), asks)}
<1>1. Len(s) \in Nat /\ DOMAIN s = 1 .. Len(s)
    OBVIOUS
<1>2. 0 \in S
    <2>1. E(0) = {}
        OBVIOUS
    <2> HIDE DEF E
    <2>2. Roused(x, x, {}, asks)
        BY DEF Roused, SameNext, SameTimes, SameClock, SameRanks, SameCurrent, SameAsserts, SameRest
    <2> QED BY <2>1, <2>2
<1>3. ASSUME NEW n \in Nat, n \in S PROVE n + 1 \in S
    <2> SUFFICES ASSUME n + 1 <= Len(s)
                 PROVE  Sound(g[n + 1], {}, {}, least) /\ Roused(x, g[n + 1], E(n + 1), asks)
        OBVIOUS
    <2>1. E(n + 1) = E(n) \cup {s[n + 1]}
        <3>1. \A i \in 1 .. n + 1 : i \in 1 .. n \/ i = n + 1
            OBVIOUS
        <3>2. n + 1 \in 1 .. n + 1 /\ \A i \in 1 .. n : i \in 1 .. n + 1
            OBVIOUS
        <3> QED BY <3>1, <3>2
    <2> HIDE DEF E
    <2>2. n < Len(s) /\ n <= Len(s) /\ n + 1 \in DOMAIN s
        BY <1>1
    <2>3. Sound(g[n], {}, {}, least) /\ Roused(x, g[n], E(n), asks)
        BY <1>3, <2>2
    <2>4. s[n + 1] \in g[n].allocated /\ s[n + 1] \notin Deleted(g[n])
        <3>1. s[n + 1] \in Elements(s)
            BY <2>2 DEF Elements
        <3> QED BY <2>3, <3>1 DEF Roused, SameRest, Deleted
    <2>5. Sound(g[n + 1], {}, {}, least) /\ Roused(g[n], g[n + 1], {s[n + 1]}, asks)
        BY <2>2, <2>3, <2>4
    <2>6. Roused(x, g[n + 1], E(n) \cup {s[n + 1]}, asks)
        BY <2>3, <2>5, RousedOn
    <2> QED BY <2>1, <2>5, <2>6
<1>4. E(Len(s)) = Elements(s)
    BY <1>1 DEF Elements
<1> HIDE DEF E
<1>5. Len(s) \in S
    <2> HIDE DEF S
    <2>1. \A n \in Nat : n \in S
        BY <1>2, <1>3, Induction
    <2> QED BY <1>1, <2>1
<1> QED BY <1>1, <1>4, <1>5

LEMMA UnblockAllKeeps ==
    ASSUME NEW x, NEW least, Sound(x, {}, {}, least), NEW s \in Seq(Tasks),
           \A t \in Elements(s) : t \in x.allocated /\ t \notin Deleted(x)
    PROVE  Sound(UnblockAll(x, s), {}, {}, least) /\ Roused(x, UnblockAll(x, s), Elements(s), FALSE)
<1>1. Len(s) \in Nat
    OBVIOUS
<1>2. PICK g : /\ g[0] = x /\ UnblockAll(x, s) = g[Len(s)]
               /\ \A n \in Nat : n < Len(s) => g[n + 1] = Unblock(g[n], s[n + 1])
    BY <1>1, UnblockSteps
<1>3. ASSUME NEW n \in Nat, n < Len(s), Sound(g[n], {}, {}, least),
             s[n + 1] \in g[n].allocated, s[n + 1] \notin Deleted(g[n])
      PROVE  Sound(g[n + 1], {}, {}, least) /\ Roused(g[n], g[n + 1], {s[n + 1]}, FALSE)
    <2> DEFINE y == g[n + 1]
               t == s[n + 1]
               z == g[n]
    <2>1. y = Unblock(z, t)
        BY <1>2, <1>3
    <2>2. Sound(z, {}, {}, least) /\ t \in z.allocated /\ t \notin Deleted(z)
        BY <1>3
    <2> HIDE DEF y, z, t
    <2>3. /\ Sound(y, {}, {}, least)
          /\ Ready(y) = Ready(z) \cup {t} /\ Delayed(y) = Delayed(z) \ {t}
          /\ Overflowed(y) = Overflowed(z) \ {t} /\ Suspended(y) = Suspended(z) \ {t}
          /\ Pended(y) = Pended(z) \ {t} /\ Waiting(y) = Waiting(z) \ {t}
          /\ SameNext(z, y) /\ Kept(z, y)
        BY <2>1, <2>2, UnblockKeeps
    <2>4. Roused(z, y, {t}, FALSE)
        BY <2>3 DEF Roused, Kept, SameYield
    <2> QED BY <2>3, <2>4 DEF y, z, t
<1> HIDE DEF Roused, Sound
<1> QED BY <1>2, <1>3, RouseEach

\* ReadyEach goes from one task to the next.
LEMMA ReadySteps ==
    ASSUME NEW x, NEW s, Len(s) \in Nat
    PROVE  \E g : /\ g[0] = x /\ ReadyEach(x, s) = g[Len(s)]
                  /\ \A n \in Nat : n < Len(s) => g[n + 1] = ReadyPended(g[n], s[n + 1])
<1> DEFINE N == Len(s)
           At(g, n) == IF n = 0 THEN x ELSE ReadyPended(g[n - 1], s[n])
           after == CHOOSE g : g = [n \in 0 .. N |-> At(g, n)]
           S == {m \in Nat : \E g : g = [n \in 0 .. m |-> At(g, n)]}
<1>1. ReadyEach(x, s) = after[N]
    BY DEF ReadyEach
<1>2. 0 \in S
    <2> DEFINE g == [n \in 0 .. 0 |-> x]
    <2>1. \A n \in 0 .. 0 : n = 0
        OBVIOUS
    <2>2. g = [n \in 0 .. 0 |-> At(g, n)]
        BY <2>1
    <2> QED BY <2>2
<1>3. ASSUME NEW m \in Nat, m \in S PROVE m + 1 \in S
    <2>1. PICK g : g = [n \in 0 .. m |-> At(g, n)]
        BY <1>3
    <2> DEFINE h == [n \in 0 .. m + 1 |-> IF n = m + 1 THEN ReadyPended(g[m], s[m + 1]) ELSE g[n]]
    <2>2. ASSUME NEW n \in 0 .. m + 1 PROVE h[n] = At(h, n)
        <3>1. CASE n = m + 1
            <4>1. n # 0 /\ n - 1 = m /\ m \in 0 .. m + 1 /\ m # m + 1
                BY <3>1
            <4>2. h[n] = ReadyPended(g[m], s[m + 1]) /\ h[n - 1] = g[m]
                BY <3>1, <4>1
            <4> HIDE DEF h
            <4> QED BY <3>1, <4>1, <4>2
        <3>2. CASE n # m + 1
            <4>1. n \in 0 .. m /\ h[n] = g[n]
                BY <3>2
            <4>2. n # 0 => n - 1 \in 0 .. m + 1 /\ n - 1 # m + 1
                BY <3>2
            <4>3. n # 0 => h[n - 1] = g[n - 1]
                BY <4>2
            <4>4. g[n] = At(g, n)
                BY <2>1, <4>1
            <4> HIDE DEF h
            <4> QED BY <4>1, <4>3, <4>4
        <3> QED BY <3>1, <3>2
    <2>3. h = [n \in 0 .. m + 1 |-> h[n]]
        OBVIOUS
    <2> HIDE DEF h
    <2>4. h = [n \in 0 .. m + 1 |-> At(h, n)]
        BY <2>2, <2>3
    <2> QED BY <2>4
<1>4. N \in S
    <2> HIDE DEF S
    <2>1. \A n \in Nat : n \in S
        BY <1>2, <1>3, Induction
    <2> QED BY <2>1
<1>5. after = [n \in 0 .. N |-> At(after, n)]
    BY <1>4
<1> HIDE DEF after
<1>6. after[0] = x
    BY <1>5
<1>7. ASSUME NEW n \in Nat, n < N PROVE after[n + 1] = ReadyPended(after[n], s[n + 1])
    <2>1. n + 1 \in 0 .. N /\ n + 1 # 0 /\ (n + 1) - 1 = n
        BY <1>7
    <2>2. after[n + 1] = At(after, n + 1)
        BY <1>5, <2>1
    <2> QED BY <2>1, <2>2
<1> QED BY <1>1, <1>6, <1>7

\* A task an interrupt made ready: it asks for a switch if it is as urgent as
\* the running one.
LEMMA ReadyPendedKeeps ==
    ASSUME NEW x, NEW least, Sound(x, {}, {}, least), NEW t \in x.allocated, t \notin Deleted(x)
    PROVE  Sound(ReadyPended(x, t), {}, {}, least) /\ Roused(x, ReadyPended(x, t), {t}, TRUE)
<1> DEFINE z == Unblock(x, t)
           y == ReadyPended(x, t)
           asked == x.uxPriority[t] >= x.uxPriority[x.pxCurrentTCB]
<1>1. /\ Sound(z, {}, {}, least)
      /\ Ready(z) = Ready(x) \cup {t} /\ Delayed(z) = Delayed(x) \ {t}
      /\ Overflowed(z) = Overflowed(x) \ {t} /\ Suspended(z) = Suspended(x) \ {t}
      /\ Pended(z) = Pended(x) \ {t} /\ Waiting(z) = Waiting(x) \ {t}
      /\ SameNext(x, z) /\ Kept(x, z)
    BY UnblockKeeps
<1>2. y = IF asked THEN Asking(z, TRUE) ELSE z
    BY DEF ReadyPended, Asking
<1> HIDE DEF z, y
<1>3. CASE ~asked
    BY <1>1, <1>2, <1>3 DEF Roused, Kept, SameYield, y
<1>4. CASE asked
    <2>1. y = Asking(z, TRUE) /\ Mem(z)
        BY <1>1, <1>2, <1>4 DEF Sound
    <2>2. Mem(y) /\ Alike(z, y) /\ SameCurrent(z, y) /\ SameRest(z, y) /\ SameAsserts(z, y) /\ y.xYieldPending = TRUE
        BY <2>1, YieldSetIs
    <2>3. Sound(y, {}, {}, least) /\ SameViews(z, y)
        BY <1>1, <2>2, AlikeKeeps
    <2>4. /\ Ready(y) = Ready(x) \cup {t} /\ Delayed(y) = Delayed(x) \ {t}
          /\ Overflowed(y) = Overflowed(x) \ {t} /\ Suspended(y) = Suspended(x) \ {t}
          /\ Pended(y) = Pended(x) \ {t} /\ Waiting(y) = Waiting(x) \ {t}
        BY <1>1, <2>3 DEF SameViews
    <2>5. /\ SameNext(x, y) /\ SameTimes(x, y) /\ SameClock(x, y) /\ SameRanks(x, y) /\ SameCurrent(x, y)
          /\ SameAsserts(x, y) /\ SameRest(x, y) /\ y.xTasksWaitingTermination = x.xTasksWaitingTermination
        BY <1>1, <2>2 DEF Kept, Alike, SameParked, SameNext, SameTimes, SameClock, SameRanks, SameCurrent, SameAsserts, SameRest
    <2>6. y.xYieldPending <=>
            x.xYieldPending \/ (TRUE /\ \E u \in {t} : x.uxPriority[u] >= x.uxPriority[x.pxCurrentTCB])
        BY <1>4, <2>2
    <2> QED BY <2>3, <2>4, <2>5, <2>6 DEF Roused, y
<1> QED BY <1>3, <1>4

LEMMA ReadyEachKeeps ==
    ASSUME NEW x, NEW least, Sound(x, {}, {}, least), NEW s \in Seq(Tasks),
           \A t \in Elements(s) : t \in x.allocated /\ t \notin Deleted(x)
    PROVE  Sound(ReadyEach(x, s), {}, {}, least) /\ Roused(x, ReadyEach(x, s), Elements(s), TRUE)
<1>1. Len(s) \in Nat
    OBVIOUS
<1>2. PICK g : /\ g[0] = x /\ ReadyEach(x, s) = g[Len(s)]
               /\ \A n \in Nat : n < Len(s) => g[n + 1] = ReadyPended(g[n], s[n + 1])
    BY <1>1, ReadySteps
<1>3. ASSUME NEW n \in Nat, n < Len(s), Sound(g[n], {}, {}, least),
             s[n + 1] \in g[n].allocated, s[n + 1] \notin Deleted(g[n])
      PROVE  Sound(g[n + 1], {}, {}, least) /\ Roused(g[n], g[n + 1], {s[n + 1]}, TRUE)
    BY <1>2, <1>3, ReadyPendedKeeps
<1> HIDE DEF Roused, Sound
<1> QED BY <1>2, <1>3, RouseEach

LEMMA NoneDue ==
    ASSUME NEW x, Sound(x, {}, {}, 0), \A t \in Delayed(x) : Until(x, t) >= 1
    PROVE  Sound(x, {}, {}, 1)
<1>1. \A t \in Delayed(x) : Until(x, t) \in 0 .. TickMod - 1
    BY DEF Sound, Times
<1>2. \A t \in Delayed(x) : Until(x, t) \in 1 .. TickMod - 1
    BY <1>1, Numbers
<1> QED BY <1>2 DEF Sound, Times

\* What the tick's search for expired tasks leaves alone.
Awoken(x, y) ==
    /\ Ready(x) \subseteq Ready(y) /\ Pended(y) \subseteq Pended(x)
    /\ SameClock(x, y) /\ SameRanks(x, y) /\ SameCurrent(x, y) /\ SameYield(x, y) /\ SameAsserts(x, y)
    /\ SameRest(x, y) /\ y.xTasksWaitingTermination = x.xTasksWaitingTermination

\* After the search no task is overdue, and it says so when it woke one as
\* urgent as the running task.
LEMMA UnblockExpiredKeeps ==
    ASSUME NEW x, Sound(x, {}, {}, 0)
    PROVE  LET r == UnblockExpired(x)
           IN  /\ Sound(r.k, {}, {}, 1) /\ Awoken(x, r.k) /\ r.ret \in BOOLEAN /\ DOMAIN r = {"k", "ret"}
               /\ \A t \in Ready(r.k) : t \notin Ready(x) /\ x.uxPriority[t] >= x.uxPriority[x.pxCurrentTCB] => r.ret
<1> DEFINE r == UnblockExpired(x)
           e == Expired(x)
<1>1. Mem(x) /\ Homes(x, {}) /\ Times(x, 0)
    BY DEF Sound
<1>2. CASE ~Timely(x)
    <2>1. r.k = x /\ r.ret = FALSE /\ DOMAIN r = {"k", "ret"}
        BY <1>2 DEF UnblockExpired, Ok
    <2>2. ASSUME NEW t \in Delayed(x) PROVE Until(x, t) >= 1
        <3>1. /\ Until(x, t) \in 0 .. TickMod - 1 /\ x.xItemValue[t] = x.xTickCount + Until(x, t)
              /\ x.xNextTaskUnblockTime <= x.xItemValue[t]
            BY <1>1 DEF Times
        <3>2. x.xTickCount \in Int /\ x.xNextTaskUnblockTime \in Int
            BY <1>1 DEF Mem, Ticks
        <3> QED BY <1>2, <3>1, <3>2, Numbers DEF Timely
    <2>3. Sound(x, {}, {}, 1)
        BY <2>2, NoneDue
    <2>4. Awoken(x, x)
        BY DEF Awoken, SameClock, SameRanks, SameCurrent, SameYield, SameAsserts, SameRest
    <2> QED BY <2>1, <2>3, <2>4 DEF r
<1>3. CASE Timely(x)
    <2> DEFINE z == UnblockAll(x, e)
               y == prvResetNextTaskUnblockTime(z)
               asked == \E i \in DOMAIN e : x.uxPriority[e[i]] >= x.uxPriority[x.pxCurrentTCB]
    <2>1. r = Ok(y, asked)
        BY <1>3 DEF UnblockExpired
    <2>2. r.k = y /\ r.ret = asked /\ asked \in BOOLEAN /\ DOMAIN r = {"k", "ret"}
        BY <2>1 DEF Ok
    <2>3. /\ e \in TaskLists /\ Elements(e) \subseteq Delayed(x)
          /\ \A t \in Delayed(x) : t \notin Elements(e) => Until(x, t) >= 1
        BY ExpiredIs
    <2>4. e \in Seq(Tasks) /\ \A t \in Elements(e) : t \in x.allocated /\ t \notin Deleted(x)
        BY <1>1, <2>3 DEF TaskLists, Homes
    <2> HIDE DEF e
    <2>5. Sound(z, {}, {}, 0) /\ Roused(x, z, Elements(e), FALSE)
        BY <2>4, UnblockAllKeeps
    <2> HIDE DEF z
    <2>6. \A t \in Delayed(z) : Until(z, t) >= 1
        BY <2>3, <2>5 DEF Roused, Until, SameTimes, SameClock
    <2>7. Sound(z, {}, {}, 1)
        BY <2>5, <2>6, NoneDue
    <2>8. Sound(y, {}, {}, 1) /\ SameViews(z, y) /\ SameEvents(z, y) /\ Kept(z, y)
        BY <2>7, ResetNextKeeps
    <2> HIDE DEF y
    <2>9. SameYield(x, z)
        BY <1>1, <2>5, <2>7 DEF Roused, SameYield, Sound, Mem
    <2>10. Awoken(x, y)
        BY <2>5, <2>8, <2>9 DEF Awoken, Roused, SameViews, Kept, SameClock, SameRanks, SameCurrent, SameYield,
           SameAsserts, SameRest
    <2>11. ASSUME NEW t \in Ready(y), t \notin Ready(x), x.uxPriority[t] >= x.uxPriority[x.pxCurrentTCB] PROVE asked
        <3>1. t \in Elements(e)
            BY <2>5, <2>8, <2>11 DEF Roused, SameViews
        <3> QED BY <2>11, <3>1 DEF Elements
    <2> HIDE DEF asked
    <2> QED BY <2>2, <2>8, <2>10, <2>11
<1> QED BY <1>2, <1>3

-----------------------------------------------------------------------------
(* What holds between two steps of the running system. *)

\* The idle task is always ready; the running task exists, and only one that
\* deletes itself runs on after it was put aside.
Base(x) ==
    /\ Sound(x, {}, {}, 1)
    /\ x.uxDeletedTasksWaitingCleanUp = Len(x.xTasksWaitingTermination)
    /\ IdleTask \in Ready(x)
    /\ x.pxCurrentTCB \in x.allocated
    /\ x.pxCurrentTCB \in Deleted(x) => x.uxSchedulerSuspended = 0

\* The running task is ready, and none that is ready has a higher priority.
Highest(x) ==
    /\ x.pxCurrentTCB \in Ready(x)
    /\ \A u \in Ready(x) : x.uxPriority[u] <= x.uxPriority[x.pxCurrentTCB]

\* Unless it is on its way to yield (c), or asked to, it is the right one.
Fine(x, c) ==
    \/ x.pxCurrentTCB = c
    \/ x.pxCurrentTCB \notin Deleted(x) /\ (x.xYieldPending \/ Highest(x))

\* Nothing is pended while the scheduler is not suspended.
Quiet(x) == x.uxSchedulerSuspended = 0 => Pended(x) = {} /\ x.xPendedTicks = 0

Run(x, c) == Base(x) /\ Quiet(x) /\ Fine(x, c)

LEMMA BaseKeeps ==
    ASSUME NEW x, NEW y, Base(x), Sound(y, {}, {}, 1), IdleTask \in Ready(y), SameCurrent(x, y), SameRest(x, y),
           y.xTasksWaitingTermination = x.xTasksWaitingTermination
    PROVE  Base(y)
BY DEF Base, SameCurrent, SameRest, Deleted

LEMMA RunTypes ==
    ASSUME NEW x, Base(x)
    PROVE  /\ Mem(x) /\ x.pxCurrentTCB \in Tasks /\ x.pxCurrentTCB \in x.allocated /\ Ready(x) \subseteq Tasks
           /\ \A t \in Tasks : x.uxPriority[t] \in Priorities
           /\ x.uxSchedulerSuspended \in Nat /\ Priorities \subseteq Int
<1>1. Mem(x) /\ x.pxCurrentTCB \in x.allocated
    BY DEF Base, Sound
<1> QED BY <1>1 DEF Mem, Ready, Priorities

\* A tick: the counters go on, and the tasks whose time has come are ready.
LEMMA TickKeeps ==
    ASSUME NEW x, NEW c, Base(x), Fine(x, c)
    PROVE  LET r == Sliced(UnblockExpired(Advance(x)))
           IN  /\ Base(r.k) /\ r.ret \in BOOLEAN /\ DOMAIN r = {"k", "ret"} /\ (r.ret \/ Fine(r.k, c))
               /\ Pended(r.k) \subseteq Pended(x) /\ SameCurrent(x, r.k) /\ SameRest(x, r.k) /\ SameAsserts(x, r.k)
               /\ r.k.xTasksWaitingTermination = x.xTasksWaitingTermination
<1> DEFINE z  == Advance(x)
           r0 == UnblockExpired(z)
           r  == Sliced(r0)
<1>1. Sound(x, {}, {}, 1) /\ Mem(x) /\ x.pxCurrentTCB \in Tasks /\ Ready(x) \subseteq Tasks
      /\ (\A t \in Tasks : x.uxPriority[t] \in Int)
    BY RunTypes DEF Base
<1>2. Sound(z, {}, {}, 0) /\ SameReady(x, z) /\ Timed(x, z)
    BY <1>1, AdvanceKeeps
<1> HIDE DEF z
<1>3. /\ Sound(r0.k, {}, {}, 1) /\ Awoken(z, r0.k) /\ r0.ret \in BOOLEAN /\ DOMAIN r0 = {"k", "ret"}
      /\ \A t \in Ready(r0.k) : t \notin Ready(z) /\ z.uxPriority[t] >= z.uxPriority[z.pxCurrentTCB] => r0.ret
    BY <1>2, UnblockExpiredKeeps
<1> HIDE DEF r0
<1>4. /\ Ready(z) = Ready(x) /\ Pended(z) = Pended(x) /\ z.uxPriority = x.uxPriority
      /\ z.pxCurrentTCB = x.pxCurrentTCB /\ z.xTasksWaitingTermination = x.xTasksWaitingTermination
      /\ z.xYieldPending = x.xYieldPending
    BY <1>2 DEF Timed, SameReady, SameEvents, SameRanks, SameCurrent, SameParked, SameYield, Ready, ReadyAt, Pended
<1>5. r.k = r0.k /\ r.ret \in BOOLEAN /\ (r0.ret => r.ret) /\ DOMAIN r = {"k", "ret"}
    BY <1>3 DEF Sliced
<1> HIDE DEF r
<1> DEFINE y == r.k
<1>6. /\ Sound(y, {}, {}, 1) /\ Ready(x) \subseteq Ready(y) /\ Pended(y) \subseteq Pended(x)
      /\ SameCurrent(x, y) /\ SameRest(x, y) /\ SameAsserts(x, y) /\ SameRanks(x, y) /\ SameYield(x, y)
      /\ y.xTasksWaitingTermination = x.xTasksWaitingTermination
    BY <1>2, <1>3, <1>4, <1>5 DEF Awoken, Timed, SameCurrent, SameRest, SameAsserts, SameRanks, SameYield
<1>7. \A t \in Ready(y) : t \notin Ready(x) /\ x.uxPriority[t] >= x.uxPriority[x.pxCurrentTCB] => r.ret
    BY <1>3, <1>4, <1>5
<1> HIDE DEF y
<1>8. Base(y)
    <2>1. IdleTask \in Ready(y)
        BY <1>6 DEF Base
    <2> QED BY <1>6, <2>1, BaseKeeps
<1>9. r.ret \/ Fine(y, c)
    <2>1. CASE x.pxCurrentTCB = c
        BY <1>6, <2>1 DEF Fine, SameCurrent
    <2>2. CASE x.pxCurrentTCB \notin Deleted(x) /\ x.xYieldPending
        BY <1>6, <2>2 DEF Fine, SameCurrent, SameYield, Deleted
    <2>3. CASE x.pxCurrentTCB \notin Deleted(x) /\ Highest(x)
        <3>1. ASSUME NEW u \in Ready(y), ~r.ret PROVE y.uxPriority[u] <= y.uxPriority[y.pxCurrentTCB]
            <4>1. u \in Tasks
                BY <1>8, RunTypes
            <4>2. CASE u \in Ready(x)
                BY <1>6, <2>3, <4>2 DEF Highest, SameRanks, SameCurrent
            <4>3. CASE u \notin Ready(x)
                <5>1. ~(x.uxPriority[u] >= x.uxPriority[x.pxCurrentTCB])
                    BY <1>7, <3>1, <4>3
                <5>2. x.uxPriority[u] <= x.uxPriority[x.pxCurrentTCB]
                    BY <1>1, <4>1, <5>1
                <5> QED BY <1>6, <5>2 DEF SameRanks, SameCurrent
            <4> QED BY <4>2, <4>3
        <3>2. y.pxCurrentTCB \in Ready(y)
            BY <1>6, <2>3 DEF Highest, SameCurrent
        <3> QED BY <1>6, <2>3, <3>1, <3>2 DEF Fine, Highest, SameCurrent, Deleted
    <2> QED BY <2>1, <2>2, <2>3 DEF Fine
<1> QED BY <1>5, <1>6, <1>8, <1>9 DEF y, r, r0, z

-----------------------------------------------------------------------------
(* Switching the context. *)

LEMMA GreatestIs ==
    ASSUME NEW m \in Nat, NEW P \in SUBSET (0 .. m), P # {}
    PROVE  \E p \in P : \A q \in P : q <= p
<1> DEFINE Q == {m - p : p \in P}
<1>1. Q \in SUBSET Nat /\ Q # {}
    <2>1. \A p \in P : m - p \in Nat
        OBVIOUS
    <2> QED BY <2>1
<1>2. PICK n \in Q : \A o \in Q : n <= o
    BY <1>1, LeastIs
<1>3. PICK p \in P : n = m - p
    OBVIOUS
<1>4. ASSUME NEW q \in P PROVE q <= p
    <2>1. n <= m - q
        BY <1>2
    <2> QED BY <1>3, <2>1
<1> QED BY <1>4

\* taskSELECT_HIGHEST_PRIORITY_TASK picks a ready task of the highest priority.
LEMMA SelectKeeps ==
    ASSUME NEW x, Sound(x, {}, {}, 1), Ready(x) # {}
    PROVE  LET y == taskSELECT_HIGHEST_PRIORITY_TASK(x)
           IN  /\ Sound(y, {}, {}, 1) /\ Highest(y)
               /\ Ready(y) = Ready(x) /\ SameSleep(x, y) /\ SameParked(x, y) /\ SameEvents(x, y)
               /\ SameTimes(x, y) /\ SameNext(x, y) /\ SameClock(x, y) /\ SameRanks(x, y)
               /\ SameYield(x, y) /\ SameAsserts(x, y) /\ SameRest(x, y)
<1> DEFINE top == x.uxTopReadyPriority
           p == CHOOSE q \in top : \A r \in top : r <= q
           l == listGET_OWNER_OF_NEXT_ENTRY(x.pxReadyTasksLists[p])
           f == [x.pxReadyTasksLists EXCEPT ![p] = l]
           y == taskSELECT_HIGHEST_PRIORITY_TASK(x)
<1>1. Mem(x) /\ Homes(x, {}) /\ Ranked(x) /\ Bits(x, {}) /\ Apart(x) /\ Times(x, 1)
    BY DEF Sound
<1>2. top # {}
    <2>1. PICK t \in Ready(x) : TRUE
        OBVIOUS
    <2>2. PICK q \in Priorities : t \in ReadyAt(x, q)
        BY <2>1 DEF Ready
    <2> QED BY <1>1, <2>2 DEF Bits
<1>3. p \in top /\ \A r \in top : r <= p
    <2>1. configMAX_PRIORITIES - 1 \in Nat /\ top \in SUBSET (0 .. configMAX_PRIORITIES - 1)
        BY <1>1, Numbers DEF Mem, Priorities
    <2>2. \E q \in top : \A r \in top : r <= q
        BY <1>2, <2>1, GreatestIs
    <2> QED BY <2>2
<1>4. p \in Priorities /\ ReadyAt(x, p) # {}
    BY <1>1, <1>3 DEF Mem, Bits
<1>5. /\ x.pxReadyTasksLists \in [Priorities -> ReadyLists] /\ x.pxReadyTasksLists[p] \in ReadyLists
      /\ GoodReady(Tasks, x.pxReadyTasksLists[p]) /\ x.pxReadyTasksLists[p].items # <<>>
    <2>1. x.pxReadyTasksLists \in [Priorities -> ReadyLists] /\ x.pxReadyTasksLists[p] \in ReadyLists
        BY <1>1, <1>4 DEF Mem
    <2>2. x.pxReadyTasksLists[p].items \in Seq(Tasks) /\ GoodReady(Tasks, x.pxReadyTasksLists[p])
        BY <2>1 DEF ReadyLists
    <2> QED BY <1>4, <2>1, <2>2, NobodyIn DEF ReadyAt
<1>6. GoodReady(Tasks, l) /\ l.items = x.pxReadyTasksLists[p].items /\ Owner(l) \in ReadyAt(x, p)
    BY <1>5, ReadyNextIs DEF ReadyAt
<1>7. l \in [items : Seq(Tasks), index : Nat]
    <2>1. x.pxReadyTasksLists[p] \in [items : Seq(Tasks), index : Nat]
        BY <1>5 DEF ReadyLists
    <2>2. Len(x.pxReadyTasksLists[p].items) \in Nat
        BY <2>1
    <2> DEFINE r == x.pxReadyTasksLists[p]
               n == IF r.index < Len(r.items) THEN r.index + 1 ELSE 1
    <2>3. l = [r EXCEPT !.index = n] /\ n \in Nat
        BY <2>1, <2>2 DEF listGET_OWNER_OF_NEXT_ENTRY
    <2> HIDE DEF r, n
    <2>4. r \in [items : Seq(Tasks), index : Nat]
        BY <2>1 DEF r
    <2> QED BY <2>3, <2>4
<1>8. y = Choosing(x, f, Owner(l))
    <2>1. ~(x.uxTopReadyPriority = {} \/ x.pxReadyTasksLists[p].items = <<>>)
        BY <1>2, <1>5
    <2> QED BY <2>1 DEF taskSELECT_HIGHEST_PRIORITY_TASK, Choosing
<1> HIDE DEF p, l, y
<1>9. f \in [Priorities -> ReadyLists] /\ \A q \in Priorities : f[q].items = x.pxReadyTasksLists[q].items
    BY <1>4, <1>5, <1>6, <1>7 DEF ReadyLists
<1>10. Owner(l) \in Tasks
    <2>1. x.pxReadyTasksLists[p].items \in Seq(Tasks)
        BY <1>5 DEF ReadyLists
    <2> QED BY <1>6, <2>1 DEF ReadyAt, Elements
<1> HIDE DEF f
<1>11. /\ Mem(y) /\ y.pxCurrentTCB = Owner(l) /\ \A q \in Priorities : ReadyAt(y, q) = ReadyAt(x, q)
       /\ SameTop(x, y) /\ SameSleep(x, y) /\ SameParked(x, y) /\ SameEvents(x, y)
       /\ SameTimes(x, y) /\ SameNext(x, y) /\ SameClock(x, y) /\ SameRanks(x, y)
       /\ SameYield(x, y) /\ SameAsserts(x, y) /\ SameRest(x, y)
    BY <1>1, <1>8, <1>9, <1>10, CurrentSetIs
<1>12. /\ Ready(y) = Ready(x) /\ Delayed(y) = Delayed(x) /\ Overflowed(y) = Overflowed(x)
       /\ Suspended(y) = Suspended(x) /\ Deleted(y) = Deleted(x) /\ Pended(y) = Pended(x) /\ Waiting(y) = Waiting(x)
    BY <1>11 DEF Ready, SameSleep, SameParked, SameEvents, Delayed, Overflowed, Suspended, Deleted, Pended, Waiting,
           WaitingAt
<1>13. Homes(y, {}) /\ Ranked(y) /\ Bits(y, {})
    BY <1>1, <1>11, <1>12 DEF Homes, Ranked, Bits, SameRanks, SameTop, SameRest
<1>14. Apart(y)
    BY <1>1, <1>11, <1>12 DEF Apart, SameEvents, WaitingAt, SameRest
<1>15. Times(y, 1)
    BY <1>1, <1>11, <1>12 DEF Times, Until, SameTimes, SameClock, SameNext, SameSleep
<1>16. Highest(y)
    <2>1. Owner(l) \in Ready(y) /\ y.uxPriority[Owner(l)] = p
        BY <1>1, <1>4, <1>6, <1>10, <1>11 DEF Ready, Ranked, SameRanks
    <2>2. ASSUME NEW u \in Ready(y) PROVE y.uxPriority[u] <= p
        <3>1. PICK q \in Priorities : u \in ReadyAt(x, q)
            BY <1>11, <2>2 DEF Ready
        <3>2. y.uxPriority[u] = q /\ q \in top
            BY <1>1, <1>11, <3>1 DEF Ranked, Bits, SameRanks
        <3> QED BY <1>3, <3>2
    <2> QED BY <1>11, <2>1, <2>2 DEF Highest
<1> QED BY <1>11, <1>12, <1>13, <1>14, <1>15, <1>16 DEF Sound, y

\* Yielding makes the choice right, or leaves it for when the scheduler resumes.
LEMMA YieldKeeps ==
    ASSUME NEW x, Base(x)
    PROVE  LET y == portYIELD(x)
           IN  /\ Base(y) /\ Fine(y, NULL) /\ Ready(y) = Ready(x) /\ SameEvents(x, y) /\ SameRest(x, y)
               /\ SameAsserts(x, y) /\ (x.uxSchedulerSuspended # 0 => SameCurrent(x, y))
               /\ y.xTasksWaitingTermination = x.xTasksWaitingTermination
<1> DEFINE y == portYIELD(x)
<1>1. Sound(x, {}, {}, 1) /\ Mem(x) /\ IdleTask \in Ready(x)
    BY DEF Base, Sound
<1>2. CASE x.uxSchedulerSuspended # 0
    <2>1. y = Asking(x, TRUE)
        BY <1>2 DEF portYIELD, vTaskSwitchContext, Asking
    <2> HIDE DEF y
    <2>2. /\ Mem(y) /\ Alike(x, y) /\ SameCurrent(x, y) /\ SameRest(x, y) /\ SameAsserts(x, y)
          /\ y.xYieldPending = TRUE
        BY <1>1, <2>1, YieldSetIs
    <2>3. Sound(y, {}, {}, 1) /\ SameViews(x, y)
        BY <1>1, <2>2, AlikeKeeps
    <2>4. Base(y)
        BY <1>1, <2>2, <2>3, BaseKeeps DEF SameViews, Alike, SameParked
    <2>5. Fine(y, NULL)
        BY <1>2, <2>2, <2>3, <2>4 DEF Fine, Base, SameRest
    <2> QED BY <2>2, <2>3, <2>4, <2>5 DEF y, Alike, SameViews, SameParked
<1>3. CASE x.uxSchedulerSuspended = 0
    <2> DEFINE z == Asking(x, FALSE)
    <2>1. y = taskSELECT_HIGHEST_PRIORITY_TASK(z)
        BY <1>3 DEF portYIELD, vTaskSwitchContext, Asking
    <2> HIDE DEF y
    <2>2. /\ Mem(z) /\ Alike(x, z) /\ SameCurrent(x, z) /\ SameRest(x, z) /\ SameAsserts(x, z)
        BY <1>1, YieldSetIs
    <2> HIDE DEF z
    <2>3. Sound(z, {}, {}, 1) /\ SameViews(x, z)
        BY <1>1, <2>2, AlikeKeeps
    <2>4. Ready(z) # {}
        BY <1>1, <2>3 DEF SameViews
    <2>5. /\ Sound(y, {}, {}, 1) /\ Highest(y)
          /\ Ready(y) = Ready(z) /\ SameSleep(z, y) /\ SameParked(z, y) /\ SameEvents(z, y)
          /\ SameAsserts(z, y) /\ SameRest(z, y)
        BY <2>1, <2>3, <2>4, SelectKeeps
    <2>6. /\ Ready(y) = Ready(x) /\ SameEvents(x, y) /\ SameRest(x, y) /\ SameAsserts(x, y)
          /\ y.xTasksWaitingTermination = x.xTasksWaitingTermination
        BY <2>2, <2>3, <2>5 DEF SameViews, Alike, SameEvents, SameRest, SameAsserts, SameParked
    <2>7. y.pxCurrentTCB \in Ready(y) /\ y.pxCurrentTCB \notin Deleted(y) /\ y.pxCurrentTCB \in y.allocated
        BY <2>5 DEF Highest, Sound, Homes
    <2>8. Base(y)
        BY <1>1, <2>5, <2>6, <2>7 DEF Base, SameRest
    <2>9. Fine(y, NULL)
        BY <2>5, <2>7 DEF Fine
    <2> QED BY <1>3, <2>6, <2>8, <2>9 DEF y
<1>4. x.uxSchedulerSuspended = 0 \/ x.uxSchedulerSuspended # 0
    OBVIOUS
<1> QED BY <1>2, <1>3

\* No name of a failed configASSERT is lost.
LEMMA YieldAsserts ==
    ASSUME NEW x, KernelFields \subseteq DOMAIN x, portYIELD(x).asserts = {}
    PROVE  x.asserts = {}
BY DEF KernelFields, portYIELD, vTaskSwitchContext, taskSELECT_HIGHEST_PRIORITY_TASK, configASSERT

-----------------------------------------------------------------------------
(* Steps that make one task ready, or none. *)

LEMMA LookIs ==
    ASSUME NEW x, Mem(x), NEW t \in Tasks
    PROVE  /\ EventContainer(x, t) <=> t \in Pended(x) \cup Waiting(x)
           /\ InState(x.xSuspendedTaskList, t) <=> t \in Suspended(x)
           /\ InState(x.pxDelayedTaskList, t) <=> t \in Delayed(x)
           /\ InState(x.pxOverflowDelayedTaskList, t) <=> t \in Overflowed(x)
           /\ InState(x.xTasksWaitingTermination, t) <=> t \in Deleted(x)
           /\ \A p \in Priorities : InReady(x, p, t) <=> t \in ReadyAt(x, p)
BY DEF EventContainer, InState, InReady, Contains_, Pended, Waiting, WaitingAt, Suspended, Delayed, Overflowed,
       Deleted, ReadyAt, Elements

LEMMA NoneMore ==
    ASSUME NEW x, NEW y, NEW c, Base(x), Sound(y, {}, {}, 1), Ready(y) = Ready(x),
           SameCurrent(x, y), SameRest(x, y), SameRanks(x, y), x.xYieldPending => y.xYieldPending,
           y.xTasksWaitingTermination = x.xTasksWaitingTermination
    PROVE  Base(y) /\ (Fine(x, c) => Fine(y, c))
<1>1. Base(y)
    BY BaseKeeps DEF Base
<1> QED BY <1>1 DEF Fine, Highest, SameCurrent, SameRanks, Deleted

LEMMA OneMore ==
    ASSUME NEW x, NEW y, NEW c, NEW t \in Tasks, Base(x), Sound(y, {}, {}, 1), Ready(y) = Ready(x) \cup {t},
           SameCurrent(x, y), SameRest(x, y), SameRanks(x, y), x.xYieldPending => y.xYieldPending,
           y.xTasksWaitingTermination = x.xTasksWaitingTermination
    PROVE  Base(y) /\ (Fine(x, c) => Fine(y, c) \/ x.uxPriority[t] > x.uxPriority[x.pxCurrentTCB])
<1>1. Base(y)
    BY BaseKeeps DEF Base
<1>2. ASSUME Highest(x), ~(x.uxPriority[t] > x.uxPriority[x.pxCurrentTCB]) PROVE Highest(y)
    <2>1. x.uxPriority[t] \in Int /\ x.uxPriority[x.pxCurrentTCB] \in Int
        BY RunTypes
    <2>2. x.uxPriority[t] <= x.uxPriority[x.pxCurrentTCB]
        BY <1>2, <2>1
    <2> QED BY <1>2, <2>2 DEF Highest, SameCurrent, SameRanks
<1> QED BY <1>1, <1>2 DEF Fine, SameCurrent, Deleted

\* An interrupt makes t ready, or leaves it to the end of the suspension.
Pending(x, t) == [x EXCEPT !.xPendingReadyList = Append(@, t)]

LEMMA PendKeeps ==
    ASSUME NEW x, Sound(x, {}, {}, 1), NEW t \in x.allocated, t \notin Deleted(x), t \notin Pended(x) \cup Waiting(x)
    PROVE  LET y == Pending(x, t)
           IN  /\ Sound(y, {}, {}, 1) /\ Ready(y) = Ready(x) /\ Pended(y) = Pended(x) \cup {t}
               /\ SameParked(x, y) /\ SameRanks(x, y)
               /\ SameCurrent(x, y) /\ SameYield(x, y) /\ SameAsserts(x, y) /\ SameRest(x, y)
<1> DEFINE y == Pending(x, t)
<1>1. Mem(x) /\ Homes(x, {}) /\ Ranked(x) /\ Bits(x, {}) /\ Apart(x) /\ Times(x, 1)
    BY DEF Sound
<1>2. /\ y.xPendingReadyList = Append(x.xPendingReadyList, t) /\ y.xEventLists = x.xEventLists /\ DOMAIN y = DOMAIN x
      /\ SameReady(x, y) /\ SameTop(x, y) /\ SameSleep(x, y) /\ SameParked(x, y) /\ SameTimes(x, y)
      /\ SameNext(x, y) /\ SameClock(x, y) /\ SameRanks(x, y) /\ SameCurrent(x, y) /\ SameYield(x, y)
      /\ SameAsserts(x, y) /\ SameRest(x, y)
    BY <1>1 DEF Pending, Mem, KernelFields, SameReady, SameTop, SameSleep, SameParked, SameTimes,
           SameNext, SameClock, SameRanks, SameCurrent, SameYield, SameAsserts, SameRest
<1> HIDE DEF y
<1>3. t \in Tasks /\ x.xPendingReadyList \in TaskLists
    BY <1>1 DEF Mem
<1>4. y.xPendingReadyList \in TaskLists /\ Pended(y) = Pended(x) \cup {t}
    BY <1>2, <1>3, JoinedIs DEF Pended
<1>5. Mem(y)
    BY <1>1, <1>2, <1>4 DEF Mem, SameReady, SameTop, SameSleep, SameParked, SameTimes,
           SameNext, SameClock, SameRanks, SameCurrent, SameYield, SameRest
<1>6. /\ \A p \in Priorities : ReadyAt(y, p) = ReadyAt(x, p)
      /\ Ready(y) = Ready(x) /\ Delayed(y) = Delayed(x) /\ Overflowed(y) = Overflowed(x)
      /\ Suspended(y) = Suspended(x) /\ Deleted(y) = Deleted(x) /\ Waiting(y) = Waiting(x)
      /\ \A e \in EventLists : WaitingAt(y, e) = WaitingAt(x, e)
    BY <1>2 DEF SameReady, SameSleep, SameParked, ReadyAt, Ready, Delayed, Overflowed, Suspended, Deleted, Waiting,
           WaitingAt
<1>7. Homes(y, {}) /\ Ranked(y) /\ Bits(y, {})
    BY <1>1, <1>2, <1>6 DEF Homes, Ranked, Bits, SameRanks, SameTop, SameRest
<1>8. Apart(y)
    BY <1>1, <1>2, <1>4, <1>6 DEF Apart, SameRest
<1>9. Times(y, 1)
    BY <1>1, <1>2, <1>6 DEF Times, Until, SameTimes, SameClock, SameNext, SameSleep
<1> QED BY <1>2, <1>4, <1>5, <1>6, <1>7, <1>8, <1>9 DEF Sound, y

LEMMA MakeReadyKeeps ==
    ASSUME NEW x, NEW c, Base(x), NEW t \in x.allocated, t \notin Deleted(x),
           x.uxSchedulerSuspended # 0 => t \notin Pended(x) \cup Waiting(x)
    PROVE  LET y == MakeReady(x, t)
           IN  /\ Base(y)
               /\ Fine(x, c) => Fine(y, c) \/ (x.uxSchedulerSuspended = 0 /\ x.uxPriority[t] > x.uxPriority[x.pxCurrentTCB])
               /\ x.uxSchedulerSuspended = 0 => Pended(y) = Pended(x)
               /\ SameCurrent(x, y) /\ SameRest(x, y) /\ SameAsserts(x, y) /\ SameRanks(x, y)
               /\ y.xTasksWaitingTermination = x.xTasksWaitingTermination
<1> DEFINE y == MakeReady(x, t)
<1>1. Sound(x, {}, {}, 1) /\ t \in Tasks
    BY RunTypes DEF Base, Mem
<1>2. CASE x.uxSchedulerSuspended = 0
    <2>1. y = prvAddTaskToReadyList(RemoveState(x, t), t)
        BY <1>2 DEF MakeReady
    <2> HIDE DEF y
    <2>2. /\ Sound(y, {}, {}, 1) /\ Ready(y) = Ready(x) \cup {t} /\ SameEvents(x, y) /\ Kept(x, y)
        BY <1>1, <2>1, ResumedKeeps
    <2>3. Base(y) /\ (Fine(x, c) => Fine(y, c) \/ x.uxPriority[t] > x.uxPriority[x.pxCurrentTCB])
        BY <1>1, <2>2, OneMore DEF Kept, SameYield
    <2> QED BY <1>2, <2>2, <2>3 DEF Kept, SameEvents, Pended, y
<1>3. CASE x.uxSchedulerSuspended # 0
    <2>1. y = Pending(x, t)
        BY <1>3 DEF MakeReady, Pending
    <2> HIDE DEF y
    <2>2. /\ Sound(y, {}, {}, 1) /\ Ready(y) = Ready(x) /\ SameParked(x, y) /\ SameRanks(x, y)
          /\ SameCurrent(x, y) /\ SameYield(x, y) /\ SameAsserts(x, y) /\ SameRest(x, y)
        BY <1>1, <1>3, <2>1, PendKeeps
    <2>3. Base(y) /\ (Fine(x, c) => Fine(y, c))
        BY <2>2, NoneMore DEF SameYield, SameParked
    <2> QED BY <1>3, <2>2, <2>3 DEF SameParked, y
<1> QED BY <1>2, <1>3

-----------------------------------------------------------------------------
(* Calls an interrupt makes. *)

\* After a call from an interrupt the running task is still the right one, or
\* the call says that it is not.
Interrupted(x, y, c, ret) ==
    /\ Base(y) /\ (Fine(x, c) => ret \/ Fine(y, c))
    /\ (x.uxSchedulerSuspended = 0 => Pended(y) \subseteq Pended(x))
    /\ SameCurrent(x, y) /\ SameRest(x, y)

\* The task is neither freed nor waiting to be.
Alive(x, t) == t \in x.allocated /\ t \notin Deleted(x)

LEMMA ResumeFromISRKeeps ==
    ASSUME NEW x, NEW c, Base(x), NEW t, Alive(x, t)
    PROVE  LET r == xTaskResumeFromISR(x, t) IN Interrupted(x, r.k, c, r.ret)
<1> DEFINE r == xTaskResumeFromISR(x, t)
<1>1. Mem(x) /\ t \in Tasks
    BY RunTypes DEF Alive, Mem
<1>2. CASE ~prvTaskIsTaskSuspended(x, t)
    <2>1. r.k = x
        BY <1>2 DEF xTaskResumeFromISR
    <2>2. Interrupted(x, x, c, r.ret)
        BY DEF Interrupted, SameCurrent, SameRest
    <2> QED BY <2>1, <2>2
<1>3. CASE prvTaskIsTaskSuspended(x, t)
    <2>1. t \notin Pended(x) \cup Waiting(x)
        BY <1>1, <1>3, LookIs DEF prvTaskIsTaskSuspended
    <2>2. /\ r.k = MakeReady(x, t)
          /\ x.uxSchedulerSuspended = 0 => r.ret = (x.uxPriority[t] >= x.uxPriority[x.pxCurrentTCB])
        BY <1>3 DEF xTaskResumeFromISR, MakeReady
    <2> DEFINE y == r.k
    <2> HIDE DEF r
    <2>3. /\ Base(y)
          /\ Fine(x, c) => Fine(y, c) \/ (x.uxSchedulerSuspended = 0 /\ x.uxPriority[t] > x.uxPriority[x.pxCurrentTCB])
          /\ x.uxSchedulerSuspended = 0 => Pended(y) = Pended(x)
          /\ SameCurrent(x, y) /\ SameRest(x, y)
        BY <2>1, <2>2, MakeReadyKeeps DEF Alive
    <2>4. x.uxPriority[t] \in Int /\ x.uxPriority[x.pxCurrentTCB] \in Int
        BY <1>1, RunTypes
    <2>5. x.uxPriority[t] > x.uxPriority[x.pxCurrentTCB] => x.uxPriority[t] >= x.uxPriority[x.pxCurrentTCB]
        BY <2>4
    <2> QED BY <2>2, <2>3, <2>5 DEF Interrupted, r
<1> QED BY <1>2, <1>3

\* The notification's value is no concern of the lists.
LEMMA NotifiedIs ==
    ASSUME NEW x, Mem(x), NEW t, NEW eAction, NEW ulValue
    PROVE  LET y == Notified(x, t, eAction, ulValue)
           IN  Mem(y) /\ Alike(x, y) /\ SameCurrent(x, y) /\ SameYield(x, y) /\ SameAsserts(x, y) /\ SameRest(x, y)
<1> DEFINE y == Notified(x, t, eAction, ulValue)
<1>1. /\ DOMAIN y = DOMAIN x /\ Alike(x, y)
      /\ SameCurrent(x, y) /\ SameYield(x, y) /\ SameAsserts(x, y) /\ SameRest(x, y)
    BY DEF Notified, Mem, KernelFields, Alike, SameReady, SameTop, SameSleep, SameParked, SameEvents, SameTimes,
           SameNext, SameClock, SameRanks, SameCurrent, SameYield, SameAsserts, SameRest
<1> HIDE DEF y
<1>2. Mem(y)
    BY <1>1, OtherSetIs
<1> QED BY <1>1, <1>2 DEF y

\* Steps that move nobody keep all that matters.
LEMMA AlikeRuns ==
    ASSUME NEW x, NEW y, NEW c, Base(x), Mem(y), Alike(x, y), SameCurrent(x, y), SameYield(x, y), SameRest(x, y)
    PROVE  /\ Base(y) /\ (Fine(x, c) => Fine(y, c)) /\ Pended(y) = Pended(x) /\ Waiting(y) = Waiting(x)
           /\ Deleted(y) = Deleted(x) /\ Ready(y) = Ready(x)
           /\ y.allocated = x.allocated /\ y.uxPriority = x.uxPriority /\ y.pxCurrentTCB = x.pxCurrentTCB
           /\ y.uxSchedulerSuspended = x.uxSchedulerSuspended
<1>1. Sound(y, {}, {}, 1) /\ SameViews(x, y)
    BY AlikeKeeps DEF Base
<1>2. Base(y) /\ (Fine(x, c) => Fine(y, c))
    BY <1>1, NoneMore DEF SameViews, Alike, SameYield, SameParked
<1> QED BY <1>1, <1>2 DEF SameViews, Alike, SameRanks, SameCurrent, SameRest

LEMMA NotifyFromISRKeeps ==
    ASSUME NEW x, NEW c, Base(x), NEW t, Alive(x, t), NEW eAction, NEW ulValue
    PROVE  LET r == xTaskGenericNotifyFromISR(x, t, eAction, ulValue)
           IN  r.k.asserts = {} => Interrupted(x, r.k, c, r.ret)
<1> DEFINE r  == xTaskGenericNotifyFromISR(x, t, eAction, ulValue)
           k1 == Notified(x, t, eAction, ulValue)
           ka == configASSERT(k1, ~EventContainer(x, t), "xTaskGenericNotifyFromISR")
           k2 == MakeReady(ka, t)
           wake == WasWaiting(x, t) /\ Outranks(x, t)
<1>1. Mem(x) /\ t \in Tasks
    BY RunTypes DEF Alive, Mem
<1>2. /\ r.k = IF ~WasWaiting(x, t) THEN k1 ELSE IF wake THEN Asking(k2, TRUE) ELSE k2
      /\ r.ret = wake
    BY DEF xTaskGenericNotifyFromISR, Asking
<1> HIDE DEF r
<1>3. Mem(k1) /\ Alike(x, k1) /\ SameCurrent(x, k1) /\ SameYield(x, k1) /\ SameAsserts(x, k1) /\ SameRest(x, k1)
    BY <1>1, NotifiedIs
<1> HIDE DEF k1
<1>4. /\ Base(k1) /\ (Fine(x, c) => Fine(k1, c)) /\ Pended(k1) = Pended(x) /\ Waiting(k1) = Waiting(x)
      /\ Deleted(k1) = Deleted(x) /\ k1.allocated = x.allocated /\ k1.uxPriority = x.uxPriority
      /\ k1.pxCurrentTCB = x.pxCurrentTCB /\ k1.uxSchedulerSuspended = x.uxSchedulerSuspended
    BY <1>3, AlikeRuns
<1>5. CASE ~WasWaiting(x, t)
    BY <1>2, <1>3, <1>4, <1>5 DEF Interrupted, r
<1>6. CASE WasWaiting(x, t)
    <2> SUFFICES ASSUME r.k.asserts = {} PROVE Interrupted(x, r.k, c, r.ret)
        BY DEF r
    <2>1. /\ Mem(ka) /\ Alike(k1, ka) /\ SameCurrent(k1, ka) /\ SameYield(k1, ka) /\ SameRest(k1, ka)
          /\ ka.asserts = {} => ~EventContainer(x, t)
        BY <1>3, AssertIs
    <2> HIDE DEF ka
    <2>2. /\ Base(ka) /\ (Fine(k1, c) => Fine(ka, c)) /\ Pended(ka) = Pended(k1) /\ Waiting(ka) = Waiting(k1)
          /\ Deleted(ka) = Deleted(k1) /\ ka.allocated = k1.allocated /\ ka.uxPriority = k1.uxPriority
          /\ ka.pxCurrentTCB = k1.pxCurrentTCB /\ ka.uxSchedulerSuspended = k1.uxSchedulerSuspended
        BY <1>4, <2>1, AlikeRuns
    <2>3. KernelFields \subseteq DOMAIN ka
        BY <2>1 DEF Mem
    <2>4. k2.asserts = ka.asserts /\ KernelFields \subseteq DOMAIN k2
        BY <2>3 DEF MakeReady, prvAddTaskToReadyList, RemoveState, KernelFields
    <2> HIDE DEF k2
    <2>5. r.k.asserts = k2.asserts
        BY <1>2, <1>6, <2>4 DEF Asking, KernelFields
    <2>6. t \notin Pended(ka) \cup Waiting(ka)
        BY <1>1, <1>4, <2>1, <2>2, <2>4, <2>5, LookIs
    <2>7. t \in ka.allocated /\ t \notin Deleted(ka)
        BY <1>4, <2>2 DEF Alive
    <2>8. /\ Base(k2)
          /\ Fine(ka, c) => Fine(k2, c) \/ (ka.uxSchedulerSuspended = 0 /\ ka.uxPriority[t] > ka.uxPriority[ka.pxCurrentTCB])
          /\ ka.uxSchedulerSuspended = 0 => Pended(k2) = Pended(ka)
          /\ SameCurrent(ka, k2) /\ SameRest(ka, k2)
        BY <2>2, <2>6, <2>7, MakeReadyKeeps DEF k2
    <2>9. SameCurrent(x, k2) /\ SameRest(x, k2)
        BY <1>3, <2>1, <2>8 DEF SameCurrent, SameRest
    <2>10. (x.uxSchedulerSuspended = 0 => Pended(k2) = Pended(x)) /\ (Fine(x, c) => wake \/ Fine(k2, c))
        BY <1>4, <1>6, <2>2, <2>8 DEF Outranks
    <2>11. CASE ~wake
        BY <1>2, <1>6, <2>8, <2>9, <2>10, <2>11 DEF Interrupted
    <2>12. CASE wake
        <3> DEFINE y == Asking(k2, TRUE)
        <3>1. Mem(k2)
            BY <2>8, RunTypes
        <3>2. /\ Mem(y) /\ Alike(k2, y) /\ SameCurrent(k2, y) /\ SameRest(k2, y) /\ y.xYieldPending = TRUE
            BY <3>1, YieldSetIs
        <3> HIDE DEF y
        <3>3. Sound(y, {}, {}, 1) /\ SameViews(k2, y)
            BY <2>8, <3>2, AlikeKeeps DEF Base
        <3>4. Base(y)
            BY <2>8, <3>2, <3>3, BaseKeeps DEF SameViews, Alike, SameParked, Base
        <3>5. SameCurrent(x, y) /\ SameRest(x, y) /\ Pended(y) = Pended(k2)
            BY <2>9, <3>2, <3>3 DEF SameViews, SameCurrent, SameRest
        <3>6. r.k = y /\ r.ret = TRUE
            BY <1>2, <1>6, <2>12 DEF y
        <3> QED BY <2>10, <3>4, <3>5, <3>6 DEF Interrupted
    <2> QED BY <2>11, <2>12
<1> QED BY <1>5, <1>6

\* So do those that only change how often the scheduler is suspended, or the
\* ticks that are pended.
LEMMA HeldKeeps ==
    ASSUME NEW x, NEW y, NEW c, Base(x), DOMAIN y = DOMAIN x, Alike(x, y), SameCurrent(x, y), SameYield(x, y),
           y.uxSchedulerSuspended \in Nat, y.xPendedTicks \in Nat,
           x.pxCurrentTCB \in Deleted(x) => y.uxSchedulerSuspended = 0
    PROVE  Base(y) /\ (Fine(x, c) => Fine(y, c)) /\ SameViews(x, y)
<1>1. Mem(x)
    BY RunTypes
<1>2. Mem(y)
    BY <1>1 DEF Mem, Alike, SameReady, SameTop, SameSleep, SameParked, SameEvents, SameTimes, SameNext,
       SameClock, SameRanks, SameCurrent, SameYield
<1>3. Sound(y, {}, {}, 1) /\ SameViews(x, y)
    BY <1>2, AlikeKeeps DEF Base
<1> QED BY <1>3 DEF Base, Fine, Highest, SameViews, Alike, SameParked, SameCurrent, SameRanks, SameYield
\* Where the running system is after an interrupt's call, or after its tick.
Ended(x, y, c) ==
    /\ Base(y) /\ (Fine(x, c) => Fine(y, c))
    /\ (x.uxSchedulerSuspended = 0 => Pended(y) \subseteq Pended(x))
    /\ SameRest(x, y) /\ (x.uxSchedulerSuspended # 0 => SameCurrent(x, y))

\* The right task after a yield is right whoever was on its way to yield.
LEMMA FineForAll ==
    ASSUME NEW x, Base(x), Fine(x, NULL)
    PROVE  /\ x.pxCurrentTCB \notin Deleted(x) /\ (x.xYieldPending \/ Highest(x))
           /\ \A c : Fine(x, c)
<1>1. x.pxCurrentTCB # NULL
    BY RunTypes, Numbers
<1> QED BY <1>1 DEF Fine

LEMMA HookEnds ==
    ASSUME NEW x, NEW c, NEW r, Base(x), Interrupted(x, r.k, c, r.ret)
    PROVE  Ended(x, Yielded(r), c)
<1>1. Base(r.k) /\ SameRest(x, r.k) /\ SameCurrent(x, r.k)
    BY DEF Interrupted
<1>2. CASE ~r.ret
    <2>1. Yielded(r) = r.k
        BY <1>2 DEF Yielded, YieldIf
    <2> QED BY <1>2, <2>1 DEF Interrupted, Ended
<1>3. CASE r.ret
    <2> DEFINE z == r.k
               y == portYIELD(z)
    <2>1. Yielded(r) = y
        BY <1>3 DEF Yielded, YieldIf
    <2> HIDE DEF z
    <2>2. /\ Base(y) /\ Fine(y, NULL) /\ SameEvents(z, y) /\ SameRest(z, y)
          /\ (z.uxSchedulerSuspended # 0 => SameCurrent(z, y))
        BY <1>1, YieldKeeps DEF z
    <2> HIDE DEF y
    <2>3. Fine(y, c)
        BY <2>2, FineForAll
    <2>4. Pended(y) = Pended(z)
        BY <2>2 DEF SameEvents, Pended
    <2>5. SameRest(x, y) /\ z.uxSchedulerSuspended = x.uxSchedulerSuspended
        BY <1>1, <2>2 DEF SameRest, z
    <2>6. x.uxSchedulerSuspended # 0 => SameCurrent(x, y)
        BY <1>1, <2>2, <2>5 DEF SameCurrent, z
    <2>7. x.uxSchedulerSuspended = 0 => Pended(y) \subseteq Pended(x)
        BY <2>4 DEF Interrupted, z
    <2> QED BY <2>1, <2>2, <2>3, <2>5, <2>6, <2>7 DEF Ended
<1> QED BY <1>2, <1>3

-----------------------------------------------------------------------------
(* The tick interrupt. *)

\* The tick up to the application's hook.
Ticked(x) ==
    IF x.uxSchedulerSuspended # 0 THEN Ok([x EXCEPT !.xPendedTicks = @ + 1], FALSE)
    ELSE Sliced(UnblockExpired(Advance(x)))

\* What no tick changes.
Underway(x, y) ==
    /\ y.xSchedulerRunning = x.xSchedulerRunning /\ y.uxSchedulerSuspended = x.uxSchedulerSuspended
    /\ y.allocated = x.allocated

LEMMA TickBegins ==
    ASSUME NEW x, NEW c, Run(x, c)
    PROVE  LET r == Ticked(x)
           IN  /\ Base(r.k) /\ Quiet(r.k) /\ r.ret \in BOOLEAN /\ DOMAIN r = {"k", "ret"} /\ (r.ret \/ Fine(r.k, c))
               /\ SameCurrent(x, r.k) /\ Underway(x, r.k) /\ Deleted(r.k) = Deleted(x)
<1> DEFINE r == Ticked(x)
<1>1. Base(x) /\ Fine(x, c) /\ Quiet(x) /\ Mem(x)
    BY RunTypes DEF Run
<1>2. CASE x.uxSchedulerSuspended # 0
    <2> DEFINE z == [x EXCEPT !.xPendedTicks = x.xPendedTicks + 1]
    <2>1. r = Ok(z, FALSE)
        BY <1>2 DEF Ticked
    <2>2. /\ z.uxSchedulerSuspended = x.uxSchedulerSuspended /\ z.xPendedTicks = x.xPendedTicks + 1 /\ DOMAIN z = DOMAIN x
          /\ Alike(x, z) /\ SameCurrent(x, z) /\ SameYield(x, z) /\ SameAsserts(x, z)
        BY <1>1 DEF Mem, KernelFields, Alike, SameReady, SameTop, SameSleep, SameParked, SameEvents, SameTimes, SameNext,
           SameClock, SameRanks, SameCurrent, SameYield, SameAsserts
    <2> HIDE DEF z
    <2>3. Base(z) /\ (Fine(x, c) => Fine(z, c)) /\ z.uxSchedulerSuspended # 0
        <3>1. z.uxSchedulerSuspended \in Nat /\ z.xPendedTicks \in Nat /\ x.pxCurrentTCB \notin Deleted(x)
            BY <1>1, <1>2, <2>2 DEF Base, Mem
        <3> QED BY <1>1, <1>2, <2>2, <3>1, HeldKeeps
    <2>4. Quiet(z)
        BY <2>3 DEF Quiet
    <2>5. Underway(x, z) /\ Deleted(z) = Deleted(x)
        BY <2>2 DEF Underway, Alike, SameParked, Deleted
    <2> QED BY <1>1, <2>1, <2>2, <2>3, <2>4, <2>5 DEF Ok, r
<1>3. CASE x.uxSchedulerSuspended = 0
    <2>1. r = Sliced(UnblockExpired(Advance(x)))
        BY <1>3 DEF Ticked
    <2> HIDE DEF r
    <2>2. /\ Base(r.k) /\ r.ret \in BOOLEAN /\ DOMAIN r = {"k", "ret"} /\ (r.ret \/ Fine(r.k, c))
          /\ Pended(r.k) \subseteq Pended(x) /\ SameCurrent(x, r.k) /\ SameRest(x, r.k)
          /\ r.k.xTasksWaitingTermination = x.xTasksWaitingTermination
        BY <1>1, <2>1, TickKeeps
    <2>3. Quiet(r.k) /\ Underway(x, r.k) /\ Deleted(r.k) = Deleted(x)
        BY <1>1, <1>3, <2>2 DEF Quiet, SameRest, Underway, Deleted
    <2> QED BY <2>2, <2>3 DEF r
<1> QED BY <1>2, <1>3

\* The tick after the hook.
LEMMA TickEnds ==
    ASSUME NEW c, NEW r, DOMAIN r = {"k", "ret"}, Base(r.k), Quiet(r.k), r.ret \/ Fine(r.k, c)
    PROVE  LET y == Yielded(OrYieldPending(r))
           IN  Run(y, c) /\ Underway(r.k, y) /\ (r.k.uxSchedulerSuspended # 0 => SameCurrent(r.k, y))
<1> DEFINE s == OrYieldPending(r)
           y == Yielded(s)
           z == r.k
<1>1. s.k = z /\ (r.ret => s.ret)
    BY DEF OrYieldPending
<1> HIDE DEF s, z
<1>2. Base(z) /\ Quiet(z)
    BY DEF z
<1>3. CASE ~s.ret
    <2>1. y = z
        BY <1>1, <1>3 DEF Yielded, YieldIf
    <2>2. Fine(z, c)
        BY <1>1, <1>3 DEF z
    <2> QED BY <1>2, <2>1, <2>2 DEF Run, Underway, SameCurrent, y, z, s
<1>4. CASE s.ret
    <2>1. y = portYIELD(z)
        BY <1>1, <1>4 DEF Yielded, YieldIf
    <2> HIDE DEF y
    <2>2. /\ Base(y) /\ Fine(y, NULL) /\ SameEvents(z, y) /\ SameRest(z, y)
          /\ (z.uxSchedulerSuspended # 0 => SameCurrent(z, y))
        BY <1>2, <2>1, YieldKeeps
    <2>3. Fine(y, c)
        BY <2>2, FineForAll
    <2>4. Quiet(y)
        BY <1>2, <2>2 DEF Quiet, SameRest, SameEvents, Pended
    <2> QED BY <2>2, <2>3, <2>4 DEF Run, Underway, SameRest, y, z, s
<1> QED BY <1>3, <1>4

-----------------------------------------------------------------------------
(* Resuming the scheduler. *)

\* A tick that is caught up with.
LEMMA CatchUpKeeps ==
    ASSUME NEW x, NEW c, Base(x), Fine(x, c), x.uxSchedulerSuspended = 0
    PROVE  LET y == CatchUp(x)
           IN  /\ Base(y) /\ Fine(y, c) /\ Pended(y) \subseteq Pended(x) /\ SameCurrent(x, y) /\ SameRest(x, y)
               /\ y.xTasksWaitingTermination = x.xTasksWaitingTermination
<1> DEFINE r1 == Sliced(UnblockExpired(Advance(x)))
           r2 == IF r1.k.xPendedTicks = 0 \/ r1.k.uxSchedulerSuspended # 0 THEN [r1 EXCEPT !.k = r1.k] ELSE r1
           r3 == [r2 EXCEPT !.ret = r2.ret \/ (r2.k.uxSchedulerSuspended = 0 /\ r2.k.xYieldPending)]
           y  == CatchUp(x)
           z  == r1.k
<1>1. y = IF r3.ret THEN [r3.k EXCEPT !.xYieldPending = TRUE] ELSE r3.k
    BY DEF CatchUp, PendYield, xTaskIncrementTick, OrYieldPending, Hooked
<1> HIDE DEF y
<1>2. /\ Base(r1.k) /\ r1.ret \in BOOLEAN /\ DOMAIN r1 = {"k", "ret"} /\ (r1.ret \/ Fine(r1.k, c))
      /\ Pended(r1.k) \subseteq Pended(x) /\ SameCurrent(x, r1.k) /\ SameRest(x, r1.k)
      /\ r1.k.xTasksWaitingTermination = x.xTasksWaitingTermination
    BY TickKeeps
<1> HIDE DEF r1
<1>3. r2.k = r1.k /\ r2.ret = r1.ret /\ DOMAIN r2 = {"k", "ret"}
    BY <1>2
<1> HIDE DEF r2
<1>4. r3.k = z /\ (r1.ret => r3.ret)
    BY <1>3
<1> HIDE DEF r3
<1>5. Base(z) /\ (r3.ret \/ Fine(z, c)) /\ Pended(z) \subseteq Pended(x) /\ SameCurrent(x, z) /\ SameRest(x, z)
      /\ z.xTasksWaitingTermination = x.xTasksWaitingTermination
    BY <1>2, <1>4 DEF z
<1> HIDE DEF z
<1>6. CASE ~r3.ret
    BY <1>1, <1>4, <1>5, <1>6 DEF y
<1>7. CASE r3.ret
    <2>1. y = Asking(z, TRUE) /\ Mem(z)
        BY <1>1, <1>4, <1>5, <1>7, RunTypes DEF Asking
    <2>2. /\ Mem(y) /\ Alike(z, y) /\ SameCurrent(z, y) /\ SameRest(z, y) /\ y.xYieldPending = TRUE
        BY <2>1, YieldSetIs
    <2>3. Sound(y, {}, {}, 1) /\ SameViews(z, y)
        BY <1>5, <2>2, AlikeKeeps DEF Base
    <2>4. Base(y)
        BY <1>5, <2>2, <2>3, BaseKeeps DEF SameViews, Alike, SameParked, Base
    <2>5. SameCurrent(x, y) /\ SameRest(x, y) /\ Pended(y) \subseteq Pended(x)
          /\ y.xTasksWaitingTermination = x.xTasksWaitingTermination
        BY <1>5, <2>2, <2>3 DEF SameCurrent, SameRest, SameViews, Alike, SameParked
    <2>6. Fine(y, c)
        <3>1. CASE x.pxCurrentTCB = c
            BY <2>5, <3>1 DEF Fine, SameCurrent
        <3>2. CASE x.pxCurrentTCB # c
            <4>1. x.pxCurrentTCB \notin Deleted(x)
                BY <3>2 DEF Fine
            <4> QED BY <2>2, <2>5, <4>1 DEF Fine, SameCurrent, Deleted
        <3> QED BY <3>1, <3>2
    <2> QED BY <2>4, <2>5, <2>6 DEF y
<1> QED BY <1>6, <1>7

\* No tick is left.
Caught(x) == [x EXCEPT !.xPendedTicks = 0]

\* CatchUpAll goes from one tick to the next.
LEMMA CatchUpSteps ==
    ASSUME NEW x, x.xPendedTicks \in Nat
    PROVE  \E g : /\ g[0] = x /\ CatchUpAll(x) = Caught(g[x.xPendedTicks])
                  /\ \A n \in Nat : n < x.xPendedTicks => g[n + 1] = CatchUp(g[n])
<1> DEFINE N == x.xPendedTicks
           At(g, n) == IF n = 0 THEN x ELSE CatchUp(g[n - 1])
           after == CHOOSE g : g = [n \in 0 .. N |-> At(g, n)]
           S == {m \in Nat : \E g : g = [n \in 0 .. m |-> At(g, n)]}
<1>1. CatchUpAll(x) = Caught(after[N])
    BY DEF CatchUpAll, Caught
<1>2. 0 \in S
    <2> DEFINE g == [n \in 0 .. 0 |-> x]
    <2>1. \A n \in 0 .. 0 : n = 0
        OBVIOUS
    <2>2. g = [n \in 0 .. 0 |-> At(g, n)]
        BY <2>1
    <2> QED BY <2>2
<1>3. ASSUME NEW m \in Nat, m \in S PROVE m + 1 \in S
    <2>1. PICK g : g = [n \in 0 .. m |-> At(g, n)]
        BY <1>3
    <2> DEFINE h == [n \in 0 .. m + 1 |-> IF n = m + 1 THEN CatchUp(g[m]) ELSE g[n]]
    <2>2. ASSUME NEW n \in 0 .. m + 1 PROVE h[n] = At(h, n)
        <3>1. CASE n = m + 1
            <4>1. n # 0 /\ n - 1 = m /\ m \in 0 .. m + 1 /\ m # m + 1
                BY <3>1
            <4>2. h[n] = CatchUp(g[m]) /\ h[n - 1] = g[m]
                BY <3>1, <4>1
            <4> HIDE DEF h
            <4> QED BY <3>1, <4>1, <4>2
        <3>2. CASE n # m + 1
            <4>1. n \in 0 .. m /\ h[n] = g[n]
                BY <3>2
            <4>2. n # 0 => n - 1 \in 0 .. m + 1 /\ n - 1 # m + 1
                BY <3>2
            <4>3. n # 0 => h[n - 1] = g[n - 1]
                BY <4>2
            <4>4. g[n] = At(g, n)
                BY <2>1, <4>1
            <4> HIDE DEF h
            <4> QED BY <4>1, <4>3, <4>4
        <3> QED BY <3>1, <3>2
    <2>3. h = [n \in 0 .. m + 1 |-> h[n]]
        OBVIOUS
    <2> HIDE DEF h
    <2>4. h = [n \in 0 .. m + 1 |-> At(h, n)]
        BY <2>2, <2>3
    <2> QED BY <2>4
<1>4. N \in S
    <2> HIDE DEF S
    <2>1. \A n \in Nat : n \in S
        BY <1>2, <1>3, Induction
    <2> QED BY <2>1
<1>5. after = [n \in 0 .. N |-> At(after, n)]
    BY <1>4
<1> HIDE DEF after
<1>6. after[0] = x
    BY <1>5
<1>7. ASSUME NEW n \in Nat, n < N PROVE after[n + 1] = CatchUp(after[n])
    <2>1. n + 1 \in 0 .. N /\ n + 1 # 0 /\ (n + 1) - 1 = n
        BY <1>7
    <2>2. after[n + 1] = At(after, n + 1)
        BY <1>5, <2>1
    <2> QED BY <2>1, <2>2
<1> QED BY <1>1, <1>6, <1>7

\* The ticks that were caught up with.
CaughtUp(x, y, c) ==
    /\ Base(y) /\ Fine(y, c) /\ Pended(y) \subseteq Pended(x) /\ SameCurrent(x, y)
    /\ y.xTasksWaitingTermination = x.xTasksWaitingTermination
    /\ y.uxSchedulerSuspended = x.uxSchedulerSuspended /\ Underway(x, y)

LEMMA CatchUpAllKeeps ==
    ASSUME NEW x, NEW c, Base(x), Fine(x, c), x.uxSchedulerSuspended = 0
    PROVE  CaughtUp(x, CatchUpAll(x), c) /\ CatchUpAll(x).xPendedTicks = 0
<1> DEFINE N == x.xPendedTicks
<1>1. N \in Nat /\ Mem(x)
    BY RunTypes DEF Mem
<1>2. PICK g : /\ g[0] = x /\ CatchUpAll(x) = Caught(g[N])
               /\ \A n \in Nat : n < N => g[n + 1] = CatchUp(g[n])
    BY <1>1, CatchUpSteps
<1> HIDE DEF N
<1> DEFINE S == {n \in Nat : n <= N => CaughtUp(x, g[n], c)}
<1>3. 0 \in S
    BY <1>2 DEF CaughtUp, Underway, SameCurrent
<1>4. ASSUME NEW n \in Nat, n \in S PROVE n + 1 \in S
    <2> SUFFICES ASSUME n + 1 <= N PROVE CaughtUp(x, g[n + 1], c)
        OBVIOUS
    <2> DEFINE z == g[n]
               y == g[n + 1]
    <2>1. n < N /\ n <= N
        BY <1>1
    <2>2. CaughtUp(x, z, c) /\ y = CatchUp(z)
        BY <1>2, <1>4, <2>1
    <2> HIDE DEF z, y
    <2>3. Base(z) /\ Fine(z, c) /\ z.uxSchedulerSuspended = 0
        BY <2>2 DEF CaughtUp
    <2>4. /\ Base(y) /\ Fine(y, c) /\ Pended(y) \subseteq Pended(z) /\ SameCurrent(z, y) /\ SameRest(z, y)
          /\ y.xTasksWaitingTermination = z.xTasksWaitingTermination
        BY <2>2, <2>3, CatchUpKeeps
    <2>5. CaughtUp(x, y, c)
        BY <2>2, <2>4 DEF CaughtUp, Underway, SameRest, SameCurrent
    <2> QED BY <2>5 DEF y
<1>5. CaughtUp(x, g[N], c)
    <2> HIDE DEF S
    <2>1. \A n \in Nat : n \in S
        BY <1>3, <1>4, Induction
    <2>2. N <= N
        BY <1>1
    <2> QED BY <1>1, <2>1, <2>2 DEF S
<1> DEFINE z == g[N]
           y == Caught(z)
<1>6. Base(z) /\ Fine(z, c) /\ Mem(z)
    BY <1>5, RunTypes DEF CaughtUp
<1>7. CaughtUp(x, z, c)
    BY <1>5
<1> HIDE DEF z
<1>8. /\ DOMAIN y = DOMAIN z /\ y.xPendedTicks = 0 /\ Alike(z, y) /\ SameCurrent(z, y) /\ SameYield(z, y)
      /\ y.uxSchedulerSuspended = z.uxSchedulerSuspended
    BY <1>6 DEF Mem, KernelFields, Caught, Alike, SameReady, SameTop, SameSleep, SameParked, SameEvents, SameTimes, SameNext,
       SameClock, SameRanks, SameCurrent, SameYield
<1> HIDE DEF y
<1>9. Base(y) /\ (Fine(z, c) => Fine(y, c)) /\ SameViews(z, y)
    <2>1. y.xPendedTicks \in Nat /\ y.uxSchedulerSuspended \in Nat /\ (z.pxCurrentTCB \in Deleted(z) => y.uxSchedulerSuspended = 0)
        BY <1>6, <1>8 DEF Base, Mem
    <2> QED BY <1>6, <1>8, <2>1, HeldKeeps
<1>10. CaughtUp(x, y, c)
    BY <1>6, <1>7, <1>8, <1>9 DEF CaughtUp, Underway, Alike, SameViews, SameCurrent, SameParked
<1>11. CatchUpAll(x) = y
    BY <1>2 DEF y, z
<1> QED BY <1>8, <1>10, <1>11

\* The tasks the interrupts made ready meanwhile.
LEMMA ReadyAllPendedKeeps ==
    ASSUME NEW x, NEW c, Base(x), Fine(x, c)
    PROVE  LET y == ReadyAllPended(x)
           IN  /\ Base(y) /\ Fine(y, c) /\ Pended(y) = {} /\ SameCurrent(x, y) /\ SameRest(x, y)
               /\ y.xTasksWaitingTermination = x.xTasksWaitingTermination
<1> DEFINE s == x.xPendingReadyList
           y == ReadyAllPended(x)
<1>1. Sound(x, {}, {}, 1) /\ Mem(x) /\ Homes(x, {}) /\ Apart(x) /\ x.pxCurrentTCB \in Tasks /\ Ready(x) \subseteq Tasks
      /\ (\A t \in Tasks : x.uxPriority[t] \in Int)
    BY RunTypes DEF Base, Sound
<1>2. s \in Seq(Tasks) /\ Elements(s) \subseteq Tasks /\ Pended(x) = Elements(s)
    BY <1>1 DEF Mem, TaskLists, Pended, Elements
<1>3. CASE s = <<>>
    <2>1. y = x /\ Pended(x) = {}
        BY <1>2, <1>3, NobodyIn DEF ReadyAllPended
    <2> QED BY <2>1 DEF SameCurrent, SameRest
<1>4. CASE s # <<>>
    <2> DEFINE z == ReadyEach(x, s)
    <2>1. y = prvResetNextTaskUnblockTime(z)
        BY <1>4 DEF ReadyAllPended
    <2> HIDE DEF y
    <2>2. \A t \in Elements(s) : t \in x.allocated /\ t \notin Deleted(x)
        BY <1>1, <1>2 DEF Apart
    <2> HIDE DEF s
    <2>3. Sound(z, {}, {}, 1) /\ Roused(x, z, Elements(s), TRUE)
        BY <1>1, <1>2, <2>2, ReadyEachKeeps
    <2> HIDE DEF z
    <2>4. /\ Sound(y, {}, {}, 1) /\ SameViews(z, y) /\ Kept(z, y)
        BY <2>1, <2>3, ResetNextKeeps
    <2>5. /\ Ready(y) = Ready(x) \cup Elements(s) /\ Pended(y) = {} /\ SameCurrent(x, y) /\ SameRest(x, y)
          /\ SameRanks(x, y) /\ y.xTasksWaitingTermination = x.xTasksWaitingTermination
        BY <1>2, <2>3, <2>4 DEF Roused, SameViews, Kept, SameCurrent, SameRest, SameRanks
    <2>6. y.xYieldPending <=>
            x.xYieldPending \/ (\E t \in Elements(s) : x.uxPriority[t] >= x.uxPriority[x.pxCurrentTCB])
        BY <2>3, <2>4 DEF Roused, Kept, SameYield
    <2>7. Base(y)
        <3>1. IdleTask \in Ready(y)
            BY <2>5 DEF Base
        <3> QED BY <2>4, <2>5, <3>1, BaseKeeps
    <2>8. Fine(y, c)
        <3>1. CASE x.pxCurrentTCB = c
            BY <2>5, <3>1 DEF Fine, SameCurrent
        <3>2. CASE y.xYieldPending /\ x.pxCurrentTCB \notin Deleted(x)
            BY <2>5, <3>2 DEF Fine, SameCurrent, Deleted
        <3>3. CASE ~y.xYieldPending /\ x.pxCurrentTCB \notin Deleted(x) /\ Highest(x)
            <4>1. ASSUME NEW u \in Ready(y) PROVE x.uxPriority[u] <= x.uxPriority[x.pxCurrentTCB]
                <5>1. CASE u \in Ready(x)
                    BY <3>3, <5>1 DEF Highest
                <5>2. CASE u \in Elements(s)
                    <6>1. ~(x.uxPriority[u] >= x.uxPriority[x.pxCurrentTCB]) /\ u \in Tasks
                        BY <1>2, <2>6, <3>3, <5>2
                    <6> QED BY <1>1, <6>1
                <5> QED BY <2>5, <5>1, <5>2
            <4>2. Highest(y)
                BY <2>5, <3>3, <4>1 DEF Highest, SameCurrent, SameRanks
            <4> QED BY <2>5, <3>3, <4>2 DEF Fine, SameCurrent, Deleted
        <3> QED BY <2>6, <3>1, <3>2, <3>3 DEF Fine
    <2> QED BY <2>5, <2>7, <2>8 DEF y
<1> QED BY <1>3, <1>4

LEMMA ResumeAllKeeps ==
    ASSUME NEW x, NEW c, Run(x, c), x.uxSchedulerSuspended # 0
    PROVE  LET r == xTaskResumeAll(x)
           IN  /\ Run(r.k, c) /\ r.ret \in BOOLEAN
               /\ (r.ret => Fine(r.k, NULL)) /\ (~r.ret => SameCurrent(x, r.k))
               /\ r.k.xSchedulerRunning = x.xSchedulerRunning /\ r.k.allocated = x.allocated
               /\ r.k.uxSchedulerSuspended = x.uxSchedulerSuspended - 1
<1> DEFINE n == x.uxSchedulerSuspended - 1
           z == [x EXCEPT !.uxSchedulerSuspended = n]
           r == xTaskResumeAll(x)
<1>1. Base(x) /\ Fine(x, c) /\ Mem(x) /\ x.uxSchedulerSuspended \in Nat /\ n \in Nat
    BY RunTypes DEF Run
<1>2. r = ResumeIfLast(z)
    BY <1>1 DEF xTaskResumeAll, configASSERT
<1> HIDE DEF r
<1>3. /\ DOMAIN z = DOMAIN x /\ z.uxSchedulerSuspended = n /\ Alike(x, z) /\ SameCurrent(x, z) /\ SameYield(x, z)
      /\ z.xPendedTicks = x.xPendedTicks
    BY <1>1 DEF Mem, KernelFields, Alike, SameReady, SameTop, SameSleep, SameParked, SameEvents, SameTimes, SameNext,
       SameClock, SameRanks, SameCurrent, SameYield
<1> HIDE DEF z
<1> HIDE DEF n
<1>4. Base(z) /\ (Fine(x, c) => Fine(z, c))
    <2>1. z.uxSchedulerSuspended \in Nat /\ z.xPendedTicks \in Nat /\ x.pxCurrentTCB \notin Deleted(x)
        BY <1>1, <1>3 DEF Base, Mem
    <2> QED BY <1>1, <1>3, <2>1, HeldKeeps
<1>6. Base(z) /\ Fine(z, c)
    BY <1>1, <1>4
<1>7. z.xSchedulerRunning = x.xSchedulerRunning /\ z.allocated = x.allocated
    BY <1>3 DEF Alike
<1>8. CASE n # 0
    <2>1. r = Ok(z, FALSE)
        BY <1>2, <1>3, <1>8 DEF ResumeIfLast
    <2>2. r.k = z /\ r.ret = FALSE
        BY <2>1 DEF Ok
    <2> QED BY <1>3, <1>6, <1>7, <1>8, <2>2 DEF Run, Quiet, r, n
<1>9. CASE n = 0
    <2> DEFINE w == ReadyAllPended(z)
               v == CatchUpAll(w)
               y == YieldIf(v, v.xYieldPending)
    <2>1. r = Ok(y, v.xYieldPending)
        BY <1>2, <1>3, <1>9 DEF ResumeIfLast, YieldIfPending
    <2>2. r.k = y /\ r.ret = v.xYieldPending
        BY <2>1 DEF Ok
    <2>3. /\ Base(w) /\ Fine(w, c) /\ Pended(w) = {} /\ SameCurrent(z, w) /\ SameRest(z, w)
        BY <1>6, ReadyAllPendedKeeps
    <2> HIDE DEF w
    <2>4. w.uxSchedulerSuspended = 0
        BY <1>3, <1>9, <2>3 DEF SameRest
    <2>5. CaughtUp(w, v, c) /\ v.xPendedTicks = 0
        BY <2>3, <2>4, CatchUpAllKeeps
    <2> HIDE DEF v
    <2>6. /\ Base(v) /\ Fine(v, c) /\ Pended(v) = {} /\ v.uxSchedulerSuspended = 0 /\ SameCurrent(x, v)
          /\ v.xSchedulerRunning = x.xSchedulerRunning /\ v.allocated = x.allocated /\ v.xYieldPending \in BOOLEAN
        <3>1. Base(v) /\ Fine(v, c) /\ Pended(v) = {} /\ v.uxSchedulerSuspended = 0
            BY <2>3, <2>4, <2>5 DEF CaughtUp
        <3>2. v.xYieldPending \in BOOLEAN
            BY <3>1, RunTypes DEF Mem
        <3>3. SameCurrent(x, v) /\ v.xSchedulerRunning = x.xSchedulerRunning /\ v.allocated = x.allocated
            BY <1>3, <1>7, <2>3, <2>5 DEF CaughtUp, Underway, SameCurrent, SameRest
        <3> QED BY <3>1, <3>2, <3>3
    <2>7. CASE ~v.xYieldPending
        <3>1. y = v
            BY <2>7 DEF YieldIf
        <3>2. Run(y, c) /\ y.uxSchedulerSuspended = n /\ SameCurrent(x, y)
            BY <1>9, <2>5, <2>6, <3>1 DEF Run, Quiet
        <3> HIDE DEF y
        <3> QED BY <2>2, <2>6, <2>7, <3>1, <3>2 DEF r, n
    <2>8. CASE v.xYieldPending
        <3>1. y = portYIELD(v)
            BY <2>8 DEF YieldIf
        <3> HIDE DEF y
        <3>2. /\ Base(y) /\ Fine(y, NULL) /\ SameEvents(v, y) /\ SameRest(v, y)
            BY <2>6, <3>1, YieldKeeps
        <3>3. Quiet(y)
            BY <2>5, <2>6, <3>2 DEF Quiet, SameEvents, SameRest, Pended
        <3>4. Fine(y, c)
            BY <3>2, FineForAll
        <3>5. /\ y.uxSchedulerSuspended = n /\ y.xSchedulerRunning = x.xSchedulerRunning /\ y.allocated = x.allocated
            BY <1>9, <2>6, <3>2 DEF SameRest
        <3> QED BY <2>2, <2>8, <3>2, <3>3, <3>4, <3>5 DEF Run, r, n
    <2> QED BY <2>6, <2>7, <2>8
<1> QED BY <1>8, <1>9

-----------------------------------------------------------------------------
(* Calls that put the running task to sleep. *)

\* The task that was running still is, and may have lost its place.
Leaving(x, y, c) ==
    /\ Base(y) /\ (Fine(x, c) => Fine(y, c)) /\ SameCurrent(x, y)
    /\ y.xSchedulerRunning = x.xSchedulerRunning /\ y.allocated = x.allocated

LEMMA SuspendedKeeps ==
    ASSUME NEW x, NEW c, Base(x), x.pxCurrentTCB \notin Deleted(x), NEW y, DOMAIN y = DOMAIN x,
           y.uxSchedulerSuspended = x.uxSchedulerSuspended + 1, y.xPendedTicks \in Nat,
           Alike(x, y), SameCurrent(x, y), SameYield(x, y)
    PROVE  Leaving(x, y, c) /\ SameViews(x, y) /\ Quiet(y) /\ y.uxSchedulerSuspended # 0
<1>1. y.uxSchedulerSuspended \in Nat /\ y.uxSchedulerSuspended # 0
    BY RunTypes
<1>2. Base(y) /\ (Fine(x, c) => Fine(y, c)) /\ SameViews(x, y)
    BY <1>1, HeldKeeps
<1> QED BY <1>1, <1>2 DEF Leaving, Quiet, Alike

LEMMA SuspendAllKeeps ==
    ASSUME NEW x, NEW c, Base(x), x.pxCurrentTCB \notin Deleted(x)
    PROVE  LET y == vTaskSuspendAll(x)
           IN  /\ Leaving(x, y, c) /\ SameViews(x, y) /\ Quiet(y) /\ y.uxSchedulerSuspended # 0
               /\ SameAsserts(x, y) /\ SameRanks(x, y) /\ y.xPendedTicks = x.xPendedTicks /\ DOMAIN y = DOMAIN x
               /\ Alike(x, y) /\ SameYield(x, y) /\ y.uxSchedulerSuspended = x.uxSchedulerSuspended + 1
<1> DEFINE y == vTaskSuspendAll(x)
<1>1. Mem(x)
    BY RunTypes
<1>2. /\ DOMAIN y = DOMAIN x /\ y.uxSchedulerSuspended = x.uxSchedulerSuspended + 1 /\ y.xPendedTicks = x.xPendedTicks
      /\ Alike(x, y) /\ SameCurrent(x, y) /\ SameYield(x, y) /\ SameAsserts(x, y)
    BY <1>1 DEF Mem, KernelFields, vTaskSuspendAll, Alike, SameReady, SameTop, SameSleep, SameParked, SameEvents,
       SameTimes, SameNext, SameClock, SameRanks, SameCurrent, SameYield, SameAsserts
<1> HIDE DEF y
<1>3. y.xPendedTicks \in Nat
    BY <1>1, <1>2 DEF Mem
<1>4. Leaving(x, y, c) /\ SameViews(x, y) /\ Quiet(y) /\ y.uxSchedulerSuspended # 0
    BY <1>2, <1>3, SuspendedKeeps
<1> QED BY <1>2, <1>4 DEF Alike, y

\* The running task, unless it is the idle task, goes to sleep.
LEMMA SleepRuns ==
    ASSUME NEW x, Base(x), x.pxCurrentTCB \notin Deleted(x), x.pxCurrentTCB # IdleTask,
           NEW ticks \in 1 .. TickMod - 1, NEW forever
    PROVE  LET y == prvAddCurrentTaskToDelayedList(x, ticks, forever)
           IN  /\ Leaving(x, y, x.pxCurrentTCB) /\ SameEvents(x, y) /\ SameAsserts(x, y) /\ SameRest(x, y)
               /\ y.xTasksWaitingTermination = x.xTasksWaitingTermination
<1> DEFINE y == prvAddCurrentTaskToDelayedList(x, ticks, forever)
<1>1. Sound(x, {}, {}, 1) /\ x.pxCurrentTCB \in x.allocated /\ IdleTask \in Ready(x)
    BY DEF Base
<1>2. Sound(y, {}, {}, 1) /\ Steady(x, y) /\ Ready(y) = Ready(x) \ {x.pxCurrentTCB}
    BY <1>1, DelayKeeps
<1> HIDE DEF y
<1>3. Base(y)
    BY <1>1, <1>2, BaseKeeps DEF Steady
<1> QED BY <1>2, <1>3 DEF Leaving, Steady, Fine, SameCurrent, SameRest, y

-----------------------------------------------------------------------------
(* Calls that make a task ready, and yield to it. *)

\* Switching when that is required makes the choice right.
LEMMA YieldIfRuns ==
    ASSUME NEW x, NEW b \in BOOLEAN, Base(x), Quiet(x), b \/ Fine(x, NULL)
    PROVE  Run(YieldIf(x, b), NULL) /\ Underway(x, YieldIf(x, b))
<1> DEFINE y == YieldIf(x, b)
<1>1. CASE ~b
    <2>1. y = x
        BY <1>1 DEF YieldIf
    <2> QED BY <1>1, <2>1 DEF Run, Underway
<1>2. CASE b
    <2>1. y = portYIELD(x)
        BY <1>2 DEF YieldIf
    <2> HIDE DEF y
    <2>2. Base(y) /\ Fine(y, NULL) /\ SameEvents(x, y) /\ SameRest(x, y)
        BY <2>1, YieldKeeps
    <2> QED BY <2>2 DEF Run, Quiet, Underway, SameRest, SameEvents, Pended, y
<1> QED BY <1>1, <1>2

LEMMA ResumeRuns ==
    ASSUME NEW x, Run(x, NULL), NEW t, Alive(x, t)
    PROVE  Run(vTaskResume(x, t), NULL) /\ Underway(x, vTaskResume(x, t))
<1> DEFINE z == prvAddTaskToReadyList(RemoveState(x, t), t)
           b == z.uxPriority[t] >= z.uxPriority[z.pxCurrentTCB]
           y == vTaskResume(x, t)
<1>1. Base(x) /\ Sound(x, {}, {}, 1) /\ Quiet(x) /\ Fine(x, NULL) /\ t \in Tasks
    BY RunTypes DEF Run, Base, Alive, Mem
<1>2. y = x \/ y = YieldIf(z, b)
    BY DEF vTaskResume
<1> HIDE DEF y
<1>3. Sound(z, {}, {}, 1) /\ Ready(z) = Ready(x) \cup {t} /\ SameEvents(x, z) /\ Kept(x, z)
    BY <1>1, ResumedKeeps DEF Alive
<1> HIDE DEF z
<1>4. /\ SameCurrent(x, z) /\ SameRest(x, z) /\ SameRanks(x, z) /\ SameYield(x, z)
      /\ z.xTasksWaitingTermination = x.xTasksWaitingTermination
    BY <1>3 DEF Kept
<1>5. Base(z) /\ (Fine(z, NULL) \/ x.uxPriority[t] > x.uxPriority[x.pxCurrentTCB])
    BY <1>1, <1>3, <1>4, OneMore DEF SameYield
<1>6. b \/ Fine(z, NULL)
    <2>1. x.uxPriority[t] \in Int /\ x.uxPriority[x.pxCurrentTCB] \in Int
        BY <1>1, RunTypes
    <2> QED BY <1>4, <1>5, <2>1 DEF SameCurrent, SameRanks
<1>7. Quiet(z) /\ Underway(x, z) /\ b \in BOOLEAN
    BY <1>1, <1>3, <1>4 DEF Quiet, SameRest, SameEvents, Pended, Underway
<1> HIDE DEF b
<1>8. Run(YieldIf(z, b), NULL) /\ Underway(z, YieldIf(z, b))
    BY <1>5, <1>6, <1>7, YieldIfRuns
<1>9. Underway(x, YieldIf(z, b))
    BY <1>7, <1>8 DEF Underway
<1>10. Underway(x, x)
    BY DEF Underway
<1> QED BY <1>2, <1>8, <1>9, <1>10 DEF y

LEMMA NotifyRuns ==
    ASSUME NEW x, Run(x, NULL), NEW t, Alive(x, t), NEW eAction, NEW ulValue
    PROVE  LET y == xTaskGenericNotify(x, t, eAction, ulValue) IN Run(y, NULL) /\ Underway(x, y)
<1> DEFINE k1 == Notified(x, t, eAction, ulValue)
           z  == prvAddTaskToReadyList(RemoveState(k1, t), t)
           k2 == configASSERT(z, ~EventContainer(x, t), "xTaskGenericNotify")
           b  == Outranks(x, t)
           y  == xTaskGenericNotify(x, t, eAction, ulValue)
<1>1. Base(x) /\ Quiet(x) /\ Fine(x, NULL) /\ Mem(x) /\ t \in Tasks
    BY RunTypes DEF Run, Alive, Mem
<1>2. y = IF WasWaiting(x, t) THEN YieldIf(k2, b) ELSE k1
    BY DEF xTaskGenericNotify
<1> HIDE DEF y
<1>3. Mem(k1) /\ Alike(x, k1) /\ SameCurrent(x, k1) /\ SameYield(x, k1) /\ SameRest(x, k1)
    BY <1>1, NotifiedIs
<1> HIDE DEF k1
<1>4. /\ Base(k1) /\ Fine(k1, NULL) /\ Pended(k1) = Pended(x) /\ Deleted(k1) = Deleted(x)
      /\ k1.allocated = x.allocated /\ k1.uxPriority = x.uxPriority /\ k1.pxCurrentTCB = x.pxCurrentTCB
    BY <1>1, <1>3, AlikeRuns
<1>5. Quiet(k1) /\ Underway(x, k1)
    BY <1>1, <1>3, <1>4 DEF Quiet, SameRest, Underway
<1>6. Sound(k1, {}, {}, 1) /\ t \in k1.allocated /\ t \notin Deleted(k1)
    BY <1>4 DEF Base, Alive
<1>7. Sound(z, {}, {}, 1) /\ Ready(z) = Ready(k1) \cup {t} /\ SameEvents(k1, z) /\ Kept(k1, z)
    BY <1>6, ResumedKeeps
<1> HIDE DEF z
<1>8. /\ SameCurrent(k1, z) /\ SameRest(k1, z) /\ SameRanks(k1, z) /\ SameYield(k1, z)
      /\ z.xTasksWaitingTermination = k1.xTasksWaitingTermination
    BY <1>7 DEF Kept
<1>9. Base(z) /\ (Fine(z, NULL) \/ b)
    BY <1>1, <1>4, <1>7, <1>8, OneMore DEF SameYield, Outranks
<1>10. Mem(k2) /\ Alike(z, k2) /\ SameCurrent(z, k2) /\ SameYield(z, k2) /\ SameRest(z, k2)
    BY <1>9, RunTypes, AssertIs
<1> HIDE DEF k2
<1>11. Base(k2) /\ (Fine(z, NULL) => Fine(k2, NULL)) /\ Pended(k2) = Pended(z)
    BY <1>9, <1>10, AlikeRuns
<1>12. Quiet(k2) /\ Underway(x, k2)
    BY <1>5, <1>7, <1>8, <1>10, <1>11 DEF Quiet, Underway, SameRest, SameEvents, Pended
<1>13. b \in BOOLEAN
    BY DEF Outranks
<1> HIDE DEF b
<1>14. Run(YieldIf(k2, b), NULL) /\ Underway(k2, YieldIf(k2, b))
    BY <1>9, <1>11, <1>12, <1>13, YieldIfRuns
<1>15. Underway(x, YieldIf(k2, b))
    BY <1>12, <1>14 DEF Underway
<1> QED BY <1>2, <1>4, <1>5, <1>14, <1>15 DEF Run, y

\* Steps that move nobody.
LEMMA OtherRuns ==
    ASSUME NEW x, NEW c, Run(x, c), NEW y, DOMAIN y = DOMAIN x, Alike(x, y), SameCurrent(x, y), SameYield(x, y),
           SameRest(x, y), SameAsserts(x, y)
    PROVE  Run(y, c) /\ Underway(x, y)
<1>1. Mem(x) /\ Base(x)
    BY RunTypes DEF Run
<1>2. Mem(y)
    BY <1>1, OtherSetIs
<1>3. /\ Base(y) /\ (Fine(x, c) => Fine(y, c)) /\ Pended(y) = Pended(x)
    BY <1>1, <1>2, AlikeRuns
<1> QED BY <1>3 DEF Run, Quiet, SameRest, Underway

\* vTaskSuspend's second critical section.
LEMMA ResetRuns ==
    ASSUME NEW x, NEW c, Run(x, c), NEW holds, NEW what
    PROVE  LET y == prvResetNextTaskUnblockTime(configASSERT(x, holds, what))
           IN  Run(y, c) /\ Underway(x, y) /\ SameCurrent(x, y)
<1> DEFINE z == configASSERT(x, holds, what)
           y == prvResetNextTaskUnblockTime(z)
<1>1. Base(x) /\ Quiet(x) /\ Fine(x, c)
    BY DEF Run
<1>2. Mem(z) /\ Alike(x, z) /\ SameCurrent(x, z) /\ SameYield(x, z) /\ SameRest(x, z)
    BY <1>1, RunTypes, AssertIs
<1> HIDE DEF z
<1>3. Base(z) /\ Fine(z, c) /\ Pended(z) = Pended(x)
    BY <1>1, <1>2, AlikeRuns
<1>4. Sound(y, {}, {}, 1) /\ SameViews(z, y) /\ Kept(z, y)
    BY <1>3, ResetNextKeeps DEF Base
<1> HIDE DEF y
<1>5. /\ Ready(y) = Ready(z) /\ SameCurrent(z, y) /\ SameRest(z, y) /\ SameRanks(z, y) /\ SameYield(z, y)
      /\ y.xTasksWaitingTermination = z.xTasksWaitingTermination /\ Pended(y) = Pended(z)
    BY <1>4 DEF Kept, SameViews
<1>6. Base(y) /\ Fine(y, c)
    BY <1>3, <1>4, <1>5, NoneMore DEF SameYield
<1>7. SameRest(x, y) /\ SameCurrent(x, y) /\ Pended(y) = Pended(x)
    BY <1>2, <1>3, <1>5 DEF SameRest, SameCurrent
<1>8. Quiet(y) /\ Underway(x, y)
    BY <1>1, <1>7 DEF Quiet, SameRest, Underway
<1> QED BY <1>6, <1>7, <1>8 DEF Run, y, z

-----------------------------------------------------------------------------
(* Calls that end with the scheduler suspended, or with a switch. *)

\* The running task has suspended the scheduler, and is on its way to resume it.
Paused(x, y, c) ==
    /\ Run(y, c) /\ SameCurrent(x, y) /\ y.uxSchedulerSuspended # 0
    /\ y.xSchedulerRunning = x.xSchedulerRunning /\ y.allocated = x.allocated

LEMMA AssertRuns ==
    ASSUME NEW x, NEW c, Run(x, c), NEW holds, NEW what
    PROVE  LET y == configASSERT(x, holds, what)
           IN  Run(y, c) /\ Underway(x, y) /\ SameCurrent(x, y) /\ Alike(x, y)
<1> DEFINE y == configASSERT(x, holds, what)
<1>1. Base(x) /\ Quiet(x) /\ Fine(x, c)
    BY DEF Run
<1>2. Mem(y) /\ Alike(x, y) /\ SameCurrent(x, y) /\ SameYield(x, y) /\ SameRest(x, y)
    BY <1>1, RunTypes, AssertIs
<1> HIDE DEF y
<1>3. Base(y) /\ Fine(y, c) /\ Pended(y) = Pended(x)
    BY <1>1, <1>2, AlikeRuns
<1> QED BY <1>1, <1>2, <1>3 DEF Run, Quiet, SameRest, Underway, y

LEMMA HoldRuns ==
    ASSUME NEW x, Run(x, NULL)
    PROVE  Paused(x, vTaskSuspendAll(x), NULL)
<1>1. Base(x) /\ Fine(x, NULL) /\ x.pxCurrentTCB \notin Deleted(x)
    BY FineForAll DEF Run
<1>2. Leaving(x, vTaskSuspendAll(x), NULL) /\ Quiet(vTaskSuspendAll(x)) /\ vTaskSuspendAll(x).uxSchedulerSuspended # 0
    BY <1>1, SuspendAllKeeps
<1> QED BY <1>1, <1>2 DEF Paused, Leaving, Run

\* vTaskDelay and vTaskDelayUntil put the running task to sleep.
LEMMA DelayRuns ==
    ASSUME NEW x, Run(x, NULL), x.pxCurrentTCB # IdleTask, NEW ticks \in 1 .. TickMod - 1
    PROVE  LET y == prvAddCurrentTaskToDelayedList(vTaskSuspendAll(x), ticks, FALSE)
           IN  Paused(x, y, x.pxCurrentTCB)
<1> DEFINE z == vTaskSuspendAll(x)
           y == prvAddCurrentTaskToDelayedList(z, ticks, FALSE)
<1>1. Base(x) /\ x.pxCurrentTCB \notin Deleted(x)
    BY FineForAll DEF Run
<1>2. Leaving(x, z, NULL) /\ SameViews(x, z) /\ z.uxSchedulerSuspended # 0
    BY <1>1, SuspendAllKeeps
<1> HIDE DEF z
<1>3. Base(z) /\ SameCurrent(x, z) /\ z.pxCurrentTCB \notin Deleted(z) /\ z.pxCurrentTCB # IdleTask
    BY <1>1, <1>2 DEF Leaving, SameCurrent, SameViews
<1>4. Leaving(z, y, z.pxCurrentTCB) /\ SameRest(z, y)
    BY <1>3, SleepRuns
<1> HIDE DEF y
<1>5. Base(y) /\ SameCurrent(x, y) /\ y.uxSchedulerSuspended # 0
    BY <1>2, <1>3, <1>4 DEF Leaving, SameCurrent, SameRest
<1>6. Run(y, x.pxCurrentTCB)
    BY <1>5 DEF Run, Quiet, Fine, SameCurrent
<1> QED BY <1>2, <1>4, <1>5, <1>6 DEF Paused, Leaving, y, z

\* A task that waits for a notification goes to sleep and yields at once.
LEMMA BlockRuns ==
    ASSUME NEW x, Run(x, NULL), x.pxCurrentTCB # IdleTask, NEW ticks \in 1 .. TickMod - 1
    PROVE  LET y == portYIELD(prvAddCurrentTaskToDelayedList(x, ticks, TRUE))
           IN  Run(y, NULL) /\ Underway(x, y)
<1> DEFINE z == prvAddCurrentTaskToDelayedList(x, ticks, TRUE)
           y == portYIELD(z)
<1>1. Base(x) /\ x.pxCurrentTCB \notin Deleted(x) /\ Quiet(x)
    BY FineForAll DEF Run
<1>2. Leaving(x, z, x.pxCurrentTCB) /\ SameEvents(x, z) /\ SameRest(x, z)
    BY <1>1, SleepRuns
<1> HIDE DEF z
<1>3. Base(y) /\ Fine(y, NULL) /\ SameEvents(z, y) /\ SameRest(z, y)
    BY <1>2, YieldKeeps DEF Leaving
<1> HIDE DEF y
<1>4. SameEvents(x, y) /\ SameRest(x, y)
    BY <1>2, <1>3 DEF SameEvents, SameRest
<1> QED BY <1>1, <1>3, <1>4 DEF Run, Quiet, SameEvents, SameRest, Pended, Underway, y, z

\* xTaskCatchUpTicks leaves ticks to catch up with.
LEMMA CatchUpTicksRuns ==
    ASSUME NEW x, Run(x, NULL), NEW ticks \in Nat
    PROVE  LET y == [vTaskSuspendAll(x) EXCEPT !.xPendedTicks = @ + ticks]
           IN  Paused(x, y, NULL)
<1> DEFINE y == [vTaskSuspendAll(x) EXCEPT !.xPendedTicks = @ + ticks]
<1>1. Base(x) /\ Fine(x, NULL) /\ x.pxCurrentTCB \notin Deleted(x) /\ Mem(x)
    BY FineForAll, RunTypes DEF Run
<1>2. /\ DOMAIN y = DOMAIN x /\ y.uxSchedulerSuspended = x.uxSchedulerSuspended + 1
      /\ y.xPendedTicks = x.xPendedTicks + ticks
      /\ Alike(x, y) /\ SameCurrent(x, y) /\ SameYield(x, y)
    BY <1>1 DEF Mem, KernelFields, vTaskSuspendAll, Alike, SameReady, SameTop, SameSleep, SameParked, SameEvents,
       SameTimes, SameNext, SameClock, SameRanks, SameCurrent, SameYield
<1> HIDE DEF y
<1>3. y.xPendedTicks \in Nat
    BY <1>1, <1>2 DEF Mem
<1>4. Leaving(x, y, NULL) /\ Quiet(y) /\ y.uxSchedulerSuspended # 0
    BY <1>1, <1>2, <1>3, SuspendedKeeps
<1> QED BY <1>1, <1>4 DEF Paused, Leaving, Run, y

\* A walk moves pxIndex only.
LEMMA WalkKeeps ==
    ASSUME NEW x, NEW out, NEW loose, NEW least, Sound(x, out, loose, least), NEW y, Mem(y),
           \A p \in Priorities : ReadyAt(y, p) = ReadyAt(x, p), y.allocated = x.allocated,
           SameTop(x, y), SameSleep(x, y), SameParked(x, y), SameEvents(x, y), SameTimes(x, y), SameNext(x, y),
           SameClock(x, y), SameRanks(x, y)
    PROVE  Sound(y, out, loose, least) /\ SameViews(x, y)
<1>1. Mem(x) /\ Homes(x, out) /\ Ranked(x) /\ Bits(x, loose) /\ Apart(x) /\ Times(x, least)
    BY DEF Sound
<1>2. SameViews(x, y)
    BY DEF SameViews, Ready, SameSleep, SameParked, SameEvents, Delayed, Overflowed, Suspended, Deleted, Pended,
           Waiting, WaitingAt
<1>3. Homes(y, out) /\ Ranked(y) /\ Bits(y, loose)
    BY <1>1, <1>2 DEF SameViews, Homes, Ranked, Bits, SameRanks, SameTop
<1>4. Apart(y)
    BY <1>1, <1>2 DEF SameViews, Apart, SameEvents, WaitingAt
<1>5. Times(y, least)
    BY <1>1, <1>2 DEF SameViews, Times, Until, SameTimes, SameClock, SameNext, SameSleep
<1> QED BY <1>2, <1>3, <1>4, <1>5 DEF Sound

LEMMA SearchIs ==
    ASSUME NEW T, NEW l, GoodReady(T, l), NEW t
    PROVE  LET m == prvSearchForNameWithinSingleList(l, t)
           IN  GoodReady(T, m) /\ m.items = l.items
<1> DEFINE m == prvSearchForNameWithinSingleList(l, t)
           i == CHOOSE j \in DOMAIN l.items : l.items[j] = t
<1>1. l \in [items : Seq(T), index : Nat] /\ Distinct(l.items) /\ DOMAIN l.items = 1 .. Len(l.items) /\ Len(l.items) \in Nat
    BY DEF GoodReady
<1>2. CASE l.items = <<>>
    BY <1>2 DEF prvSearchForNameWithinSingleList
<1>3. CASE l.items # <<>> /\ Contains_(l, t)
    <2>1. m = [l EXCEPT !.index = i]
        BY <1>3 DEF prvSearchForNameWithinSingleList
    <2> HIDE DEF m
    <2>2. i \in DOMAIN l.items
        BY <1>3 DEF Contains_
    <2> HIDE DEF i
    <2>3. i \in Nat /\ i <= Len(l.items)
        BY <1>1, <2>2
    <2>4. m \in [items : Seq(T), index : Nat] /\ m.items = l.items /\ m.index = i
        BY <1>1, <2>1, <2>3
    <2>5. GoodReady(T, m)
        BY <1>1, <2>3, <2>4 DEF GoodReady
    <2> QED BY <2>4, <2>5 DEF m
<1>4. CASE l.items # <<>> /\ ~Contains_(l, t)
    BY <1>4, ReadyNextIs DEF prvSearchForNameWithinSingleList
<1> QED BY <1>2, <1>3, <1>4

LEMMA HandleRuns ==
    ASSUME NEW x, Run(x, NULL), NEW t
    PROVE  Paused(x, vTaskSuspendAll(xTaskGetHandle(x, t)), NULL)
<1> DEFINE in == {p \in Priorities : InReady(x, p, t)}
           f == [p \in Priorities |->
                    IF \A q \in in : q <= p THEN prvSearchForNameWithinSingleList(x.pxReadyTasksLists[p], t)
                    ELSE x.pxReadyTasksLists[p]]
           y == xTaskGetHandle(x, t)
<1>1. Base(x) /\ Fine(x, NULL) /\ Quiet(x) /\ Mem(x) /\ Sound(x, {}, {}, 1)
    BY RunTypes DEF Run, Base
<1>2. ASSUME NEW p \in Priorities PROVE f[p] \in ReadyLists /\ f[p].items = x.pxReadyTasksLists[p].items
    <2> DEFINE l == x.pxReadyTasksLists[p]
    <2>1. l \in ReadyLists /\ GoodReady(Tasks, l)
        BY <1>1 DEF Mem, ReadyLists
    <2>2. f[p] = l \/ f[p] = prvSearchForNameWithinSingleList(l, t)
        OBVIOUS
    <2> HIDE DEF f, l
    <2>3. GoodReady(Tasks, f[p]) /\ f[p].items = l.items
        BY <2>1, <2>2, SearchIs
    <2> QED BY <2>3 DEF ReadyLists, GoodReady, l
<1>3. f \in [Priorities -> ReadyLists]
    <2>1. \A p \in Priorities : f[p] \in ReadyLists
        BY <1>2
    <2> QED BY <2>1
<1>4. y = [x EXCEPT !.pxReadyTasksLists = f]
    BY DEF xTaskGetHandle
<1> HIDE DEF f
<1>5. /\ y.pxReadyTasksLists = f /\ DOMAIN y = DOMAIN x
      /\ SameTop(x, y) /\ SameSleep(x, y) /\ SameParked(x, y) /\ SameEvents(x, y) /\ SameTimes(x, y) /\ SameNext(x, y)
      /\ SameClock(x, y) /\ SameRanks(x, y) /\ SameCurrent(x, y) /\ SameYield(x, y) /\ SameRest(x, y)
    BY <1>1, <1>4 DEF Mem, KernelFields, SameTop, SameSleep, SameParked, SameEvents, SameTimes, SameNext,
       SameClock, SameRanks, SameCurrent, SameYield, SameRest
<1> HIDE DEF y
<1>6. Mem(y)
    BY <1>1, <1>3, <1>5 DEF Mem, SameTop, SameSleep, SameParked, SameEvents, SameTimes, SameNext,
       SameClock, SameRanks, SameCurrent, SameYield, SameRest
<1>7. \A p \in Priorities : ReadyAt(y, p) = ReadyAt(x, p)
    BY <1>2, <1>5 DEF ReadyAt
<1>8. Sound(y, {}, {}, 1) /\ SameViews(x, y)
    BY <1>1, <1>5, <1>6, <1>7, WalkKeeps DEF SameRest
<1>9. Base(y) /\ Fine(y, NULL)
    BY <1>1, <1>5, <1>8, NoneMore DEF SameViews, SameYield, SameParked
<1>10. Run(y, NULL)
    BY <1>1, <1>5, <1>8, <1>9 DEF Run, Quiet, SameViews, SameRest
<1>11. Paused(y, vTaskSuspendAll(y), NULL)
    BY <1>10, HoldRuns
<1>12. Paused(x, vTaskSuspendAll(y), NULL)
    BY <1>5, <1>11 DEF Paused, SameCurrent, SameRest
<1> QED BY <1>12 DEF y

-----------------------------------------------------------------------------
(* Suspending and deleting a task. *)

\* A task leaves all its lists.
Left(x, y, t) ==
    /\ Sound(y, {t}, {}, 1) /\ DOMAIN y = DOMAIN x
    /\ Ready(y) = Ready(x) \ {t} /\ t \notin Pended(y) \cup Waiting(y) /\ Pended(y) \subseteq Pended(x)
    /\ Kept(x, y)

LEMMA LeaveKeeps ==
    ASSUME NEW x, Sound(x, {}, {}, 1), NEW t, Alive(x, t)
    PROVE  Left(x, RemoveEvent(taskRESET_READY_PRIORITY(RemoveState(x, t), x.uxPriority[t]), t), t)
<1> DEFINE p == x.uxPriority[t]
           z == RemoveState(x, t)
           w == taskRESET_READY_PRIORITY(z, p)
           y == RemoveEvent(w, t)
<1>1. Mem(x) /\ t \in Tasks /\ t \notin Deleted(x) /\ p \in Priorities
    BY DEF Sound, Mem, Alive
<1>2. DOMAIN y = DOMAIN x
    BY DEF RemoveState, RemoveEvent, taskRESET_READY_PRIORITY
<1>3. /\ Sound(z, {} \cup {t}, {} \cup {p}, 1) /\ Ready(z) = Ready(x) \ {t} /\ SameEvents(x, z) /\ Kept(x, z)
    BY <1>1, RemoveStateKeeps
<1> HIDE DEF z
<1>4. Sound(z, {t}, {p}, 1)
    BY <1>3
<1>5. Sound(w, {t}, {p} \ {p}, 1) /\ SameReady(z, w) /\ SameEvents(z, w) /\ Kept(z, w)
    BY <1>1, <1>4, ResetReadyKeeps
<1> HIDE DEF w
<1>6. {p} \ {p} = {}
    OBVIOUS
<1>7. Sound(w, {t}, {}, 1)
    BY <1>5, <1>6
<1>8. /\ Sound(y, {t}, {}, 1) /\ Pended(y) = Pended(w) \ {t} /\ Waiting(y) = Waiting(w) \ {t}
      /\ SameReady(w, y) /\ Kept(w, y)
    BY <1>7, RemoveEventKeeps
<1> HIDE DEF y
<1>9. Ready(y) = Ready(x) \ {t}
    BY <1>3, <1>5, <1>8 DEF SameReady, Ready, ReadyAt
<1>10. Pended(y) \subseteq Pended(x)
    BY <1>3, <1>5, <1>8 DEF SameEvents, Pended
<1>11. Kept(x, y)
    BY <1>3, <1>5, <1>8 DEF Kept, SameTimes, SameClock, SameRanks, SameCurrent, SameYield, SameAsserts, SameRest
<1> QED BY <1>2, <1>8, <1>9, <1>10, <1>11 DEF Left, y, w, z, p

\* The task that went may be the running one.
LEMMA OneLess ==
    ASSUME NEW x, NEW y, NEW t, Run(x, NULL), t # IdleTask, Sound(y, {}, {}, 1), Ready(y) = Ready(x) \ {t},
           Pended(y) \subseteq Pended(x), SameCurrent(x, y), SameRanks(x, y), SameYield(x, y),
           y.uxSchedulerSuspended = x.uxSchedulerSuspended, y.xPendedTicks = x.xPendedTicks,
           y.uxDeletedTasksWaitingCleanUp = Len(y.xTasksWaitingTermination),
           Deleted(y) \subseteq Deleted(x) \cup {t}, y.pxCurrentTCB \in y.allocated,
           t = x.pxCurrentTCB => (t \in Deleted(y) => y.uxSchedulerSuspended = 0)
    PROVE  Run(y, IF t = x.pxCurrentTCB THEN t ELSE NULL)
<1> DEFINE c == IF t = x.pxCurrentTCB THEN t ELSE NULL
<1>1. Base(x) /\ Quiet(x) /\ x.pxCurrentTCB \notin Deleted(x) /\ (x.xYieldPending \/ Highest(x))
    BY FineForAll DEF Run
<1>2. Base(y)
    BY <1>1 DEF Base, SameCurrent
<1>3. Quiet(y)
    BY <1>1 DEF Quiet
<1>4. CASE t = x.pxCurrentTCB
    BY <1>2, <1>3, <1>4 DEF Run, Fine, SameCurrent
<1>5. CASE t # x.pxCurrentTCB
    <2>1. y.pxCurrentTCB \notin Deleted(y) /\ (x.xYieldPending => y.xYieldPending)
        BY <1>1, <1>5 DEF SameCurrent, SameYield
    <2>2. Highest(x) => Highest(y)
        BY <1>5 DEF Highest, SameCurrent, SameRanks
    <2> QED BY <1>1, <1>2, <1>3, <1>5, <2>1, <2>2 DEF Run, Fine
<1> QED BY <1>4, <1>5

LEMMA SuspendRuns ==
    ASSUME NEW x, Run(x, NULL), NEW t, Alive(x, t), t # IdleTask
    PROVE  LET y == vTaskSuspend(x, t)
           IN  /\ Run(y, IF t = x.pxCurrentTCB THEN t ELSE NULL) /\ Underway(x, y) /\ SameCurrent(x, y)
<1> DEFINE z == RemoveEvent(taskRESET_READY_PRIORITY(RemoveState(x, t), x.uxPriority[t]), t)
           y == vTaskSuspend(x, t)
<1>1. Base(x) /\ Sound(x, {}, {}, 1)
    BY DEF Run, Base
<1>2. Left(x, z, t)
    BY <1>1, LeaveKeeps
<1>3. y = [z EXCEPT !.xSuspendedTaskList = Append(@, t),
                    !.ucNotifyState[t]   = IF @ = "taskWAITING_NOTIFICATION"
                                           THEN "taskNOT_WAITING_NOTIFICATION" ELSE @]
    BY DEF vTaskSuspend
<1> HIDE DEF z
<1>4. Sound(z, {t}, {}, 1) /\ Mem(z) /\ Kept(x, z) /\ t \in z.allocated
    BY <1>2 DEF Left, Sound, Kept, SameRest, Alive
<1>5. /\ DOMAIN y = DOMAIN z /\ y.xSuspendedTaskList = Append(z.xSuspendedTaskList, t)
      /\ y.xTasksWaitingTermination = z.xTasksWaitingTermination
      /\ SameReady(z, y) /\ SameTop(z, y) /\ SameSleep(z, y) /\ SameEvents(z, y) /\ SameTimes(z, y) /\ SameNext(z, y)
      /\ SameClock(z, y) /\ SameRanks(z, y) /\ SameCurrent(z, y) /\ SameYield(z, y) /\ SameAsserts(z, y) /\ SameRest(z, y)
    BY <1>3, <1>4 DEF Mem, KernelFields, SameReady, SameTop, SameSleep, SameEvents, SameTimes, SameNext,
       SameClock, SameRanks, SameCurrent, SameYield, SameAsserts, SameRest
<1> HIDE DEF y
<1>6. Sound(y, {t} \ {t}, {}, 1) /\ Ready(y) = Ready(z)
    BY <1>4, <1>5, ParkKeeps
<1>7. {t} \ {t} = {}
    OBVIOUS
<1>8. Sound(y, {}, {}, 1)
    BY <1>6, <1>7
<1>9. /\ Ready(y) = Ready(x) \ {t} /\ Pended(y) \subseteq Pended(x)
    BY <1>2, <1>5, <1>6 DEF Left, SameEvents, Pended
<1>10. /\ SameCurrent(x, y) /\ SameRanks(x, y) /\ SameYield(x, y) /\ SameRest(x, y)
       /\ y.xTasksWaitingTermination = x.xTasksWaitingTermination
    BY <1>4, <1>5 DEF Kept, SameCurrent, SameRanks, SameYield, SameRest
<1>11. /\ y.uxSchedulerSuspended = x.uxSchedulerSuspended /\ y.xPendedTicks = x.xPendedTicks
       /\ y.uxDeletedTasksWaitingCleanUp = Len(y.xTasksWaitingTermination)
       /\ Deleted(y) = Deleted(x) /\ y.pxCurrentTCB \in y.allocated
    BY <1>1, <1>10 DEF Base, SameRest, SameCurrent, Deleted
<1>12. t = x.pxCurrentTCB => (t \in Deleted(y) => y.uxSchedulerSuspended = 0)
    BY <1>11 DEF Alive
<1>13. Run(y, IF t = x.pxCurrentTCB THEN t ELSE NULL)
    BY <1>8, <1>9, <1>10, <1>11, <1>12, OneLess
<1> QED BY <1>10, <1>13 DEF Underway, SameRest, y

\* A task in no state list is put aside, for the idle task to free.
LEMMA AsideKeeps ==
    ASSUME NEW x, NEW t, Sound(x, {t}, {}, 1), t \in x.allocated, t \notin Pended(x) \cup Waiting(x),
           NEW y, DOMAIN y = DOMAIN x, y.xTasksWaitingTermination = Append(x.xTasksWaitingTermination, t),
           y.xSuspendedTaskList = x.xSuspendedTaskList, y.allocated = x.allocated,
           y.xSchedulerRunning = x.xSchedulerRunning, y.uxSchedulerSuspended = x.uxSchedulerSuspended,
           y.xPendedTicks = x.xPendedTicks,
           SameReady(x, y), SameTop(x, y), SameSleep(x, y), SameEvents(x, y), SameTimes(x, y), SameNext(x, y),
           SameClock(x, y), SameRanks(x, y), SameCurrent(x, y), SameYield(x, y)
    PROVE  /\ Sound(y, {}, {}, 1) /\ Ready(y) = Ready(x) /\ Deleted(y) = Deleted(x) \cup {t}
           /\ Len(y.xTasksWaitingTermination) = Len(x.xTasksWaitingTermination) + 1
<1>1. Mem(x) /\ Homes(x, {t}) /\ Ranked(x) /\ Bits(x, {}) /\ Apart(x) /\ Times(x, 1)
    BY DEF Sound
<1>2. t \in Tasks /\ t \notin Ready(x) /\ t \notin Delayed(x) /\ t \notin Overflowed(x) /\ t \notin Suspended(x)
      /\ t \notin Deleted(x)
    BY <1>1 DEF Homes, Mem
<1>3. /\ y.xTasksWaitingTermination \in TaskLists /\ Deleted(y) = Deleted(x) \cup {t}
      /\ Len(y.xTasksWaitingTermination) = Len(x.xTasksWaitingTermination) + 1
    BY <1>1, <1>2, JoinedIs DEF Deleted, Mem
<1>4. Mem(y)
    BY <1>1, <1>3 DEF Mem, SameReady, SameTop, SameSleep, SameEvents, SameTimes, SameNext,
           SameClock, SameRanks, SameCurrent, SameYield
<1>5. /\ Ready(y) = Ready(x) /\ Delayed(y) = Delayed(x) /\ Overflowed(y) = Overflowed(x)
      /\ Suspended(y) = Suspended(x) /\ Pended(y) = Pended(x) /\ Waiting(y) = Waiting(x)
      /\ \A p \in Priorities : ReadyAt(y, p) = ReadyAt(x, p)
    BY DEF SameReady, SameSleep, SameEvents, Ready, ReadyAt, Delayed, Overflowed, Suspended, Pended, Waiting, WaitingAt
<1>6. Homes(y, {})
    BY <1>1, <1>2, <1>3, <1>5 DEF Homes
<1>7. Ranked(y) /\ Bits(y, {})
    BY <1>1, <1>5 DEF Ranked, Bits, SameRanks, SameTop
<1>8. Apart(y)
    BY <1>1, <1>3, <1>5 DEF Apart, SameEvents, WaitingAt
<1>9. Times(y, 1)
    BY <1>1, <1>5 DEF Times, Until, SameTimes, SameClock, SameNext, SameSleep
<1> QED BY <1>3, <1>4, <1>5, <1>6, <1>7, <1>8, <1>9 DEF Sound

\* A task that is in no list any more is freed.
LEMMA FreedKeeps ==
    ASSUME NEW x, NEW t, Sound(x, {t}, {}, 1), t \notin Pended(x) \cup Waiting(x),
           NEW y, DOMAIN y = DOMAIN x, y.allocated = x.allocated \ {t},
           y.xSchedulerRunning = x.xSchedulerRunning, y.uxSchedulerSuspended = x.uxSchedulerSuspended,
           y.xPendedTicks = x.xPendedTicks,
           SameReady(x, y), SameTop(x, y), SameSleep(x, y), SameParked(x, y), SameEvents(x, y), SameTimes(x, y),
           SameNext(x, y), SameClock(x, y), SameRanks(x, y), SameCurrent(x, y), SameYield(x, y)
    PROVE  Sound(y, {}, {}, 1) /\ SameViews(x, y)
<1>1. Mem(x) /\ Homes(x, {t}) /\ Ranked(x) /\ Bits(x, {}) /\ Apart(x) /\ Times(x, 1)
    BY DEF Sound
<1>2. SameViews(x, y)
    BY AlikeViews
<1>3. Mem(y)
    BY <1>1 DEF Mem, SameReady, SameTop, SameSleep, SameParked, SameEvents, SameTimes, SameNext,
           SameClock, SameRanks, SameCurrent, SameYield
<1>4. Homes(y, {}) /\ Ranked(y) /\ Bits(y, {})
    BY <1>1, <1>2 DEF SameViews, Homes, Ranked, Bits, SameRanks, SameTop
<1>5. Apart(y)
    BY <1>1, <1>2 DEF SameViews, Apart, SameEvents, WaitingAt
<1>6. Times(y, 1)
    BY <1>1, <1>2 DEF SameViews, Times, Until, SameTimes, SameClock, SameNext, SameSleep
<1> QED BY <1>2, <1>3, <1>4, <1>5, <1>6 DEF Sound

\* vTaskDelete: the running task is put aside, any other is freed at once.
LEMMA DeleteRuns ==
    ASSUME NEW x, Run(x, NULL), NEW t, Alive(x, t), t # IdleTask, t = x.pxCurrentTCB => x.uxSchedulerSuspended = 0
    PROVE  LET y == vTaskDelete(x, t)
           IN  /\ Run(y, IF t = x.pxCurrentTCB THEN t ELSE NULL) /\ SameCurrent(x, y)
               /\ y.xSchedulerRunning = x.xSchedulerRunning /\ y.uxSchedulerSuspended = x.uxSchedulerSuspended
<1> DEFINE z  == RemoveEvent(taskRESET_READY_PRIORITY(RemoveState(x, t), x.uxPriority[t]), t)
           k2 == [z EXCEPT !.xTasksWaitingTermination = Append(@, t),
                           !.uxDeletedTasksWaitingCleanUp = @ + 1]
           k3 == prvDeleteTCB([z EXCEPT !.uxCurrentNumberOfTasks = @ - 1], t)
           k4 == prvResetNextTaskUnblockTime(k3)
           y  == vTaskDelete(x, t)
<1>1. Base(x) /\ Sound(x, {}, {}, 1)
    BY DEF Run, Base
<1>2. y = IF t = x.pxCurrentTCB THEN k2 ELSE k4
    BY DEF vTaskDelete
<1>3. Left(x, z, t)
    BY <1>1, LeaveKeeps
<1> HIDE DEF z, y
<1>4. /\ Sound(z, {t}, {}, 1) /\ Mem(z) /\ Kept(x, z) /\ t \in z.allocated /\ t \notin Pended(z) \cup Waiting(z)
      /\ Ready(z) = Ready(x) \ {t} /\ Pended(z) \subseteq Pended(x)
    BY <1>3 DEF Left, Sound, Kept, SameRest, Alive
<1>5. /\ SameCurrent(x, z) /\ SameRanks(x, z) /\ SameYield(x, z) /\ SameRest(x, z)
      /\ z.xTasksWaitingTermination = x.xTasksWaitingTermination
    BY <1>4 DEF Kept
<1>6. CASE t = x.pxCurrentTCB
    <2>1. /\ DOMAIN k2 = DOMAIN z /\ k2.xTasksWaitingTermination = Append(z.xTasksWaitingTermination, t)
          /\ k2.uxDeletedTasksWaitingCleanUp = z.uxDeletedTasksWaitingCleanUp + 1
          /\ k2.xSuspendedTaskList = z.xSuspendedTaskList /\ k2.allocated = z.allocated
          /\ k2.xSchedulerRunning = z.xSchedulerRunning /\ k2.uxSchedulerSuspended = z.uxSchedulerSuspended
          /\ k2.xPendedTicks = z.xPendedTicks
          /\ SameReady(z, k2) /\ SameTop(z, k2) /\ SameSleep(z, k2) /\ SameEvents(z, k2) /\ SameTimes(z, k2)
          /\ SameNext(z, k2) /\ SameClock(z, k2) /\ SameRanks(z, k2) /\ SameCurrent(z, k2) /\ SameYield(z, k2)
        BY <1>4 DEF Mem, KernelFields, SameReady, SameTop, SameSleep, SameEvents, SameTimes, SameNext,
           SameClock, SameRanks, SameCurrent, SameYield
    <2> HIDE DEF k2
    <2>2. /\ Sound(k2, {}, {}, 1) /\ Ready(k2) = Ready(z) /\ Deleted(k2) = Deleted(z) \cup {t}
          /\ Len(k2.xTasksWaitingTermination) = Len(z.xTasksWaitingTermination) + 1
        BY <1>4, <2>1, AsideKeeps
    <2>3. Ready(k2) = Ready(x) \ {t} /\ Pended(k2) \subseteq Pended(x)
        BY <1>4, <2>1, <2>2 DEF SameEvents, Pended
    <2>4. /\ SameCurrent(x, k2) /\ SameRanks(x, k2) /\ SameYield(x, k2)
          /\ k2.xSchedulerRunning = x.xSchedulerRunning /\ k2.uxSchedulerSuspended = x.uxSchedulerSuspended
          /\ k2.xPendedTicks = x.xPendedTicks /\ k2.pxCurrentTCB \in k2.allocated
        BY <1>1, <1>5, <2>1 DEF SameCurrent, SameRanks, SameYield, SameRest, Base
    <2>5. k2.uxDeletedTasksWaitingCleanUp = Len(k2.xTasksWaitingTermination) /\ Deleted(k2) \subseteq Deleted(x) \cup {t}
        BY <1>1, <1>5, <2>1, <2>2 DEF Base, SameRest, Deleted
    <2>6. Run(k2, IF t = x.pxCurrentTCB THEN t ELSE NULL)
        BY <1>6, <2>2, <2>3, <2>4, <2>5, OneLess
    <2> QED BY <1>2, <1>6, <2>4, <2>6 DEF y
<1>7. CASE t # x.pxCurrentTCB
    <2>1. /\ DOMAIN k3 = DOMAIN z /\ k3.allocated = z.allocated \ {t}
          /\ k3.uxDeletedTasksWaitingCleanUp = z.uxDeletedTasksWaitingCleanUp
          /\ k3.xSchedulerRunning = z.xSchedulerRunning /\ k3.uxSchedulerSuspended = z.uxSchedulerSuspended
          /\ k3.xPendedTicks = z.xPendedTicks
          /\ SameReady(z, k3) /\ SameTop(z, k3) /\ SameSleep(z, k3) /\ SameParked(z, k3) /\ SameEvents(z, k3)
          /\ SameTimes(z, k3) /\ SameNext(z, k3) /\ SameClock(z, k3) /\ SameRanks(z, k3) /\ SameCurrent(z, k3)
          /\ SameYield(z, k3)
        BY <1>4 DEF Mem, KernelFields, prvDeleteTCB, SameReady, SameTop, SameSleep, SameParked, SameEvents, SameTimes,
           SameNext, SameClock, SameRanks, SameCurrent, SameYield
    <2> HIDE DEF k3
    <2>2. Sound(k3, {}, {}, 1) /\ SameViews(z, k3)
        BY <1>4, <2>1, FreedKeeps
    <2>3. Sound(k4, {}, {}, 1) /\ SameViews(k3, k4) /\ Kept(k3, k4)
        BY <2>2, ResetNextKeeps
    <2> HIDE DEF k4
    <2>4. Ready(k4) = Ready(x) \ {t} /\ Pended(k4) \subseteq Pended(x)
        BY <1>4, <2>2, <2>3 DEF SameViews
    <2>5. /\ SameCurrent(k3, k4) /\ SameRanks(k3, k4) /\ SameYield(k3, k4) /\ SameRest(k3, k4)
          /\ k4.xTasksWaitingTermination = k3.xTasksWaitingTermination
        BY <2>3 DEF Kept
    <2>6. /\ SameCurrent(x, k4) /\ SameRanks(x, k4) /\ SameYield(x, k4)
          /\ k4.xSchedulerRunning = x.xSchedulerRunning /\ k4.uxSchedulerSuspended = x.uxSchedulerSuspended
          /\ k4.xPendedTicks = x.xPendedTicks /\ k4.allocated = x.allocated \ {t}
          /\ k4.uxDeletedTasksWaitingCleanUp = x.uxDeletedTasksWaitingCleanUp
          /\ k4.xTasksWaitingTermination = x.xTasksWaitingTermination
        BY <1>5, <2>1, <2>5 DEF SameCurrent, SameRanks, SameYield, SameRest, SameParked
    <2>7. /\ k4.uxDeletedTasksWaitingCleanUp = Len(k4.xTasksWaitingTermination)
          /\ Deleted(k4) \subseteq Deleted(x) \cup {t} /\ k4.pxCurrentTCB \in k4.allocated
        BY <1>1, <1>7, <2>6 DEF Base, SameCurrent, Deleted
    <2>8. Run(k4, IF t = x.pxCurrentTCB THEN t ELSE NULL)
        BY <1>7, <2>3, <2>4, <2>6, <2>7, OneLess
    <2> QED BY <1>2, <1>7, <2>6, <2>8 DEF y
<1> QED BY <1>6, <1>7

\* The list of the deleted tasks loses its first.
LEMMA FirstLeaves ==
    ASSUME NEW s \in TaskLists, s # <<>>
    PROVE  Head(s) \in Elements(s) /\ Len(Without(s, Head(s))) = Len(s) - 1
<1>1. s \in Seq(Tasks) /\ Len(s) \in Nat \ {0} /\ DOMAIN s = 1 .. Len(s) /\ Head(s) = s[1] /\ 1 \in DOMAIN s
    BY DEF TaskLists
<1> DEFINE i == PlaceOf(s, Head(s))
<1>2. i \in 1 .. Len(s) /\ Without(s, Head(s)) = RemoveAt(s, i)
    BY <1>1 DEF PlaceOf, Without
<1> HIDE DEF i
<1>3. TakenOut(Tasks, s, i, RemoveAt(s, i))
    BY <1>1, <1>2, RemoveAtIs
<1> QED BY <1>1, <1>2, <1>3 DEF TakenOut, Elements

\* One round of the idle task frees one task that deleted itself.
LEMMA CleanUpRuns ==
    ASSUME NEW x, Run(x, NULL), x.uxDeletedTasksWaitingCleanUp > 0
    PROVE  LET y == prvCheckTasksWaitingTermination(x)
           IN  /\ Run(y, NULL) /\ SameCurrent(x, y)
               /\ y.xSchedulerRunning = x.xSchedulerRunning /\ y.uxSchedulerSuspended = x.uxSchedulerSuspended
<1> DEFINE s == x.xTasksWaitingTermination
           t == Head(s)
           z == RemoveState(x, t)
           y == prvCheckTasksWaitingTermination(x)
<1>1. /\ Base(x) /\ Mem(x) /\ Quiet(x) /\ x.pxCurrentTCB \notin Deleted(x) /\ (x.xYieldPending \/ Highest(x))
      /\ Homes(x, {}) /\ Ranked(x) /\ Bits(x, {}) /\ Apart(x) /\ Times(x, 1)
    BY FineForAll DEF Run, Base, Sound
<1>2. s \in TaskLists /\ x.uxDeletedTasksWaitingCleanUp = Len(s) /\ Deleted(x) = Elements(s)
    BY <1>1 DEF Mem, Base, Deleted
<1>3. s # <<>>
    BY <1>2
<1>4. t \in Deleted(x) /\ Len(Without(s, t)) = Len(s) - 1
    BY <1>2, <1>3, FirstLeaves
<1>5. z.xTasksWaitingTermination = Without(s, t)
    BY <1>1 DEF RemoveState, Mem, KernelFields
<1>6. y = prvDeleteTCB([z EXCEPT !.uxCurrentNumberOfTasks = @ - 1, !.uxDeletedTasksWaitingCleanUp = @ - 1], t)
    BY DEF prvCheckTasksWaitingTermination
<1> HIDE DEF t, s, y
<1>7. /\ Mem(z)
      /\ \A p \in Priorities : ReadyAt(z, p) = ReadyAt(x, p) \ {t}
      /\ Ready(z) = Ready(x) \ {t} /\ Delayed(z) = Delayed(x) \ {t}
      /\ Overflowed(z) = Overflowed(x) \ {t} /\ Suspended(z) = Suspended(x) \ {t}
      /\ Deleted(z) = Deleted(x) \ {t}
      /\ \A v \in [Tasks -> Int] :
           /\ SortedBy(x.pxDelayedTaskList, v) => SortedBy(z.pxDelayedTaskList, v)
           /\ SortedBy(x.pxOverflowDelayedTaskList, v) => SortedBy(z.pxOverflowDelayedTaskList, v)
      /\ SameTop(x, z) /\ SameEvents(x, z) /\ SameTimes(x, z) /\ SameNext(x, z) /\ SameClock(x, z)
      /\ SameRanks(x, z) /\ SameCurrent(x, z) /\ SameYield(x, z) /\ SameRest(x, z)
    BY <1>1, RemoveStateIs
<1> HIDE DEF z
<1>8. /\ DOMAIN y = DOMAIN z /\ y.allocated = z.allocated \ {t}
      /\ y.uxDeletedTasksWaitingCleanUp = z.uxDeletedTasksWaitingCleanUp - 1
      /\ y.xSchedulerRunning = z.xSchedulerRunning /\ y.uxSchedulerSuspended = z.uxSchedulerSuspended
      /\ y.xPendedTicks = z.xPendedTicks
      /\ SameReady(z, y) /\ SameTop(z, y) /\ SameSleep(z, y) /\ SameParked(z, y) /\ SameEvents(z, y)
      /\ SameTimes(z, y) /\ SameNext(z, y) /\ SameClock(z, y) /\ SameRanks(z, y) /\ SameCurrent(z, y)
      /\ SameYield(z, y)
    BY <1>6, <1>7 DEF Mem, KernelFields, prvDeleteTCB, SameReady, SameTop, SameSleep, SameParked, SameEvents, SameTimes,
       SameNext, SameClock, SameRanks, SameCurrent, SameYield
<1> HIDE DEF y
<1>9. t \notin Ready(x) /\ t \notin Delayed(x) /\ t \notin Overflowed(x) /\ t \notin Suspended(x)
      /\ t \notin Pended(x) \cup Waiting(x)
    BY <1>1, <1>4 DEF Homes, Apart
<1>10. \A p \in Priorities : ReadyAt(z, p) = ReadyAt(x, p)
    <2>1. ASSUME NEW p \in Priorities PROVE t \notin ReadyAt(x, p)
        BY <1>1, <1>4, <1>9 DEF Ready, Deleted, Mem, TaskLists, Elements
    <2> QED BY <1>7, <2>1
<1>11. /\ Ready(z) = Ready(x) /\ Delayed(z) = Delayed(x) /\ Overflowed(z) = Overflowed(x)
       /\ Suspended(z) = Suspended(x) /\ Pended(z) = Pended(x) /\ Waiting(z) = Waiting(x)
    BY <1>7, <1>9 DEF SameEvents, Pended, Waiting, WaitingAt
<1>12. Sound(z, {t}, {}, 1)
    <2>1. Homes(z, {t})
        BY <1>1, <1>4, <1>7, <1>9, <1>11 DEF Homes, SameRest
    <2>2. Ranked(z) /\ Bits(z, {})
        BY <1>1, <1>7, <1>10 DEF Ranked, Bits, SameRanks, SameTop
    <2>3. Apart(z)
        BY <1>1, <1>7, <1>11 DEF Apart, SameEvents, SameRest, WaitingAt
    <2>4. x.xItemValue \in [Tasks -> Int]
        BY <1>1, Numbers DEF Mem, Ticks
    <2>5. Times(z, 1)
        BY <1>1, <1>7, <1>11, <2>4 DEF Times, Until, SameTimes, SameClock, SameNext
    <2> QED BY <1>7, <2>1, <2>2, <2>3, <2>5 DEF Sound
<1>13. Sound(y, {}, {}, 1) /\ SameViews(z, y)
    BY <1>8, <1>9, <1>11, <1>12, FreedKeeps
<1>14. /\ SameCurrent(x, y) /\ SameRanks(x, y) /\ SameYield(x, y) /\ Ready(y) = Ready(x) /\ Pended(y) = Pended(x)
       /\ Deleted(y) \subseteq Deleted(x)
       /\ y.xSchedulerRunning = x.xSchedulerRunning /\ y.uxSchedulerSuspended = x.uxSchedulerSuspended
       /\ y.xPendedTicks = x.xPendedTicks /\ y.allocated = x.allocated \ {t}
    BY <1>7, <1>8, <1>11, <1>13 DEF SameCurrent, SameRanks, SameYield, SameViews, SameRest
<1>15. y.uxDeletedTasksWaitingCleanUp = Len(y.xTasksWaitingTermination)
    BY <1>2, <1>4, <1>5, <1>7, <1>8 DEF SameRest, SameParked
<1>16. Base(y)
    BY <1>1, <1>4, <1>13, <1>14, <1>15 DEF Base, SameCurrent
<1>17. Fine(y, NULL)
    BY <1>1, <1>14 DEF Fine, Highest, SameCurrent, SameRanks, SameYield
<1> QED BY <1>1, <1>14, <1>16, <1>17 DEF Run, Quiet, y

\* xTaskAbortDelay, with the scheduler suspended: the task is ready again and
\* waits for no event.
LEMMA AbortRuns ==
    ASSUME NEW x, Run(x, NULL), x.uxSchedulerSuspended # 0, NEW t, Alive(x, t)
    PROVE  LET r == xTaskAbortDelay(x, t)
           IN  Run(r.k, NULL) /\ Underway(x, r.k) /\ SameCurrent(x, r.k)
<1> DEFINE z == RemoveState(x, t)
           w == [RemoveEvent(z, t) EXCEPT !.ucDelayAborted[t] = TRUE]
           v == IF EventContainer(x, t) THEN w ELSE z
           y == prvAddTaskToReadyList(v, t)
           r == xTaskAbortDelay(x, t)
<1>1. /\ Base(x) /\ Sound(x, {}, {}, 1) /\ Fine(x, NULL) /\ Mem(x) /\ t \in Tasks /\ t \in x.allocated
      /\ t \notin Deleted(x)
    BY RunTypes DEF Run, Base, Alive, Mem
<1>2. r.k = x \/ (r.k = y /\ ~Outranks(x, t)) \/ r.k = Asking(y, TRUE)
    BY DEF xTaskAbortDelay, Asking
<1> HIDE DEF r
<1>4. /\ Sound(z, {} \cup {t}, {} \cup {x.uxPriority[t]}, 1) /\ Ready(z) = Ready(x) \ {t} /\ Kept(x, z)
    BY <1>1, RemoveStateKeeps
<1> HIDE DEF z
<1>5. Sound(z, {t}, {x.uxPriority[t]}, 1)
    BY <1>4
<1>6. /\ Sound(v, {t}, {x.uxPriority[t]}, 1) /\ Ready(v) = Ready(z) /\ Kept(z, v)
    <2> DEFINE u == RemoveEvent(z, t)
    <2>1. Sound(u, {t}, {x.uxPriority[t]}, 1) /\ SameReady(z, u) /\ Kept(z, u)
        BY <1>5, RemoveEventKeeps
    <2> HIDE DEF u
    <2>2. /\ DOMAIN w = DOMAIN u /\ Alike(u, w) /\ SameCurrent(u, w) /\ SameYield(u, w) /\ SameRest(u, w)
          /\ SameAsserts(u, w)
        <3>1. Mem(u)
            BY <2>1 DEF Sound
        <3>2. w = [u EXCEPT !.ucDelayAborted[t] = TRUE]
            BY DEF u
        <3> HIDE DEF w
        <3> QED BY <3>1, <3>2 DEF Mem, KernelFields, Alike, SameReady, SameTop, SameSleep, SameParked, SameEvents,
                   SameTimes, SameNext, SameClock, SameRanks, SameCurrent, SameYield, SameRest, SameAsserts
    <2> HIDE DEF w
    <2>3. Mem(w)
        BY <2>1, <2>2, OtherSetIs DEF Sound
    <2>4. Sound(w, {t}, {x.uxPriority[t]}, 1) /\ SameViews(u, w)
        BY <2>1, <2>2, <2>3, AlikeKeeps
    <2>5. Ready(w) = Ready(z)
        BY <2>1, <2>4 DEF SameViews, SameReady, Ready, ReadyAt
    <2>6. Kept(z, w)
        BY <2>1, <2>2 DEF Kept, Alike, SameTimes, SameClock, SameRanks, SameCurrent, SameYield, SameAsserts, SameRest,
           SameParked
    <2>7. Kept(z, z)
        BY DEF Kept, SameTimes, SameClock, SameRanks, SameCurrent, SameYield, SameAsserts, SameRest
    <2> QED BY <1>5, <2>4, <2>5, <2>6, <2>7
<1> HIDE DEF v
<1>7. v.uxPriority = x.uxPriority /\ v.allocated = x.allocated
    BY <1>4, <1>6 DEF Kept, SameRanks, SameRest
<1>8. /\ Sound(y, {t} \ {t}, {x.uxPriority[t]} \ {v.uxPriority[t]}, 1) /\ Ready(y) = Ready(v) \cup {t} /\ Kept(v, y)
    BY <1>1, <1>6, <1>7, AddReadyKeeps
<1> HIDE DEF y
<1>9. {t} \ {t} = {} /\ {x.uxPriority[t]} \ {v.uxPriority[t]} = {}
    BY <1>7
<1>10. Sound(y, {}, {}, 1)
    BY <1>8, <1>9
<1>11. /\ Ready(y) = Ready(x) \cup {t} /\ SameCurrent(x, y) /\ SameRest(x, y) /\ SameRanks(x, y) /\ SameYield(x, y)
       /\ y.xTasksWaitingTermination = x.xTasksWaitingTermination
    BY <1>4, <1>6, <1>8 DEF Kept, SameCurrent, SameRest, SameRanks, SameYield
<1>12. Base(y) /\ (Fine(y, NULL) \/ Outranks(x, t))
    BY <1>1, <1>10, <1>11, OneMore DEF SameYield, Outranks
<1>13. Quiet(x) /\ Quiet(y) /\ Underway(x, y) /\ Underway(x, x) /\ SameCurrent(x, x)
    BY <1>11 DEF Quiet, SameRest, Underway, SameCurrent
<1>14. CASE r.k = x
    BY <1>1, <1>13, <1>14 DEF Run, r
<1>15. CASE r.k = y /\ ~Outranks(x, t)
    BY <1>11, <1>12, <1>13, <1>15 DEF Run, r
<1>16. CASE r.k = Asking(y, TRUE)
    <2> DEFINE a == Asking(y, TRUE)
    <2>1. /\ Mem(a) /\ Alike(y, a) /\ SameCurrent(y, a) /\ SameRest(y, a) /\ a.xYieldPending = TRUE
        BY <1>12, RunTypes, YieldSetIs
    <2> HIDE DEF a
    <2>2. Sound(a, {}, {}, 1) /\ SameViews(y, a)
        BY <1>10, <2>1, AlikeKeeps
    <2>3. Base(a)
        BY <1>12, <2>1, <2>2, BaseKeeps DEF SameViews, Alike, SameParked, Base
    <2>4. Fine(a, NULL)
        <3>1. x.pxCurrentTCB \notin Deleted(x)
            BY <1>1, FineForAll
        <3> QED BY <1>11, <2>1, <2>2, <3>1 DEF Fine, SameCurrent, SameViews, Deleted
    <2>5. Quiet(a) /\ Underway(x, a) /\ SameCurrent(x, a)
        BY <1>11, <2>1 DEF Quiet, SameRest, Underway, SameCurrent
    <2> QED BY <1>16, <2>3, <2>4, <2>5 DEF Run, r, a
<1> QED BY <1>2, <1>14, <1>15, <1>16

\* The same for whatever task is named: only one that is blocked is touched,
\* and such a task is alive.
LEMMA AbortAnyRuns ==
    ASSUME NEW x, Run(x, NULL), x.uxSchedulerSuspended # 0, NEW t \in Tasks
    PROVE  LET r == xTaskAbortDelay(x, t)
           IN  Run(r.k, NULL) /\ Underway(x, r.k) /\ SameCurrent(x, r.k)
<1> DEFINE r == xTaskAbortDelay(x, t)
<1>1. CASE eTaskGetState(x, t) # "eBlocked"
    <2>1. r.k = x
        BY <1>1 DEF xTaskAbortDelay
    <2>2. Underway(x, x) /\ SameCurrent(x, x)
        BY DEF Run, Quiet, Underway, SameCurrent, SameRest
    <2> QED BY <2>1, <2>2
<1>2. CASE eTaskGetState(x, t) = "eBlocked"
    <2>1. t \in Delayed(x) \cup Overflowed(x) \cup Suspended(x)
        <3>1. Mem(x)
            BY RunTypes DEF Run
        <3> QED BY <1>2, <3>1, LookIs DEF eTaskGetState
    <2>2. Homes(x, {})
        BY DEF Run, Base, Sound
    <2>3. Alive(x, t)
        BY <2>1, <2>2 DEF Homes, Alive
    <2> QED BY <2>3, AbortRuns
<1> QED BY <1>1, <1>2

-----------------------------------------------------------------------------
(* The priority of a task changes. *)

Ranking(x, t, p) == [x EXCEPT !.uxPriority[t] = p]

\* What a change of priority leaves alone.
Rerank(x, y, t, p) ==
    /\ y.uxPriority = [x.uxPriority EXCEPT ![t] = p] /\ Ready(y) = Ready(x)
    /\ SameEvents(x, y) /\ SameCurrent(x, y) /\ SameYield(x, y) /\ SameRest(x, y)
    /\ y.xTasksWaitingTermination = x.xTasksWaitingTermination

LEMMA RankingIs ==
    ASSUME NEW x, Mem(x), NEW t \in Tasks, NEW p \in Priorities
    PROVE  LET y == Ranking(x, t, p)
           IN  /\ Mem(y) /\ y.uxPriority = [x.uxPriority EXCEPT ![t] = p] /\ DOMAIN y = DOMAIN x
               /\ SameReady(x, y) /\ SameTop(x, y) /\ SameSleep(x, y) /\ SameParked(x, y) /\ SameEvents(x, y)
               /\ SameTimes(x, y) /\ SameNext(x, y) /\ SameClock(x, y) /\ SameCurrent(x, y) /\ SameYield(x, y)
               /\ SameRest(x, y)
<1> DEFINE y == Ranking(x, t, p)
<1>1. /\ y.uxPriority = [x.uxPriority EXCEPT ![t] = p] /\ DOMAIN y = DOMAIN x /\ y.uxBasePriority = x.uxBasePriority
      /\ SameReady(x, y) /\ SameTop(x, y) /\ SameSleep(x, y) /\ SameParked(x, y) /\ SameEvents(x, y)
      /\ SameTimes(x, y) /\ SameNext(x, y) /\ SameClock(x, y) /\ SameCurrent(x, y) /\ SameYield(x, y)
      /\ SameRest(x, y)
    BY DEF Mem, KernelFields, Ranking, SameReady, SameTop, SameSleep, SameParked, SameEvents, SameTimes, SameNext,
       SameClock, SameCurrent, SameYield, SameRest
<1> HIDE DEF y
<1>2. y.uxPriority \in [Tasks -> Priorities]
    BY <1>1 DEF Mem
<1>3. Mem(y)
    BY <1>1, <1>2 DEF Mem, SameReady, SameTop, SameSleep, SameParked, SameEvents, SameTimes, SameNext,
       SameClock, SameCurrent, SameYield, SameRest
<1> QED BY <1>1, <1>3 DEF y

\* A ready task moves to the list of its new priority; the bit of the old one
\* goes with the last task of that list.
LEMMA MoveReadyKeeps ==
    ASSUME NEW x, Sound(x, {}, {}, 1), NEW t \in Tasks, t \notin Deleted(x), NEW to \in Priorities
    PROVE  LET y == MoveReady(x, t, x.uxPriority[t], x.uxPriority[t], to)
           IN  Sound(y, {}, {}, 1) /\ Rerank(x, y, t, to)
<1> DEFINE p == x.uxPriority[t]
           z == Ranking(x, t, to)
           w == RemoveState(z, t)
           v == IF w.pxReadyTasksLists[p].items = <<>> THEN [w EXCEPT !.uxTopReadyPriority = @ \ {p}] ELSE w
           u == prvAddTaskToReadyList(v, t)
           y == MoveReady(x, t, p, p, to)
<1>1. Mem(x) /\ Homes(x, {}) /\ Ranked(x) /\ Bits(x, {}) /\ Apart(x) /\ Times(x, 1) /\ p \in Priorities
    BY DEF Sound, Mem
<1>2. y = IF InReady(x, p, t) THEN u ELSE z
    BY DEF MoveReady, Ranking
<1>3. InReady(x, p, t) <=> t \in ReadyAt(x, p)
    BY <1>1, LookIs
<1> HIDE DEF y
<1>4. \A q \in Priorities : t \in ReadyAt(x, q) => q = p
    BY <1>1 DEF Ranked
<1>5. /\ Mem(z) /\ z.uxPriority = [x.uxPriority EXCEPT ![t] = to]
      /\ SameReady(x, z) /\ SameTop(x, z) /\ SameSleep(x, z) /\ SameParked(x, z) /\ SameEvents(x, z)
      /\ SameTimes(x, z) /\ SameNext(x, z) /\ SameClock(x, z) /\ SameCurrent(x, z) /\ SameYield(x, z)
      /\ SameRest(x, z)
    BY <1>1, RankingIs
<1> HIDE DEF z
<1>6. SameViews(x, z)
    BY <1>5, AlikeViews
<1>7. z.uxPriority[t] = to /\ \A s \in Tasks : s # t => z.uxPriority[s] = x.uxPriority[s]
    BY <1>1, <1>5 DEF Mem
<1>8. \A q \in Priorities : ReadyAt(x, q) \subseteq Tasks
    BY <1>1 DEF Mem, ReadyLists, ReadyAt, Elements
<1>9. CASE t \notin ReadyAt(x, p)
    <2>1. y = z
        BY <1>2, <1>3, <1>9
    <2>2. Ranked(z) /\ Bits(z, {})
        BY <1>1, <1>4, <1>5, <1>6, <1>7, <1>8, <1>9 DEF Ranked, Bits, SameViews, SameTop
    <2>3. Homes(z, {}) /\ Apart(z)
        BY <1>1, <1>5, <1>6 DEF Homes, Apart, SameViews, SameRest, SameEvents, WaitingAt
    <2>4. Times(z, 1)
        BY <1>1, <1>5, <1>6 DEF Times, Until, SameViews, SameTimes, SameClock, SameNext, SameSleep
    <2>5. Rerank(x, z, t, to)
        BY <1>5, <1>6 DEF Rerank, SameViews, SameParked
    <2> QED BY <1>5, <2>1, <2>2, <2>3, <2>4, <2>5 DEF Sound, y
<1>10. CASE t \in ReadyAt(x, p)
    <2>1. y = u
        BY <1>2, <1>3, <1>10
    <2>2. /\ Mem(w)
          /\ \A q \in Priorities : ReadyAt(w, q) = ReadyAt(z, q) \ {t}
          /\ Ready(w) = Ready(z) \ {t} /\ Delayed(w) = Delayed(z) \ {t}
          /\ Overflowed(w) = Overflowed(z) \ {t} /\ Suspended(w) = Suspended(z) \ {t}
          /\ Deleted(w) = Deleted(z) \ {t}
          /\ t \notin Deleted(z) => w.xTasksWaitingTermination = z.xTasksWaitingTermination
          /\ \A val \in [Tasks -> Int] :
               /\ SortedBy(z.pxDelayedTaskList, val) => SortedBy(w.pxDelayedTaskList, val)
               /\ SortedBy(z.pxOverflowDelayedTaskList, val) => SortedBy(w.pxOverflowDelayedTaskList, val)
          /\ SameTop(z, w) /\ SameEvents(z, w) /\ SameTimes(z, w) /\ SameNext(z, w) /\ SameClock(z, w)
          /\ SameRanks(z, w) /\ SameCurrent(z, w) /\ SameYield(z, w) /\ SameRest(z, w)
        BY <1>5, RemoveStateIs
    <2> HIDE DEF w
    <2>3. w.pxReadyTasksLists[p].items = <<>> <=> ReadyAt(w, p) = {}
        <3>1. w.pxReadyTasksLists[p].items \in Seq(Tasks)
            BY <1>1, <2>2 DEF Mem, ReadyLists
        <3> QED BY <3>1, NobodyIn DEF ReadyAt
    <2>4. /\ DOMAIN v = DOMAIN w
          /\ v.uxTopReadyPriority = IF ReadyAt(w, p) = {} THEN w.uxTopReadyPriority \ {p} ELSE w.uxTopReadyPriority
          /\ SameReady(w, v) /\ SameSleep(w, v) /\ SameParked(w, v) /\ SameEvents(w, v) /\ SameTimes(w, v)
          /\ SameNext(w, v) /\ SameClock(w, v) /\ SameRanks(w, v) /\ SameCurrent(w, v) /\ SameYield(w, v) /\ SameRest(w, v)
        BY <2>2, <2>3 DEF Mem, KernelFields, SameReady, SameSleep, SameParked, SameEvents, SameTimes, SameNext,
           SameClock, SameRanks, SameCurrent, SameYield, SameRest
    <2> HIDE DEF v
    <2>5. v.uxTopReadyPriority \subseteq Priorities
        BY <2>2, <2>4 DEF Mem
    <2>6. Mem(v)
        BY <2>2, <2>4, <2>5 DEF Mem, SameReady, SameSleep, SameParked, SameEvents, SameTimes, SameNext,
           SameClock, SameRanks, SameCurrent, SameYield, SameRest
    <2>7. \A q \in Priorities : ReadyAt(v, q) = ReadyAt(x, q) \ {t}
        BY <1>6, <2>2, <2>4 DEF SameReady, ReadyAt, SameViews
    <2>8. Ready(v) = Ready(x) \ {t} /\ t \notin Ready(v) /\ v.uxPriority = z.uxPriority /\ t \in Ready(x)
        BY <1>1, <1>6, <1>10, <2>2, <2>4 DEF SameReady, Ready, ReadyAt, SameViews, SameRanks
    <2>9. /\ Mem(u)
          /\ \A q \in Priorities :
               ReadyAt(u, q) = IF q = v.uxPriority[t] THEN ReadyAt(v, q) \cup {t} ELSE ReadyAt(v, q)
          /\ Ready(u) = Ready(v) \cup {t}
          /\ u.uxTopReadyPriority = v.uxTopReadyPriority \cup {v.uxPriority[t]}
          /\ SameSleep(v, u) /\ SameParked(v, u) /\ SameEvents(v, u)
          /\ SameTimes(v, u) /\ SameNext(v, u) /\ SameClock(v, u)
          /\ SameRanks(v, u) /\ SameCurrent(v, u) /\ SameYield(v, u) /\ SameRest(v, u)
        BY <2>6, <2>8, AddReadyIs
    <2> HIDE DEF u
    <2>10. /\ \A q \in Priorities : ReadyAt(u, q) = IF q = to THEN (ReadyAt(x, q) \ {t}) \cup {t} ELSE ReadyAt(x, q) \ {t}
           /\ Ready(u) = Ready(x) /\ u.uxPriority = z.uxPriority
        BY <1>7, <2>7, <2>8, <2>9 DEF SameRanks
    <2>11. Ranked(u)
        BY <1>1, <1>7, <1>8, <2>10 DEF Ranked
    <2>12. Bits(u, {})
        <3>1. /\ u.uxTopReadyPriority = v.uxTopReadyPriority \cup {to} /\ w.uxTopReadyPriority = x.uxTopReadyPriority
              /\ ReadyAt(w, p) = ReadyAt(x, p) \ {t}
            BY <1>1, <1>5, <1>6, <1>7, <2>2, <2>8, <2>9 DEF SameTop, SameViews
        <3>2. ASSUME NEW q \in Priorities
              PROVE  q \in u.uxTopReadyPriority <=> ReadyAt(u, q) # {}
            <4>1. CASE q = to
                BY <2>10, <3>1, <4>1
            <4>2. CASE q # to /\ q = p
                <5>1. p \in x.uxTopReadyPriority
                    BY <1>1, <1>10 DEF Bits
                <5> QED BY <2>4, <2>10, <3>1, <4>2, <5>1
            <4>3. CASE q # to /\ q # p
                <5>1. t \notin ReadyAt(x, q) /\ (q \in x.uxTopReadyPriority <=> ReadyAt(x, q) # {})
                    BY <1>1, <1>4, <4>3 DEF Bits
                <5>2. q \in u.uxTopReadyPriority <=> q \in x.uxTopReadyPriority
                    BY <2>4, <3>1, <4>3
                <5> QED BY <2>10, <4>3, <5>1, <5>2
            <4> QED BY <4>1, <4>2, <4>3
        <3> QED BY <3>2 DEF Bits
    <2>13. /\ Delayed(u) = Delayed(x) /\ Overflowed(u) = Overflowed(x) /\ Suspended(u) = Suspended(x)
           /\ Deleted(u) = Deleted(x) /\ Pended(u) = Pended(x) /\ Waiting(u) = Waiting(x)
           /\ u.xTasksWaitingTermination = x.xTasksWaitingTermination
        <3>1. /\ Delayed(u) = Delayed(w) /\ Overflowed(u) = Overflowed(w) /\ Suspended(u) = Suspended(w)
              /\ Deleted(u) = Deleted(w) /\ u.xTasksWaitingTermination = w.xTasksWaitingTermination
            BY <2>4, <2>9 DEF SameSleep, SameParked, Delayed, Overflowed, Suspended, Deleted
        <3>2. /\ Delayed(w) = Delayed(x) \ {t} /\ Overflowed(w) = Overflowed(x) \ {t} /\ Suspended(w) = Suspended(x) \ {t}
              /\ Deleted(w) = Deleted(x) \ {t} /\ w.xTasksWaitingTermination = x.xTasksWaitingTermination
            BY <1>5, <1>6, <2>2 DEF SameViews, SameParked
        <3>3. t \notin Delayed(x) /\ t \notin Overflowed(x) /\ t \notin Suspended(x)
            BY <1>1, <2>8 DEF Homes
        <3>4. Pended(u) = Pended(x) /\ Waiting(u) = Waiting(x)
            BY <1>5, <2>2, <2>4, <2>9 DEF SameEvents, Pended, Waiting, WaitingAt
        <3> QED BY <3>1, <3>2, <3>3, <3>4
    <2>14. SameEvents(x, u) /\ SameTimes(x, u) /\ SameNext(x, u) /\ SameClock(x, u) /\ SameCurrent(x, u)
           /\ SameYield(x, u) /\ SameRest(x, u)
        BY <1>5, <2>2, <2>4, <2>9 DEF SameEvents, SameTimes, SameNext, SameClock, SameCurrent, SameYield, SameRest
    <2>15. Homes(u, {})
        BY <1>1, <2>10, <2>13, <2>14 DEF Homes, SameRest
    <2>16. Apart(u)
        BY <1>1, <2>13, <2>14 DEF Apart, SameRest, SameEvents, WaitingAt
    <2>17. Times(u, 1)
        <3>1. x.xItemValue \in [Tasks -> Int]
            BY <1>1, Numbers DEF Mem, Ticks
        <3>2. SortedBy(u.pxDelayedTaskList, x.xItemValue) /\ SortedBy(u.pxOverflowDelayedTaskList, x.xItemValue)
            BY <1>1, <1>5, <2>2, <2>4, <2>9, <3>1 DEF Times, SameSleep
        <3> QED BY <1>1, <2>13, <2>14, <3>2 DEF Times, Until, SameTimes, SameClock, SameNext
    <2>18. Rerank(x, u, t, to)
        BY <1>5, <2>10, <2>13, <2>14 DEF Rerank
    <2> QED BY <2>1, <2>9, <2>11, <2>12, <2>15, <2>16, <2>17, <2>18 DEF Sound, y
<1> QED BY <1>9, <1>10

\* The right task runs after its own priority, or that of another, was set.
LEMMA PrioritySetRuns ==
    ASSUME NEW x, Run(x, NULL), NEW t, Alive(x, t), NEW new \in Priorities
    PROVE  LET y == vTaskPrioritySet(x, t, new) IN Run(y, NULL) /\ Underway(x, y)
<1> DEFINE base == x.uxBasePriority[t]
           used == x.uxPriority[t]
           cur  == x.pxCurrentTCB
           b    == IF new > base THEN t # cur /\ new >= x.uxPriority[cur] ELSE t = cur
           to   == IF base = used THEN new ELSE used
           z    == SetEventValue([x EXCEPT !.uxBasePriority[t] = new], t, new)
           w    == MoveReady(z, t, used, used, to)
           y    == vTaskPrioritySet(x, t, new)
<1>1. /\ Base(x) /\ Sound(x, {}, {}, 1) /\ Mem(x) /\ Quiet(x) /\ cur \notin Deleted(x) /\ (x.xYieldPending \/ Highest(x))
      /\ t \in Tasks /\ t \notin Deleted(x) /\ cur \in Tasks /\ Ready(x) \subseteq Tasks
    BY FineForAll, RunTypes DEF Run, Base, Alive, Mem
<1>2. base \in Priorities /\ used \in Priorities /\ to \in Priorities /\ b \in BOOLEAN
    BY <1>1 DEF Mem
<1>3. y = IF base = new THEN x ELSE YieldIf(w, b)
    BY DEF vTaskPrioritySet
<1> HIDE DEF y
<1>4. /\ DOMAIN z = DOMAIN x /\ z.uxPriority = x.uxPriority /\ z.uxBasePriority = [x.uxBasePriority EXCEPT ![t] = new]
      /\ SameReady(x, z) /\ SameTop(x, z) /\ SameSleep(x, z) /\ SameParked(x, z) /\ SameEvents(x, z)
      /\ SameTimes(x, z) /\ SameNext(x, z) /\ SameClock(x, z) /\ SameCurrent(x, z) /\ SameYield(x, z)
      /\ SameRest(x, z)
    BY <1>1 DEF Mem, KernelFields, SetEventValue, SameReady, SameTop, SameSleep, SameParked, SameEvents, SameTimes, SameNext,
       SameClock, SameCurrent, SameYield, SameRest
<1> HIDE DEF z
<1>5. z.uxBasePriority \in [Tasks -> Priorities]
    BY <1>1, <1>4 DEF Mem
<1>6. Mem(z)
    BY <1>1, <1>4, <1>5 DEF Mem, SameReady, SameTop, SameSleep, SameParked, SameEvents, SameTimes, SameNext,
       SameClock, SameCurrent, SameYield, SameRest
<1>7. SameViews(x, z)
    BY <1>4, AlikeViews
<1>8. Sound(z, {}, {}, 1)
    <2>1. Homes(x, {}) /\ Ranked(x) /\ Bits(x, {}) /\ Apart(x) /\ Times(x, 1)
        BY <1>1 DEF Sound
    <2>2. Homes(z, {}) /\ Ranked(z) /\ Bits(z, {})
        BY <1>4, <1>7, <2>1 DEF SameViews, Homes, Ranked, Bits, SameTop, SameRest
    <2>3. Apart(z)
        BY <1>4, <1>7, <2>1 DEF SameViews, Apart, SameEvents, WaitingAt, SameRest
    <2>4. Times(z, 1)
        BY <1>4, <1>7, <2>1 DEF SameViews, Times, Until, SameTimes, SameClock, SameNext, SameSleep
    <2> QED BY <1>6, <2>2, <2>3, <2>4 DEF Sound
<1>9. t \notin Deleted(z) /\ used = z.uxPriority[t]
    BY <1>1, <1>4, <1>7 DEF SameViews
<1> HIDE DEF to, used
<1>10. Sound(w, {}, {}, 1) /\ Rerank(z, w, t, to)
    BY <1>1, <1>2, <1>8, <1>9, MoveReadyKeeps
<1> HIDE DEF w
<1>11. /\ w.uxPriority = [x.uxPriority EXCEPT ![t] = to] /\ Ready(w) = Ready(x)
       /\ SameEvents(x, w) /\ SameCurrent(x, w) /\ SameYield(x, w) /\ SameRest(x, w)
       /\ w.xTasksWaitingTermination = x.xTasksWaitingTermination
    BY <1>4, <1>7, <1>10 DEF Rerank, SameViews, SameEvents, SameCurrent, SameYield, SameRest, SameParked
<1>12. Base(w)
    BY <1>1, <1>10, <1>11, BaseKeeps DEF Base
<1>13. Quiet(w) /\ Underway(x, w)
    BY <1>1, <1>11 DEF Quiet, SameRest, SameEvents, Pended, Underway
<1>14. base # new => b \/ Fine(w, NULL)
    <2> SUFFICES ASSUME base # new, ~b PROVE Fine(w, NULL)
        BY <1>2
    <2>1. CASE x.xYieldPending
        BY <1>1, <1>11, <2>1 DEF Fine, SameCurrent, SameYield, Deleted
    <2>2. CASE Highest(x)
        <3>1. /\ w.uxPriority[t] = to /\ \A s \in Tasks : s # t => w.uxPriority[s] = x.uxPriority[s]
              /\ used = x.uxPriority[t]
            BY <1>1, <1>11 DEF Mem, used
        <3>2. \A s \in Tasks : x.uxPriority[s] \in Int /\ w.uxPriority[s] \in Int
            BY <1>1, <1>12, RunTypes
        <3>3. cur \in Ready(x) /\ \A u \in Ready(x) : x.uxPriority[u] <= x.uxPriority[cur]
            BY <2>2 DEF Highest
        <3>4. base \in Int /\ new \in Int /\ used \in Int /\ to \in Int
            <4>1. base \in Priorities /\ used \in Priorities /\ to \in Priorities
                BY <1>2
            <4> HIDE DEF base, used, to
            <4> QED BY <4>1, Numbers
        <3>5. to = used \/ (base = used /\ to = new)
            BY DEF to
        <3> HIDE DEF base
        <3>6. CASE t = cur
            <4>1. to >= used
                BY <2>1, <3>4, <3>5, <3>6
            <4>2. ASSUME NEW u \in Ready(w) PROVE w.uxPriority[u] <= w.uxPriority[cur]
                <5>1. CASE u = t
                    BY <1>1, <3>2, <3>6, <5>1
                <5>2. CASE u # t
                    <6>1. w.uxPriority[u] <= x.uxPriority[cur] /\ u \in Tasks
                        BY <1>1, <1>11, <3>1, <3>3, <5>2
                    <6> QED BY <1>1, <3>1, <3>2, <3>4, <3>6, <4>1, <6>1
                <5> QED BY <5>1, <5>2
            <4> QED BY <1>1, <1>11, <3>3, <4>2 DEF Fine, Highest, SameCurrent, Deleted
        <3>7. CASE t # cur
            <4>1. w.uxPriority[cur] = x.uxPriority[cur]
                BY <1>1, <3>1, <3>7
            <4>2. ASSUME NEW u \in Ready(w) PROVE w.uxPriority[u] <= x.uxPriority[cur]
                <5>1. u \in Ready(x) /\ u \in Tasks
                    BY <1>1, <1>11
                <5>2. CASE u = t
                    <6>1. used <= x.uxPriority[cur] /\ x.uxPriority[cur] \in Int
                        BY <1>1, <3>1, <3>2, <3>3, <5>1, <5>2
                    <6>2. new > base => ~(new >= x.uxPriority[cur])
                        BY <3>7
                    <6>3. to <= x.uxPriority[cur]
                        BY <3>4, <3>5, <6>1, <6>2
                    <6> QED BY <3>1, <5>2, <6>3
                <5>3. CASE u # t
                    BY <3>1, <3>3, <5>1, <5>3
                <5> QED BY <5>2, <5>3
            <4> QED BY <1>1, <1>11, <3>3, <4>1, <4>2 DEF Fine, Highest, SameCurrent, Deleted
        <3> QED BY <3>6, <3>7
    <2> QED BY <1>1, <2>1, <2>2
<1> HIDE DEF b, base
<1>15. CASE base # new
    <2>1. Run(YieldIf(w, b), NULL) /\ Underway(w, YieldIf(w, b))
        BY <1>2, <1>12, <1>13, <1>14, <1>15, YieldIfRuns
    <2>2. Underway(x, YieldIf(w, b))
        BY <1>13, <2>1 DEF Underway
    <2> QED BY <1>3, <1>15, <2>1, <2>2 DEF y
<1>16. CASE base = new
    BY <1>3, <1>16 DEF Underway, y
<1> QED BY <1>15, <1>16

-----------------------------------------------------------------------------
(* A task is created. *)

\* What a new task leaves alone.
Joining(x, z, t, p) ==
    /\ SameReady(x, z) /\ SameTop(x, z) /\ SameSleep(x, z) /\ SameParked(x, z) /\ SameEvents(x, z)
    /\ SameNext(x, z) /\ SameClock(x, z) /\ SameCurrent(x, z) /\ SameYield(x, z)
    /\ z.xSchedulerRunning = x.xSchedulerRunning /\ z.uxSchedulerSuspended = x.uxSchedulerSuspended
    /\ z.xPendedTicks = x.xPendedTicks /\ z.uxDeletedTasksWaitingCleanUp = x.uxDeletedTasksWaitingCleanUp
    /\ z.uxCurrentNumberOfTasks = x.uxCurrentNumberOfTasks
    /\ z.allocated = x.allocated \cup {t} /\ z.uxPriority = [x.uxPriority EXCEPT ![t] = p]

Newcomer(x, t, p) == prvInitialiseNewTask([x EXCEPT !.allocated = @ \cup {t}], t, p)

\* The fields of a task that is in no list are set.
LEMMA NewcomerKeeps ==
    ASSUME NEW x, Sound(x, {}, {}, 1), NEW t \in Tasks, t \notin x.allocated, NEW p \in Priorities
    PROVE  LET z == Newcomer(x, t, p)
           IN  Sound(z, {t}, {}, 1) /\ SameViews(x, z) /\ Joining(x, z, t, p) /\ DOMAIN z = DOMAIN x
<1> DEFINE z == Newcomer(x, t, p)
<1>1. Mem(x) /\ Homes(x, {}) /\ Ranked(x) /\ Bits(x, {}) /\ Apart(x) /\ Times(x, 1)
    BY DEF Sound
<1>2. /\ DOMAIN z = DOMAIN x /\ Joining(x, z, t, p) /\ z.uxBasePriority = [x.uxBasePriority EXCEPT ![t] = p]
      /\ z.xItemValue = [x.xItemValue EXCEPT ![t] = 0] /\ z.due = x.due
    <2>1. KernelFields \subseteq DOMAIN x
        BY <1>1 DEF Mem
    <2>2. DOMAIN z = DOMAIN x
        BY DEF Newcomer, prvInitialiseNewTask
    <2>3. /\ z.allocated = x.allocated \cup {t} /\ z.uxPriority = [x.uxPriority EXCEPT ![t] = p]
          /\ z.uxBasePriority = [x.uxBasePriority EXCEPT ![t] = p]
          /\ z.xItemValue = [x.xItemValue EXCEPT ![t] = 0]
        BY <2>1 DEF KernelFields, Newcomer, prvInitialiseNewTask
    <2>4. SameReady(x, z) /\ SameTop(x, z) /\ SameSleep(x, z)
        BY <2>1 DEF KernelFields, Newcomer, prvInitialiseNewTask, SameReady, SameTop, SameSleep
    <2>7. SameParked(x, z) /\ SameEvents(x, z)
        BY <2>1 DEF KernelFields, Newcomer, prvInitialiseNewTask, SameParked, SameEvents
    <2>5. /\ SameNext(x, z) /\ SameClock(x, z) /\ SameCurrent(x, z) /\ SameYield(x, z)
        BY <2>1 DEF KernelFields, Newcomer, prvInitialiseNewTask, SameNext, SameClock, SameCurrent, SameYield
    <2>6. /\ z.xSchedulerRunning = x.xSchedulerRunning /\ z.uxSchedulerSuspended = x.uxSchedulerSuspended
          /\ z.xPendedTicks = x.xPendedTicks /\ z.uxDeletedTasksWaitingCleanUp = x.uxDeletedTasksWaitingCleanUp
          /\ z.uxCurrentNumberOfTasks = x.uxCurrentNumberOfTasks /\ z.due = x.due
        BY <2>1 DEF KernelFields, Newcomer, prvInitialiseNewTask
    <2> QED BY <2>2, <2>3, <2>4, <2>5, <2>6, <2>7 DEF Joining
<1> HIDE DEF z
<1>3. /\ z.uxPriority \in [Tasks -> Priorities] /\ z.uxBasePriority \in [Tasks -> Priorities]
      /\ z.xItemValue \in [Tasks -> Ticks] /\ z.allocated \subseteq Tasks
    BY <1>1, <1>2, Numbers DEF Mem, Joining
<1>4. Mem(z)
    BY <1>1, <1>2, <1>3 DEF Mem, Joining, SameReady, SameTop, SameSleep, SameParked, SameEvents,
       SameNext, SameClock, SameCurrent, SameYield
<1>5. SameViews(x, z)
    BY <1>2, AlikeViews DEF Joining
<1>6. \A s \in Tasks : s # t => z.uxPriority[s] = x.uxPriority[s] /\ z.xItemValue[s] = x.xItemValue[s]
    BY <1>1, <1>2 DEF Mem, Joining
<1>7. /\ t \notin Ready(x) /\ t \notin Delayed(x) /\ t \notin Overflowed(x) /\ t \notin Suspended(x)
      /\ t \notin Deleted(x)
    BY <1>1 DEF Homes
<1>8. Homes(z, {t})
    <2>1. (x.allocated \cup {t}) \ {t} = x.allocated \ {}
        OBVIOUS
    <2>2. z.allocated \ {t} = x.allocated \ {}
        BY <1>2, <2>1 DEF Joining
    <2> QED BY <1>1, <1>5, <2>2 DEF Homes, SameViews
<1>9. Ranked(z)
    <2>1. ASSUME NEW q \in Priorities, NEW s \in ReadyAt(z, q) PROVE z.uxPriority[s] = q
        <3>1. s \in ReadyAt(x, q) /\ x.uxPriority[s] = q
            BY <1>1, <1>5 DEF SameViews, Ranked
        <3>2. s \in Tasks
            BY <1>1, <3>1 DEF ReadyAt, Mem, ReadyLists, GoodReady, Elements
        <3>3. s # t
            BY <1>7, <3>1, <3>2 DEF Ready
        <3> QED BY <1>6, <3>1, <3>2, <3>3
    <2> QED BY <2>1 DEF Ranked
<1>10. Bits(z, {}) /\ Apart(z)
    <2>1. Bits(z, {})
        BY <1>1, <1>2, <1>5 DEF Bits, SameViews, Joining, SameTop
    <2>2. \A e \in EventLists : WaitingAt(z, e) = WaitingAt(x, e)
        BY <1>2 DEF Joining, SameEvents, WaitingAt
    <2>3. z.allocated = x.allocated \cup {t}
        BY <1>2 DEF Joining
    <2> QED BY <1>1, <1>5, <2>1, <2>2, <2>3 DEF Apart, SameViews
<1>11. Times(z, 1)
    <2>1. Delayed(x) \subseteq Tasks \ {t} /\ Overflowed(x) \subseteq Tasks \ {t}
        BY <1>1, <1>7 DEF Homes, Mem
    <2>2. \A s \in Tasks : Until(z, s) = Until(x, s)
        BY <1>2 DEF Until, Joining, SameClock
    <2>3. Delayed(z) = Delayed(x) /\ Overflowed(z) = Overflowed(x) /\ z.xTickCount = x.xTickCount
          /\ z.xNextTaskUnblockTime = x.xNextTaskUnblockTime
          /\ z.pxDelayedTaskList = x.pxDelayedTaskList /\ z.pxOverflowDelayedTaskList = x.pxOverflowDelayedTaskList
        BY <1>2, <1>5 DEF SameViews, Joining, SameClock, SameNext, SameSleep
    <2>4. \A s \in Delayed(x) \cup Overflowed(x) : z.xItemValue[s] = x.xItemValue[s]
        BY <1>6, <2>1
    <2>5. SortedBy(z.pxDelayedTaskList, z.xItemValue)
        BY <1>1, <2>3, <2>4 DEF Times, SortedBy, Delayed, Elements
    <2>6. SortedBy(z.pxOverflowDelayedTaskList, z.xItemValue)
        BY <1>1, <2>3, <2>4 DEF Times, SortedBy, Overflowed, Elements
    <2> QED BY <1>1, <2>1, <2>2, <2>3, <2>4, <2>5, <2>6 DEF Times
<1> QED BY <1>2, <1>4, <1>5, <1>8, <1>9, <1>10, <1>11 DEF Sound, z

\* While the scheduler runs.
LEMMA CreateRuns ==
    ASSUME NEW x, Run(x, NULL), x.xSchedulerRunning, NEW t \in Tasks, t \notin x.allocated, NEW p \in Priorities
    PROVE  LET y == xTaskCreate(x, t, p)
           IN  /\ Run(y, NULL) /\ y.allocated = x.allocated \cup {t} /\ y.xSchedulerRunning
               /\ y.uxSchedulerSuspended = x.uxSchedulerSuspended
<1> DEFINE z == Newcomer(x, t, p)
           w == [z EXCEPT !.uxCurrentNumberOfTasks = @ + 1]
           v == prvAddTaskToReadyList(w, t)
           b == Outranks(v, t)
           y == xTaskCreate(x, t, p)
<1>1. /\ Base(x) /\ Sound(x, {}, {}, 1) /\ Mem(x) /\ Quiet(x) /\ Fine(x, NULL)
      /\ x.pxCurrentTCB \in Tasks /\ x.pxCurrentTCB # NULL /\ x.pxCurrentTCB \in x.allocated
      /\ Ready(x) \subseteq Tasks
    BY RunTypes, Numbers DEF Run, Base
<1>2. Sound(z, {t}, {}, 1) /\ SameViews(x, z) /\ Joining(x, z, t, p) /\ DOMAIN z = DOMAIN x
    BY <1>1, NewcomerKeeps
<1>3. y = prvAddNewTaskToReadyList(z, t)
    BY DEF xTaskCreate, Newcomer
<1> HIDE DEF z, y
<1>4. z.pxCurrentTCB # NULL /\ z.xSchedulerRunning
    BY <1>1, <1>2 DEF Joining, SameCurrent
<1>5. y = YieldIf(v, b)
    BY <1>3, <1>4 DEF prvAddNewTaskToReadyList, YieldIf
<1>6. Mem(z)
    BY <1>2 DEF Sound
<1>7. DOMAIN w = DOMAIN z /\ Alike(z, w) /\ SameCurrent(z, w) /\ SameYield(z, w) /\ SameAsserts(z, w) /\ SameRest(z, w)
    BY <1>6 DEF Mem, KernelFields, Alike, SameReady, SameTop, SameSleep, SameParked, SameEvents,
       SameTimes, SameNext, SameClock, SameRanks, SameCurrent, SameYield, SameAsserts, SameRest
<1> HIDE DEF w
<1>8. Mem(w)
    BY <1>6, <1>7 DEF Mem, Alike, SameReady, SameTop, SameSleep, SameParked, SameEvents, SameTimes, SameNext,
       SameClock, SameRanks, SameCurrent, SameYield, SameRest
<1>9. Sound(w, {t}, {}, 1) /\ SameViews(z, w)
    BY <1>2, <1>7, <1>8, AlikeKeeps, AlikeViews DEF Alike
<1>10. t \in w.allocated /\ w.allocated = x.allocated \cup {t}
    BY <1>2, <1>7 DEF Joining, Alike
<1>11. {t} \ {t} = {} /\ {} \ {w.uxPriority[t]} = {}
    OBVIOUS
<1>12. /\ Sound(v, {}, {}, 1) /\ Ready(v) = Ready(w) \cup {t}
       /\ SameSleep(w, v) /\ SameParked(w, v) /\ SameEvents(w, v) /\ SameNext(w, v) /\ Kept(w, v)
    <2>1. Sound(v, {t} \ {t}, {} \ {w.uxPriority[t]}, 1) /\ Ready(v) = Ready(w) \cup {t}
          /\ SameSleep(w, v) /\ SameParked(w, v) /\ SameEvents(w, v) /\ SameNext(w, v) /\ Kept(w, v)
        BY <1>9, <1>10, AddReadyKeeps
    <2> QED BY <1>11, <2>1
<1> HIDE DEF v
<1>13. /\ v.pxCurrentTCB = x.pxCurrentTCB /\ v.xYieldPending = x.xYieldPending
       /\ v.xTasksWaitingTermination = x.xTasksWaitingTermination /\ v.allocated = x.allocated \cup {t}
       /\ v.xSchedulerRunning /\ v.uxSchedulerSuspended = x.uxSchedulerSuspended
       /\ v.xPendedTicks = x.xPendedTicks /\ v.xPendingReadyList = x.xPendingReadyList
       /\ v.uxDeletedTasksWaitingCleanUp = x.uxDeletedTasksWaitingCleanUp
       /\ v.uxPriority = [x.uxPriority EXCEPT ![t] = p] /\ Ready(v) = Ready(x) \cup {t}
    BY <1>2, <1>4, <1>7, <1>9, <1>10, <1>12 DEF Kept, Joining, Alike, SameViews, SameCurrent, SameYield, SameRest, SameRanks,
       SameEvents, SameParked
<1>14. Base(v)
    BY <1>1, <1>12, <1>13 DEF Base, Deleted
<1>15. Quiet(v)
    BY <1>1, <1>13 DEF Quiet, Pended
<1>16. b \/ Fine(v, NULL)
    <2>1. x.pxCurrentTCB # t
        BY <1>1
    <2>2. \A s \in Tasks : s # t => v.uxPriority[s] = x.uxPriority[s]
        BY <1>1, <1>13 DEF Mem
    <2>3. v.uxPriority[t] = p /\ p \in Int /\ x.uxPriority[x.pxCurrentTCB] \in Int
        BY <1>1, <1>13, RunTypes DEF Mem
    <2>4. x.pxCurrentTCB \notin Deleted(v) /\ (x.xYieldPending \/ Highest(x))
        BY <1>1, <1>13, FineForAll DEF Deleted
    <2>5. CASE x.xYieldPending
        BY <1>13, <2>4, <2>5 DEF Fine
    <2>6. CASE Highest(x)
        <3>1. ~b => p <= x.uxPriority[x.pxCurrentTCB]
            BY <1>1, <1>13, <2>1, <2>2, <2>3 DEF Outranks
        <3>2. ~b => Highest(v)
            BY <1>1, <1>13, <2>1, <2>2, <2>3, <2>6, <3>1 DEF Highest
        <3> QED BY <1>13, <2>4, <3>2 DEF Fine
    <2> QED BY <2>4, <2>5, <2>6
<1>17. b \in BOOLEAN
    BY DEF Outranks
<1> HIDE DEF b
<1>18. Run(y, NULL) /\ Underway(v, y)
    BY <1>5, <1>14, <1>15, <1>16, <1>17, YieldIfRuns
<1> QED BY <1>13, <1>18 DEF Underway, y

-----------------------------------------------------------------------------
(* Before the scheduler is started, by the calls of main(). *)

\* Every task is ready, and the most urgent of them will run first.
Boot(x) ==
    /\ Sound(x, {}, {}, 1)
    /\ x.allocated = Ready(x)
    /\ IF x.pxCurrentTCB = NULL THEN x.allocated = {} ELSE Highest(x)
    /\ Pended(x) = {} /\ x.xPendedTicks = 0 /\ x.uxSchedulerSuspended = 0
    /\ x.uxDeletedTasksWaitingCleanUp = Len(x.xTasksWaitingTermination)
    /\ ~x.xSchedulerRunning

\* What the memory becomes between the fields of the new task and its list.
Admitted(z, t) ==
    LET k1 == [z EXCEPT !.uxCurrentNumberOfTasks = @ + 1]
    IN  IF z.pxCurrentTCB = NULL
        THEN [IF k1.uxCurrentNumberOfTasks = 1 THEN prvInitialiseTaskLists(k1) ELSE k1
                 EXCEPT !.pxCurrentTCB = t]
        ELSE IF z.uxPriority[z.pxCurrentTCB] <= z.uxPriority[t]
        THEN [k1 EXCEPT !.pxCurrentTCB = t]
        ELSE k1

\* The lists are emptied, if at all, when they are empty.
LEMMA AdmittedIs ==
    ASSUME NEW z, Mem(z), NEW t \in Tasks,
           z.pxCurrentTCB = NULL =>
               /\ \A p \in Priorities : ReadyAt(z, p) = {}
               /\ Delayed(z) = {} /\ Overflowed(z) = {} /\ Pended(z) = {} /\ Suspended(z) = {} /\ Deleted(z) = {}
    PROVE  LET w == Admitted(z, t)
           IN  /\ Mem(w) /\ (\A p \in Priorities : ReadyAt(w, p) = ReadyAt(z, p))
               /\ SameTop(z, w) /\ SameSleep(z, w) /\ SameParked(z, w) /\ SameEvents(z, w) /\ SameTimes(z, w)
               /\ SameNext(z, w) /\ SameClock(z, w) /\ SameRanks(z, w) /\ SameYield(z, w) /\ SameRest(z, w)
               /\ w.pxCurrentTCB = IF z.pxCurrentTCB = NULL \/ z.uxPriority[z.pxCurrentTCB] <= z.uxPriority[t]
                                   THEN t ELSE z.pxCurrentTCB
<1> DEFINE k1 == [z EXCEPT !.uxCurrentNumberOfTasks = @ + 1]
           e  == [p \in Priorities |-> vListInitialise]
           i  == IF k1.uxCurrentNumberOfTasks = 1 THEN prvInitialiseTaskLists(k1) ELSE k1
           j  == IF z.pxCurrentTCB = NULL THEN i ELSE k1
           c  == IF z.pxCurrentTCB = NULL \/ z.uxPriority[z.pxCurrentTCB] <= z.uxPriority[t]
                 THEN t ELSE z.pxCurrentTCB
           w  == Admitted(z, t)
<1>1. /\ DOMAIN k1 = DOMAIN z /\ SameReady(z, k1) /\ SameTop(z, k1) /\ SameSleep(z, k1) /\ SameParked(z, k1)
      /\ SameEvents(z, k1) /\ SameTimes(z, k1) /\ SameNext(z, k1) /\ SameClock(z, k1) /\ SameRanks(z, k1)
      /\ SameYield(z, k1) /\ SameRest(z, k1) /\ SameCurrent(z, k1)
    BY DEF Mem, KernelFields, SameReady, SameTop, SameSleep, SameParked, SameEvents, SameTimes, SameNext, SameClock,
       SameRanks, SameYield, SameRest, SameCurrent
<1>2. c \in Tasks /\ KernelFields \subseteq DOMAIN z
    BY DEF Mem
<1>3. /\ DOMAIN w = DOMAIN j /\ w.pxCurrentTCB = c /\ SameReady(j, w) /\ SameTop(j, w) /\ SameSleep(j, w)
      /\ SameParked(j, w) /\ SameEvents(j, w) /\ SameTimes(j, w) /\ SameNext(j, w) /\ SameClock(j, w)
      /\ SameRanks(j, w) /\ SameYield(j, w) /\ SameRest(j, w)
    <2>1. KernelFields \subseteq DOMAIN j
        BY <1>1, <1>2 DEF prvInitialiseTaskLists
    <2>2. w = [j EXCEPT !.pxCurrentTCB = c] \/ (w = j /\ c = z.pxCurrentTCB /\ z.pxCurrentTCB # NULL)
        BY DEF Admitted
    <2>3. w = j => w.pxCurrentTCB = z.pxCurrentTCB \/ z.pxCurrentTCB = NULL
        BY <1>1 DEF SameCurrent
    <2> HIDE DEF j, c, w
    <2> QED BY <2>1, <2>2, <2>3 DEF KernelFields, SameReady, SameTop, SameSleep, SameParked, SameEvents, SameTimes, SameNext,
           SameClock, SameRanks, SameYield, SameRest
<1>4. /\ DOMAIN j = DOMAIN z /\ SameTop(z, j) /\ SameTimes(z, j) /\ SameNext(z, j) /\ SameClock(z, j)
      /\ SameRanks(z, j) /\ SameYield(z, j) /\ SameRest(z, j) /\ j.xEventLists = z.xEventLists
    <2>1. KernelFields \subseteq DOMAIN k1
        BY <1>1, <1>2
    <2> DEFINE n == prvInitialiseTaskLists(k1)
    <2>2. j = k1 \/ j = n
        OBVIOUS
    <2> HIDE DEF k1, j
    <2>3. /\ DOMAIN n = DOMAIN k1 /\ SameTop(k1, n) /\ SameTimes(k1, n) /\ SameNext(k1, n) /\ SameClock(k1, n)
          /\ SameRanks(k1, n) /\ SameYield(k1, n) /\ SameRest(k1, n) /\ n.xEventLists = k1.xEventLists
        BY <2>1 DEF KernelFields, prvInitialiseTaskLists, SameTop, SameTimes, SameNext, SameClock, SameRanks,
           SameYield, SameRest
    <2> HIDE DEF n
    <2> QED BY <1>1, <2>2, <2>3 DEF SameTop, SameTimes, SameNext, SameClock, SameRanks, SameYield, SameRest, SameEvents
<1>5. /\ j.pxReadyTasksLists = z.pxReadyTasksLists \/ (z.pxCurrentTCB = NULL /\ j.pxReadyTasksLists = e)
      /\ SameSleep(z, j) /\ SameParked(z, j) /\ SameEvents(z, j)
    <2>1. KernelFields \subseteq DOMAIN k1
        BY <1>1, <1>2
    <2> DEFINE n == prvInitialiseTaskLists(k1)
    <2>2. j = k1 \/ (j = n /\ z.pxCurrentTCB = NULL)
        OBVIOUS
    <2> HIDE DEF k1, j
    <2>3. CASE j = k1
        BY <1>1, <2>3 DEF SameReady, SameSleep, SameParked, SameEvents
    <2>4. CASE j = n /\ z.pxCurrentTCB = NULL
        <3>1. /\ n.pxReadyTasksLists = e /\ n.pxDelayedTaskList = <<>> /\ n.pxOverflowDelayedTaskList = <<>>
              /\ n.xPendingReadyList = <<>> /\ n.xTasksWaitingTermination = <<>> /\ n.xSuspendedTaskList = <<>>
            BY <2>1 DEF KernelFields, prvInitialiseTaskLists
        <3>2. /\ z.pxDelayedTaskList = <<>> /\ z.pxOverflowDelayedTaskList = <<>>
              /\ z.xPendingReadyList = <<>> /\ z.xTasksWaitingTermination = <<>> /\ z.xSuspendedTaskList = <<>>
            BY <2>4, NobodyIn DEF Mem, TaskLists, Delayed, Overflowed, Pended, Suspended, Deleted
        <3> QED BY <1>4, <2>4, <3>1, <3>2 DEF SameSleep, SameParked, SameEvents
    <2> QED BY <2>2, <2>3, <2>4
<1>6. e \in [Priorities -> ReadyLists] /\ \A p \in Priorities : Elements(e[p].items) = {}
    <2>1. vListInitialise.items = <<>> /\ vListInitialise.index = 0 /\ vListInitialise \in [items : Seq(Tasks), index : Nat]
        BY DEF vListInitialise
    <2>2. Elements(<<>>) = {} /\ Distinct(<<>>) /\ 0 <= Len(<<>>)
        BY DEF Elements, Distinct
    <2>3. vListInitialise \in ReadyLists
        BY <2>1, <2>2 DEF ReadyLists, GoodReady
    <2> QED BY <2>1, <2>2, <2>3
<1> HIDE DEF k1, i, j, e, c, w
<1>7. j.pxReadyTasksLists \in [Priorities -> ReadyLists] /\ \A p \in Priorities : ReadyAt(j, p) = ReadyAt(z, p)
    BY <1>5, <1>6 DEF Mem, ReadyAt
<1>8. /\ (\A p \in Priorities : ReadyAt(w, p) = ReadyAt(z, p)) /\ w.pxReadyTasksLists \in [Priorities -> ReadyLists]
      /\ SameTop(z, w) /\ SameSleep(z, w) /\ SameParked(z, w) /\ SameEvents(z, w) /\ SameTimes(z, w)
      /\ SameNext(z, w) /\ SameClock(z, w) /\ SameRanks(z, w) /\ SameYield(z, w) /\ SameRest(z, w)
      /\ DOMAIN w = DOMAIN z
    BY <1>3, <1>4, <1>5, <1>7 DEF ReadyAt, SameReady, SameTop, SameSleep, SameParked, SameEvents, SameTimes, SameNext, SameClock,
       SameRanks, SameYield, SameRest
<1>9. Mem(w)
    BY <1>2, <1>3, <1>8 DEF Mem, SameTop, SameSleep, SameParked, SameEvents, SameTimes, SameNext, SameClock,
       SameRanks, SameYield, SameRest
<1> QED BY <1>3, <1>8, <1>9 DEF w, c

LEMMA CreateBoots ==
    ASSUME NEW x, Boot(x), NEW t \in Tasks, t \notin x.allocated, NEW p \in Priorities
    PROVE  LET y == xTaskCreate(x, t, p)
           IN  Boot(y) /\ y.allocated = x.allocated \cup {t} /\ y.pxCurrentTCB # NULL
<1> DEFINE z == Newcomer(x, t, p)
           w == Admitted(z, t)
           v == prvAddTaskToReadyList(w, t)
           y == xTaskCreate(x, t, p)
           cur == x.pxCurrentTCB
<1>1. /\ Sound(x, {}, {}, 1) /\ Mem(x) /\ Homes(x, {}) /\ ~x.xSchedulerRunning /\ cur \in Tasks \cup {NULL}
      /\ Ready(x) \subseteq Tasks /\ NULL \notin Tasks
    BY Numbers DEF Boot, Sound, Mem, Ready
<1>2. Sound(z, {t}, {}, 1) /\ SameViews(x, z) /\ Joining(x, z, t, p)
    BY <1>1, NewcomerKeeps
<1>3. y = prvAddNewTaskToReadyList(z, t)
    BY DEF xTaskCreate, Newcomer
<1> HIDE DEF z, y
<1>4. ~z.xSchedulerRunning
    BY <1>1, <1>2 DEF Joining
<1>5. y = v
    BY <1>3, <1>4 DEF prvAddNewTaskToReadyList, Admitted, YieldIf
<1>6. Mem(z) /\ z.pxCurrentTCB = cur /\ Homes(z, {t})
    BY <1>2 DEF Sound, Joining, SameCurrent
<1>7. cur = NULL => x.allocated = {} /\ Ready(x) = {}
    BY DEF Boot
<1>8. z.pxCurrentTCB = NULL =>
         /\ \A q \in Priorities : ReadyAt(z, q) = {}
         /\ Delayed(z) = {} /\ Overflowed(z) = {} /\ Pended(z) = {} /\ Suspended(z) = {} /\ Deleted(z) = {}
    <2>1. SUFFICES ASSUME cur = NULL
                   PROVE  /\ \A q \in Priorities : ReadyAt(z, q) = {}
                          /\ Delayed(z) = {} /\ Overflowed(z) = {} /\ Pended(z) = {} /\ Suspended(z) = {}
                          /\ Deleted(z) = {}
        BY <1>6
    <2>2. \A q \in Priorities : ReadyAt(x, q) \subseteq Ready(x)
        BY <1>1 DEF Ready, ReadyAt, Mem, ReadyLists, GoodReady, Elements
    <2>3. Delayed(x) = {} /\ Overflowed(x) = {} /\ Suspended(x) = {} /\ Deleted(x) = {}
        BY <1>1, <1>7, <2>1 DEF Homes
    <2>4. Pended(x) = {}
        BY DEF Boot
    <2> QED BY <1>2, <1>7, <2>1, <2>2, <2>3, <2>4 DEF SameViews
<1>9. /\ Mem(w) /\ (\A q \in Priorities : ReadyAt(w, q) = ReadyAt(z, q))
      /\ SameTop(z, w) /\ SameSleep(z, w) /\ SameParked(z, w) /\ SameEvents(z, w) /\ SameTimes(z, w)
      /\ SameNext(z, w) /\ SameClock(z, w) /\ SameRanks(z, w) /\ SameYield(z, w) /\ SameRest(z, w)
      /\ w.pxCurrentTCB = IF z.pxCurrentTCB = NULL \/ z.uxPriority[z.pxCurrentTCB] <= z.uxPriority[t]
                          THEN t ELSE z.pxCurrentTCB
    BY <1>6, <1>8, AdmittedIs
<1> HIDE DEF w
<1>10. w.allocated = x.allocated \cup {t} /\ t \in w.allocated /\ w.allocated = z.allocated
    BY <1>2, <1>9 DEF Joining, SameRest
<1>11. Sound(w, {t}, {}, 1) /\ SameViews(z, w)
    BY <1>2, <1>9, <1>10, WalkKeeps
<1>12. {t} \ {t} = {} /\ {} \ {w.uxPriority[t]} = {}
    OBVIOUS
<1>13. /\ Sound(v, {}, {}, 1) /\ Ready(v) = Ready(w) \cup {t}
       /\ SameSleep(w, v) /\ SameParked(w, v) /\ SameEvents(w, v) /\ SameNext(w, v) /\ Kept(w, v)
    <2>1. Sound(v, {t} \ {t}, {} \ {w.uxPriority[t]}, 1) /\ Ready(v) = Ready(w) \cup {t}
          /\ SameSleep(w, v) /\ SameParked(w, v) /\ SameEvents(w, v) /\ SameNext(w, v) /\ Kept(w, v)
        BY <1>10, <1>11, AddReadyKeeps
    <2> QED BY <1>12, <2>1
<1> HIDE DEF v
<1>14. /\ v.pxCurrentTCB = w.pxCurrentTCB /\ v.xTasksWaitingTermination = x.xTasksWaitingTermination
       /\ v.allocated = x.allocated \cup {t} /\ ~v.xSchedulerRunning
       /\ v.uxSchedulerSuspended = x.uxSchedulerSuspended /\ v.xPendedTicks = x.xPendedTicks
       /\ v.xPendingReadyList = x.xPendingReadyList
       /\ v.uxDeletedTasksWaitingCleanUp = x.uxDeletedTasksWaitingCleanUp
       /\ v.uxPriority = [x.uxPriority EXCEPT ![t] = p] /\ Ready(v) = Ready(x) \cup {t}
       /\ z.uxPriority = v.uxPriority
    BY <1>1, <1>2, <1>9, <1>10, <1>11, <1>13 DEF Kept, Joining, SameViews, SameCurrent, SameRest, SameRanks,
       SameEvents, SameParked
<1>15. v.uxPriority[t] = p /\ \A s \in Tasks : s # t => v.uxPriority[s] = x.uxPriority[s]
    BY <1>1, <1>14 DEF Mem
<1>16. /\ p \in Int /\ \A s \in Tasks : x.uxPriority[s] \in Int
    <2>1. \A s \in Tasks : x.uxPriority[s] \in Priorities
        BY <1>1 DEF Mem
    <2> QED BY <2>1, Numbers
<1>17. Highest(v)
    <2>1. CASE cur = NULL
        <3>1. v.pxCurrentTCB = t /\ Ready(v) = {t}
            BY <1>6, <1>7, <1>9, <1>14, <2>1
        <3> QED BY <1>15, <1>16, <3>1 DEF Highest
    <2>2. CASE cur # NULL
        <3>1. cur \in Ready(x) /\ \A u \in Ready(x) : x.uxPriority[u] <= x.uxPriority[cur]
            BY <2>2 DEF Boot, Highest
        <3>2. cur # t /\ \A u \in Ready(x) : u # t
            BY <3>1 DEF Boot
        <3>3. v.pxCurrentTCB = IF x.uxPriority[cur] <= p THEN t ELSE cur
            BY <1>1, <1>6, <1>9, <1>14, <1>15, <2>2, <3>2
        <3> HIDE DEF cur
        <3> QED BY <1>1, <1>14, <1>15, <1>16, <3>1, <3>2, <3>3 DEF Highest
    <2> QED BY <2>1, <2>2
<1>18. v.allocated = Ready(v) /\ v.pxCurrentTCB # NULL
    <2>1. x.allocated = Ready(x)
        BY DEF Boot
    <2>2. v.pxCurrentTCB # NULL
        BY <1>1, <1>14, <1>17 DEF Highest
    <2> QED BY <1>14, <2>1, <2>2
<1>19. Boot(v)
    BY <1>13, <1>14, <1>17, <1>18 DEF Boot, Pended
<1> QED BY <1>5, <1>14, <1>18, <1>19 DEF y, v

Starting(x, n) == [x EXCEPT !.xNextTaskUnblockTime = portMAX_DELAY, !.xSchedulerRunning = TRUE, !.xTickCount = n]

\* The idle task exists, and the scheduler starts.
LEMMA StartRuns ==
    ASSUME NEW x, Boot(x), IdleTask \in x.allocated, NEW n \in Ticks
    PROVE  LET y == Starting(x, n)
           IN  Run(y, NULL) /\ y.xSchedulerRunning /\ y.allocated = x.allocated /\ y.uxSchedulerSuspended = 0
<1> DEFINE y == Starting(x, n)
<1>1. /\ Mem(x) /\ Homes(x, {}) /\ Ranked(x) /\ Bits(x, {}) /\ Apart(x)
      /\ x.allocated = Ready(x) /\ Pended(x) = {} /\ x.xPendedTicks = 0 /\ x.uxSchedulerSuspended = 0
      /\ x.uxDeletedTasksWaitingCleanUp = Len(x.xTasksWaitingTermination)
    BY DEF Boot, Sound
<1>2. Highest(x) /\ x.pxCurrentTCB \in x.allocated
    BY <1>1 DEF Boot, Highest
<1>3. /\ DOMAIN y = DOMAIN x /\ SameReady(x, y) /\ SameTop(x, y) /\ SameSleep(x, y) /\ SameParked(x, y)
      /\ SameEvents(x, y) /\ SameTimes(x, y) /\ SameRanks(x, y) /\ SameCurrent(x, y) /\ SameYield(x, y)
      /\ y.elapsed = x.elapsed /\ y.xTickCount = n /\ y.xNextTaskUnblockTime = portMAX_DELAY
      /\ y.xSchedulerRunning /\ y.uxSchedulerSuspended = x.uxSchedulerSuspended
      /\ y.xPendedTicks = x.xPendedTicks /\ y.allocated = x.allocated
      /\ y.uxDeletedTasksWaitingCleanUp = x.uxDeletedTasksWaitingCleanUp /\ y.xSchedulerRunning \in BOOLEAN
    BY <1>1 DEF Mem, KernelFields, Starting, SameReady, SameTop, SameSleep, SameParked, SameEvents, SameTimes,
       SameRanks, SameCurrent, SameYield
<1> HIDE DEF y
<1>4. Mem(y)
    BY <1>1, <1>3, Numbers DEF Mem, SameReady, SameTop, SameSleep, SameParked, SameEvents, SameTimes, SameRanks,
       SameCurrent, SameYield
<1>5. SameViews(x, y)
    BY <1>3, AlikeViews
<1>6. Homes(y, {}) /\ Ranked(y) /\ Bits(y, {})
    BY <1>1, <1>3, <1>5 DEF Homes, Ranked, Bits, SameViews, SameRanks, SameTop
<1>7. Apart(y)
    BY <1>1, <1>3, <1>5 DEF Apart, SameViews, SameEvents, WaitingAt
<1>8. Delayed(y) = {} /\ Overflowed(y) = {} /\ Deleted(y) = {}
    BY <1>1, <1>5 DEF Homes, SameViews
<1>9. Times(y, 1)
    BY <1>8 DEF Times, SortedBy, Delayed, Overflowed, Elements
<1>10. Sound(y, {}, {}, 1)
    BY <1>4, <1>6, <1>7, <1>9 DEF Sound
<1>11. Base(y) /\ Quiet(y)
    BY <1>1, <1>2, <1>3, <1>5, <1>8, <1>10 DEF Base, Quiet, SameCurrent, SameParked, SameViews
<1>12. Fine(y, NULL)
    BY <1>2, <1>3, <1>5, <1>8 DEF Fine, Highest, SameCurrent, SameRanks, SameViews
<1> QED BY <1>1, <1>3, <1>11, <1>12 DEF Run, y
=============================================================================
