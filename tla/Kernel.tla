------------------------------- MODULE Kernel -------------------------------
(***************************************************************************)
(* The scheduler of FreeRTOS V10.3.1 (src/c_test/FreeRTOS/Source/tasks.c)  *)
(* as the functions its API calls are built from.                          *)
(*                                                                         *)
(* The scheduler's memory is one record k: the globals of tasks.c and, one *)
(* function of the tasks per field, the TCBs.  Every definition takes the  *)
(* memory and returns the memory the C function of the same name leaves;   *)
(* where that also returns a value the result is [k |-> ..., ret |-> ...]. *)
(* All of these run with interrupts masked or the scheduler suspended: the *)
(* modules that use them say where another context may run in between.     *)
(*                                                                         *)
(* A list item of a task is in a list when the task is in the sequence, so *)
(* a list the code forgot to take a task out of shows.  A failed           *)
(* configASSERT leaves its name in k.asserts.                              *)
(***************************************************************************)
EXTENDS Lists

CONSTANTS
    Tasks,                  \* the TCBs there may be
    IdleTask,
    configMAX_PRIORITIES,
    TickMod,                \* TickType_t counts modulo this
    NotifyBits,             \* width of ulNotifiedValue
    EventLists,             \* the lists event items wait in
    NULL

ASSUME KernelAssumption ==
    /\ IdleTask \in Tasks
    /\ configMAX_PRIORITIES \in Nat \ {0}
    /\ TickMod \in Nat /\ TickMod > 1
    /\ NotifyBits \in Nat \ {0}
    /\ NULL \notin Tasks

Priorities    == 0 .. configMAX_PRIORITIES - 1
portMAX_DELAY == TickMod - 1
NotifyMod     == 2 ^ NotifyBits

\* The ticks since the start, counted for the properties: twice as wide as
\* xTickCount, it tells a wait that is over from one that has just begun.
ElapsedMod == TickMod * TickMod

Ok(k, ret) == [k |-> k, ret |-> ret]

configASSERT(k, holds, what) ==
    IF holds THEN k ELSE [k EXCEPT !.asserts = @ \cup {what}]

-----------------------------------------------------------------------------
(* The lists a task's two items are in. *)

InReady(k, p, t)     == Contains_(k.pxReadyTasksLists[p], t)
InState(s, t)        == \E i \in DOMAIN s : s[i] = t
EventContainer(k, t) == (\E e \in EventLists : InState(k.xEventLists[e], t))
                            \/ InState(k.xPendingReadyList, t)

\* uxListRemove(&(pxTCB->xStateListItem))
RemoveState(k, t) ==
    [k EXCEPT !.pxReadyTasksLists      = [p \in Priorities |-> uxListRemove(@[p], t)],
              !.pxDelayedTaskList         = Without(@, t),
              !.pxOverflowDelayedTaskList = Without(@, t),
              !.xSuspendedTaskList        = Without(@, t),
              !.xTasksWaitingTermination  = Without(@, t)]

\* uxListRemove(&(pxTCB->xEventListItem))
RemoveEvent(k, t) ==
    [k EXCEPT !.xEventLists       = [e \in EventLists |-> Without(@[e], t)],
              !.xPendingReadyList = Without(@, t)]

\* Seeded fault: the bit of an emptied list stays.
NeverReset(k, p) == k
\* taskRESET_READY_PRIORITY: the bit goes when the list of the priority is empty.
taskRESET_READY_PRIORITY(k, p) ==
    IF listCURRENT_LIST_LENGTH(k.pxReadyTasksLists[p]) = 0
    THEN [k EXCEPT !.uxTopReadyPriority = @ \ {p}] ELSE k

prvAddTaskToReadyList(k, t) ==
    [k EXCEPT !.uxTopReadyPriority = @ \cup {k.uxPriority[t]},
              !.pxReadyTasksLists[k.uxPriority[t]] = vListInsertEnd(@, t)]

prvResetNextTaskUnblockTime(k) ==
    [k EXCEPT !.xNextTaskUnblockTime =
        IF k.pxDelayedTaskList = <<>> THEN portMAX_DELAY
        ELSE k.xItemValue[Head(k.pxDelayedTaskList)]]

\* The value of an event item that waits in a queue's list: high priorities first.
PriorityValue(p) == configMAX_PRIORITIES - p

-----------------------------------------------------------------------------
(* Choosing the task that runs. *)

\* taskSELECT_HIGHEST_PRIORITY_TASK: the highest bit of uxTopReadyPriority
\* names the list, and the tasks in it take turns.
taskSELECT_HIGHEST_PRIORITY_TASK(k) ==
    LET p == CHOOSE q \in k.uxTopReadyPriority :
                        \A r \in k.uxTopReadyPriority : r <= q
        l == listGET_OWNER_OF_NEXT_ENTRY(k.pxReadyTasksLists[p])
    IN  IF k.uxTopReadyPriority = {} \/ k.pxReadyTasksLists[p].items = <<>>
        THEN configASSERT(k, FALSE, "taskSELECT_HIGHEST_PRIORITY_TASK")
        ELSE [k EXCEPT !.pxReadyTasksLists[p] = l, !.pxCurrentTCB = Owner(l)]

vTaskSwitchContext(k) ==
    IF k.uxSchedulerSuspended # 0
    THEN [k EXCEPT !.xYieldPending = TRUE]
    ELSE taskSELECT_HIGHEST_PRIORITY_TASK([k EXCEPT !.xYieldPending = FALSE])

\* portYIELD: an ecall, whose handler switches the context at once.
portYIELD(k) == vTaskSwitchContext(k)

YieldIf(k, required) == IF required THEN portYIELD(k) ELSE k
Yielded(r) == YieldIf(r.k, r.ret)

-----------------------------------------------------------------------------
(* Time. *)

\* Seeded fault: the next unblock time stays that of the old list.
SwitchOnly(k) ==
    [k EXCEPT !.pxDelayedTaskList         = k.pxOverflowDelayedTaskList,
              !.pxOverflowDelayedTaskList = k.pxDelayedTaskList,
              !.xNumOfOverflows           = (@ + 1) % TickMod]
\* taskSWITCH_DELAYED_LISTS
taskSWITCH_DELAYED_LISTS(k) ==
    prvResetNextTaskUnblockTime(
        [configASSERT(k, k.pxDelayedTaskList = <<>>, "taskSWITCH_DELAYED_LISTS")
            EXCEPT !.pxDelayedTaskList         = k.pxOverflowDelayedTaskList,
                   !.pxOverflowDelayedTaskList = k.pxDelayedTaskList,
                   !.xNumOfOverflows           = (@ + 1) % TickMod])

\* The tasks at the head of the delayed list whose time has come: the walk
\* stops at the first whose time has not.
Expired(k) ==
    LET s     == k.pxDelayedTaskList
        later == {i \in DOMAIN s : k.xTickCount < k.xItemValue[s[i]]}
    IN  IF later = {} THEN s
        ELSE SubSeq(s, 1, (CHOOSE i \in later : \A j \in later : i <= j) - 1)

\* Seeded fault: an expired task stays in its event list.
UnblockStillWaiting(k, t) == prvAddTaskToReadyList(RemoveState(k, t), t)
\* One expired task leaves its lists and becomes ready.
Unblock(k, t) == prvAddTaskToReadyList(RemoveEvent(RemoveState(k, t), t), t)
UnblockAll(k, s) ==
    LET after[n \in 0 .. Len(s)] == IF n = 0 THEN k ELSE Unblock(after[n - 1], s[n])
    IN  after[Len(s)]

Timely(k) == k.xTickCount >= k.xNextTaskUnblockTime

\* The counters go on, and the lists are switched when the counter wraps.
SwitchIfWrapped(k) == IF k.xTickCount = 0 THEN taskSWITCH_DELAYED_LISTS(k) ELSE k
\* Seeded fault: the tick count does not wrap.
AdvanceUnbounded(k) ==
    SwitchIfWrapped([k EXCEPT !.xTickCount = @ + 1, !.elapsed = (@ + 1) % ElapsedMod])
Advance(k) ==
    SwitchIfWrapped([k EXCEPT !.xTickCount = (@ + 1) % TickMod,
                              !.elapsed    = (@ + 1) % ElapsedMod])

\* The expired tasks become ready; ret: whether one is as urgent as the running one.
UnblockExpired(k) ==
    IF ~Timely(k) THEN Ok(k, FALSE)
    ELSE Ok(prvResetNextTaskUnblockTime(UnblockAll(k, Expired(k))),
            \E i \in DOMAIN Expired(k) : k.uxPriority[Expired(k)[i]] >= k.uxPriority[k.pxCurrentTCB])

\* Time slicing: another task of the same priority is ready.
Sliced(r) ==
    LET p == r.k.uxPriority[r.k.pxCurrentTCB]
    IN  [r EXCEPT !.ret = @ \/ listCURRENT_LIST_LENGTH(r.k.pxReadyTasksLists[p]) > 1]

\* The hook is the application's: it runs in the interrupt, at the end of a
\* tick, and also while the scheduler is suspended, but not for a tick that
\* is caught up with.
Hooked(r, vApplicationTickHook(_)) ==
    IF r.k.xPendedTicks = 0 \/ r.k.uxSchedulerSuspended # 0
    THEN [r EXCEPT !.k = vApplicationTickHook(@)] ELSE r

OrYieldPending(r) == [r EXCEPT !.ret = @ \/ (r.k.uxSchedulerSuspended = 0 /\ r.k.xYieldPending)]

xTaskIncrementTick(k, vApplicationTickHook(_)) ==
    OrYieldPending(Hooked(
        IF k.uxSchedulerSuspended # 0
        THEN Ok([k EXCEPT !.xPendedTicks = @ + 1], FALSE)
        ELSE Sliced(UnblockExpired(Advance(k))),
        vApplicationTickHook))

prvAddCurrentTaskToDelayedList(k, xTicksToWait, xCanBlockIndefinitely) ==
    LET t    == k.pxCurrentTCB
        wake == (k.xTickCount + xTicksToWait) % TickMod
        k1   == taskRESET_READY_PRIORITY(RemoveState([k EXCEPT !.ucDelayAborted[t] = FALSE], t),
                                         k.uxPriority[t])
        k2   == [k1 EXCEPT !.xItemValue[t] = wake, !.due[t] = (k.elapsed + xTicksToWait) % ElapsedMod]
        Into(list) == vListInsert(list, t, k2.xItemValue, portMAX_DELAY)
    IN  IF xTicksToWait = portMAX_DELAY /\ xCanBlockIndefinitely
        THEN [k1 EXCEPT !.xSuspendedTaskList = Append(@, t)]
        ELSE IF wake < k.xTickCount
        THEN [k2 EXCEPT !.pxOverflowDelayedTaskList = Into(@)]
        ELSE [k2 EXCEPT !.pxDelayedTaskList = Into(@),
                        !.xNextTaskUnblockTime = IF wake < @ THEN wake ELSE @]

-----------------------------------------------------------------------------
(* Suspending the scheduler. *)

vTaskSuspendAll(k) == [k EXCEPT !.uxSchedulerSuspended = @ + 1]

\* A task an interrupt made ready while the scheduler was suspended.
ReadyPended(k, t) ==
    LET k1 == Unblock(k, t)
    IN  IF k.uxPriority[t] >= k.uxPriority[k.pxCurrentTCB]
        THEN [k1 EXCEPT !.xYieldPending = TRUE] ELSE k1
ReadyEach(k, s) ==
    LET after[n \in 0 .. Len(s)] == IF n = 0 THEN k ELSE ReadyPended(after[n - 1], s[n])
    IN  after[Len(s)]

\* Seeded fault: a tick that was pended does not ask for a switch.
PendNothing(r) == r.k
PendYield(r) == IF r.ret THEN [r.k EXCEPT !.xYieldPending = TRUE] ELSE r.k

\* A tick that came while the scheduler was suspended.
CatchUp(k) == PendYield(xTaskIncrementTick(k, LAMBDA x : x))
CatchUpAll(k) ==
    LET after[n \in 0 .. k.xPendedTicks] == IF n = 0 THEN k ELSE CatchUp(after[n - 1])
    IN  [after[k.xPendedTicks] EXCEPT !.xPendedTicks = 0]

ReadyAllPended(k) ==
    IF k.xPendingReadyList = <<>> THEN k
    ELSE prvResetNextTaskUnblockTime(ReadyEach(k, k.xPendingReadyList))

\* ret: whether it has yielded.
YieldIfPending(k) == Ok(YieldIf(k, k.xYieldPending), k.xYieldPending)
ResumeIfLast(k) ==
    IF k.uxSchedulerSuspended # 0 THEN Ok(k, FALSE) ELSE YieldIfPending(CatchUpAll(ReadyAllPended(k)))

xTaskResumeAll(k) ==
    ResumeIfLast([configASSERT(k, k.uxSchedulerSuspended # 0, "xTaskResumeAll")
                    EXCEPT !.uxSchedulerSuspended = IF @ = 0 THEN 0 ELSE @ - 1])

-----------------------------------------------------------------------------
(* Waiting for events. *)

vTaskPlaceOnEventList(k, e, xTicksToWait) ==
    prvAddCurrentTaskToDelayedList(
        [k EXCEPT !.xEventLists[e] = vListInsert(@, k.pxCurrentTCB, k.xEventValue, portMAX_DELAY)],
        xTicksToWait, TRUE)

\* The waiting bits overwrite the value of the event item.
vTaskPlaceOnUnorderedEventList(k, e, bits, xTicksToWait) ==
    prvAddCurrentTaskToDelayedList(
        [configASSERT(k, k.uxSchedulerSuspended # 0, "vTaskPlaceOnUnorderedEventList")
            EXCEPT !.xEventBits[k.pxCurrentTCB] = bits,
                   !.xEventLists[e] = Append(@, k.pxCurrentTCB)],
        xTicksToWait, TRUE)

vTaskPlaceOnEventListRestricted(k, e, xTicksToWait, xWaitIndefinitely) ==
    prvAddCurrentTaskToDelayedList(
        [k EXCEPT !.xEventLists[e] = Append(@, k.pxCurrentTCB)],
        IF xWaitIndefinitely THEN portMAX_DELAY ELSE xTicksToWait, xWaitIndefinitely)

\* A task an event has come for is ready at once, or when the scheduler resumes.
MakeReady(k, t) ==
    IF k.uxSchedulerSuspended = 0
    THEN prvAddTaskToReadyList(RemoveState(k, t), t)
    ELSE [k EXCEPT !.xPendingReadyList = Append(@, t)]

Outranks(k, t) == k.uxPriority[t] > k.uxPriority[k.pxCurrentTCB]

xTaskRemoveFromEventList(k, e) ==
    LET t  == Head(k.xEventLists[e])
        k1 == MakeReady(RemoveEvent(k, t), t)
    IN  [k |-> IF Outranks(k, t) THEN [k1 EXCEPT !.xYieldPending = TRUE] ELSE k1,
         ret |-> Outranks(k, t)]

\* The event group leaves the bits that ended the wait in the event item.
vTaskRemoveFromUnorderedEventList(k, t, bits) ==
    LET k1 == configASSERT(k, k.uxSchedulerSuspended # 0, "vTaskRemoveFromUnorderedEventList")
        k2 == Unblock([k1 EXCEPT !.xEventBits[t] = bits], t)
    IN  IF Outranks(k, t) THEN [k2 EXCEPT !.xYieldPending = TRUE] ELSE k2

\* The bits are read and the event item gets the value of the priority back.
uxTaskResetEventItemValue(k) ==
    [k EXCEPT !.xEventBits[k.pxCurrentTCB]  = NULL,
              !.xEventValue[k.pxCurrentTCB] = PriorityValue(k.uxPriority[k.pxCurrentTCB])]

vTaskInternalSetTimeOutState(k) ==
    [xOverflowCount |-> k.xNumOfOverflows, xTimeOnEntering |-> k.xTickCount]

\* ret: whether the time is over; the time and the ticks left are updated.
xTaskCheckForTimeOut(k, timeout, ticks) ==
    LET t       == k.pxCurrentTCB
        elapsed == (k.xTickCount + TickMod - timeout.xTimeOnEntering) % TickMod
        aborted == k.ucDelayAborted[t]
        wrapped == /\ k.xNumOfOverflows # timeout.xOverflowCount
                   /\ k.xTickCount >= timeout.xTimeOnEntering
    IN  IF aborted
        THEN [k |-> [k EXCEPT !.ucDelayAborted[t] = FALSE],
              timeout |-> timeout, ticks |-> ticks, ret |-> TRUE]
        ELSE IF ticks = portMAX_DELAY
        THEN [k |-> k, timeout |-> timeout, ticks |-> ticks, ret |-> FALSE]
        ELSE IF wrapped
        THEN [k |-> k, timeout |-> timeout, ticks |-> ticks, ret |-> TRUE]
        ELSE IF elapsed < ticks
        THEN [k |-> k, timeout |-> vTaskInternalSetTimeOutState(k),
              ticks |-> ticks - elapsed, ret |-> FALSE]
        ELSE [k |-> k, timeout |-> timeout, ticks |-> 0, ret |-> TRUE]

-----------------------------------------------------------------------------
(* Priorities. *)

\* An event item follows its task's priority unless it holds event bits.
SetEventValue(k, t, p) ==
    IF k.xEventBits[t] = NULL
    THEN [k EXCEPT !.xEventValue[t] = PriorityValue(p)] ELSE k

\* A ready task whose priority changes moves to the list of the new one.
MoveReady(k, t, from, reset, to) ==
    LET k1 == [k EXCEPT !.uxPriority[t] = to]
        k2 == RemoveState(k1, t)
        k3 == IF k2.pxReadyTasksLists[from].items = <<>>
              THEN [k2 EXCEPT !.uxTopReadyPriority = @ \ {reset}] ELSE k2
    IN  IF InReady(k, from, t) THEN prvAddTaskToReadyList(k3, t) ELSE k1

vTaskPrioritySet(k, t, uxNewPriority) ==
    LET base  == k.uxBasePriority[t]
        used  == k.uxPriority[t]
        yield == IF uxNewPriority > base
                 THEN t # k.pxCurrentTCB /\ uxNewPriority >= k.uxPriority[k.pxCurrentTCB]
                 ELSE t = k.pxCurrentTCB
        k1    == [k EXCEPT !.uxBasePriority[t] = uxNewPriority]
        k2    == SetEventValue(k1, t, uxNewPriority)
    IN  IF base = uxNewPriority THEN k
        ELSE YieldIf(MoveReady(k2, t, used, used, IF base = used THEN uxNewPriority ELSE used),
                     yield)

\* The holder of a mutex gets the priority of the task that starts waiting.
xTaskPriorityInherit(k, holder) ==
    LET p  == k.uxPriority[k.pxCurrentTCB]
        k1 == SetEventValue(k, holder, p)
    IN  IF holder = NULL THEN [k |-> k, ret |-> FALSE]
        ELSE IF k.uxPriority[holder] < p
        THEN [k |-> MoveReady(k1, holder, k.uxPriority[holder], k.uxPriority[holder], p),
              ret |-> TRUE]
        ELSE [k |-> k, ret |-> k.uxBasePriority[holder] < p]

\* The holder gives a mutex back, and its own priority with the last one.
xTaskPriorityDisinherit(k, holder) ==
    LET t    == holder
        k1   == configASSERT(k, t = k.pxCurrentTCB, "xTaskPriorityDisinherit: holder")
        k2   == configASSERT(k1, k.uxMutexesHeld[t] # 0, "xTaskPriorityDisinherit: held")
        k3   == [k2 EXCEPT !.uxMutexesHeld[t] = IF @ = 0 THEN 0 ELSE @ - 1]
        k4   == [taskRESET_READY_PRIORITY(RemoveState(k3, t), k.uxPriority[t])
                    EXCEPT !.uxPriority[t]  = k.uxBasePriority[t],
                           !.xEventValue[t] = PriorityValue(k.uxBasePriority[t])]
    IN  IF holder = NULL THEN [k |-> k, ret |-> FALSE]
        ELSE IF k.uxPriority[t] # k.uxBasePriority[t] /\ k3.uxMutexesHeld[t] = 0
        THEN [k |-> prvAddTaskToReadyList(k4, t), ret |-> TRUE]
        ELSE [k |-> k3, ret |-> FALSE]

\* Seeded fault: the holder falls to its base priority whoever still waits.
LentNothing(k, t, waiting) == k.uxBasePriority[t]
\* The priority of a holder for which a task of that priority waits.
StillLent(k, t, waiting) ==
    IF k.uxBasePriority[t] < waiting THEN waiting ELSE k.uxBasePriority[t]

\* A waiter gave up: the holder keeps the priority of the highest one left.
\* The bit cleared is that of the new priority (tasks.c:4254).
vTaskPriorityDisinheritAfterTimeout(k, holder, uxHighestPriorityWaitingTask) ==
    LET t  == holder
        to == StillLent(k, t, uxHighestPriorityWaitingTask)
        k1 == configASSERT(k, k.uxMutexesHeld[t] # 0, "vTaskPriorityDisinheritAfterTimeout: held")
        k2 == configASSERT(k1, t # k.pxCurrentTCB, "vTaskPriorityDisinheritAfterTimeout: holder")
    IN  IF holder = NULL THEN k
        ELSE IF k.uxPriority[t] # to /\ k.uxMutexesHeld[t] = 1
        THEN MoveReady(SetEventValue(k2, t, to), t, k.uxPriority[t], to, to)
        ELSE k1

pvTaskIncrementMutexHeldCount(k) == [k EXCEPT !.uxMutexesHeld[k.pxCurrentTCB] = @ + 1]

-----------------------------------------------------------------------------
(* Creating, deleting, suspending and resuming tasks. *)

eTaskGetState(k, t) ==
    IF t = k.pxCurrentTCB THEN "eRunning"
    ELSE IF InState(k.pxDelayedTaskList, t) \/ InState(k.pxOverflowDelayedTaskList, t)
    THEN "eBlocked"
    ELSE IF InState(k.xSuspendedTaskList, t)
    THEN IF EventContainer(k, t) \/ k.ucNotifyState[t] = "taskWAITING_NOTIFICATION"
         THEN "eBlocked" ELSE "eSuspended"
    ELSE IF \E p \in Priorities : InReady(k, p, t) THEN "eReady"
    ELSE "eDeleted"

\* prvInitialiseNewTask: the fields of a new TCB.
prvInitialiseNewTask(k, t, p) ==
    [k EXCEPT !.uxPriority[t]      = p,
              !.uxBasePriority[t]  = p,
              !.uxMutexesHeld[t]   = 0,
              !.xItemValue[t]      = 0,
              !.xEventValue[t]     = PriorityValue(p),
              !.xEventBits[t]      = NULL,
              !.ucNotifyState[t]   = "taskNOT_WAITING_NOTIFICATION",
              !.ulNotifiedValue[t] = 0,
              !.ucDelayAborted[t]  = FALSE]

\* prvInitialiseTaskLists, called for the first task.
prvInitialiseTaskLists(k) ==
    [k EXCEPT !.pxReadyTasksLists         = [p \in Priorities |-> vListInitialise],
              !.pxDelayedTaskList         = <<>>,
              !.pxOverflowDelayedTaskList = <<>>,
              !.xPendingReadyList         = <<>>,
              !.xTasksWaitingTermination  = <<>>,
              !.xSuspendedTaskList        = <<>>]

prvAddNewTaskToReadyList(k, t) ==
    LET k1 == [k EXCEPT !.uxCurrentNumberOfTasks = @ + 1]
        k2 == IF k.pxCurrentTCB = NULL
              THEN [IF k1.uxCurrentNumberOfTasks = 1 THEN prvInitialiseTaskLists(k1) ELSE k1
                       EXCEPT !.pxCurrentTCB = t]
              ELSE IF ~k.xSchedulerRunning /\ k.uxPriority[k.pxCurrentTCB] <= k.uxPriority[t]
              THEN [k1 EXCEPT !.pxCurrentTCB = t]
              ELSE k1
        k3 == prvAddTaskToReadyList(k2, t)
    IN  YieldIf(k3, k.xSchedulerRunning /\ Outranks(k3, t))

\* The stack and the TCB are allocated; when the second fails the first is freed.
xTaskCreate(k, t, p) ==
    prvAddNewTaskToReadyList(
        prvInitialiseNewTask([k EXCEPT !.allocated = @ \cup {t}], t, p), t)

prvDeleteTCB(k, t) == [k EXCEPT !.allocated = @ \ {t}]

\* vTaskDelete up to taskEXIT_CRITICAL.  A task that deletes itself is only put
\* aside: the idle task frees it.
vTaskDelete(k, t) ==
    LET k1 == RemoveEvent(taskRESET_READY_PRIORITY(RemoveState(k, t), k.uxPriority[t]), t)
        k2 == [k1 EXCEPT !.xTasksWaitingTermination = Append(@, t),
                         !.uxDeletedTasksWaitingCleanUp = @ + 1]
        k3 == prvResetNextTaskUnblockTime(
                 prvDeleteTCB([k1 EXCEPT !.uxCurrentNumberOfTasks = @ - 1], t))
    IN  IF t = k.pxCurrentTCB THEN k2 ELSE k3

\* One round of the idle task's clean-up.
prvCheckTasksWaitingTermination(k) ==
    LET t == Head(k.xTasksWaitingTermination)
    IN  prvDeleteTCB([RemoveState(k, t) EXCEPT !.uxCurrentNumberOfTasks = @ - 1,
                                               !.uxDeletedTasksWaitingCleanUp = @ - 1], t)

\* vTaskSuspend up to its first taskEXIT_CRITICAL; a pending wait for a
\* notification is forgotten.
vTaskSuspend(k, t) ==
    [RemoveEvent(taskRESET_READY_PRIORITY(RemoveState(k, t), k.uxPriority[t]), t)
        EXCEPT !.xSuspendedTaskList = Append(@, t),
               !.ucNotifyState[t]   = IF @ = "taskWAITING_NOTIFICATION"
                                      THEN "taskNOT_WAITING_NOTIFICATION" ELSE @]

prvTaskIsTaskSuspended(k, t) ==
    InState(k.xSuspendedTaskList, t) /\ ~EventContainer(k, t)

vTaskResume(k, t) ==
    IF t # k.pxCurrentTCB /\ prvTaskIsTaskSuspended(k, t)
    THEN LET k1 == prvAddTaskToReadyList(RemoveState(k, t), t)
         IN  YieldIf(k1, k1.uxPriority[t] >= k1.uxPriority[k1.pxCurrentTCB])
    ELSE k

\* ret: whether the interrupt should end with a context switch.
xTaskResumeFromISR(k, t) ==
    IF ~prvTaskIsTaskSuspended(k, t) THEN [k |-> k, ret |-> FALSE]
    ELSE IF k.uxSchedulerSuspended = 0
    THEN [k |-> prvAddTaskToReadyList(RemoveState(k, t), t),
          ret |-> k.uxPriority[t] >= k.uxPriority[k.pxCurrentTCB]]
    ELSE [k |-> [k EXCEPT !.xPendingReadyList = Append(@, t)], ret |-> FALSE]

\* xTaskAbortDelay up to xTaskResumeAll, with the scheduler suspended.
xTaskAbortDelay(k, t) ==
    LET k1 == RemoveState(k, t)
        k2 == IF EventContainer(k, t)
              THEN [RemoveEvent(k1, t) EXCEPT !.ucDelayAborted[t] = TRUE] ELSE k1
        k3 == prvAddTaskToReadyList(k2, t)
    IN  IF eTaskGetState(k, t) # "eBlocked" THEN [k |-> k, ret |-> FALSE]
        ELSE [k |-> IF Outranks(k, t) THEN [k3 EXCEPT !.xYieldPending = TRUE] ELSE k3,
              ret |-> TRUE]

\* The walk over a list leaves pxIndex at the task it found, or one further.
prvSearchForNameWithinSingleList(l, t) ==
    IF l.items = <<>> THEN l
    ELSE IF Contains_(l, t) THEN [l EXCEPT !.index = CHOOSE i \in DOMAIN l.items : l.items[i] = t]
    ELSE listGET_OWNER_OF_NEXT_ENTRY(l)

\* xTaskGetHandle looks from the highest priority down until it finds the task.
xTaskGetHandle(k, t) ==
    LET in == {p \in Priorities : InReady(k, p, t)}
    IN  [k EXCEPT !.pxReadyTasksLists = [p \in Priorities |->
            IF \A q \in in : q <= p
            THEN prvSearchForNameWithinSingleList(@[p], t) ELSE @[p]]]

-----------------------------------------------------------------------------
(* Notifications. *)

BitsOf(n)   == {i \in 0 .. NotifyBits - 1 : (n \div (2 ^ i)) % 2 = 1}
ValueOf(bs) == CHOOSE n \in 0 .. NotifyMod - 1 : BitsOf(n) = bs

\* The value of a notification, for each eNotifyAction.
NotifiedValue(k, t, eAction, ulValue) ==
    LET old == k.ulNotifiedValue[t]
    IN  CASE eAction = "eSetBits" -> ValueOf(BitsOf(old) \cup BitsOf(ulValue))
          [] eAction = "eIncrement" -> (old + 1) % NotifyMod
          [] eAction = "eSetValueWithOverwrite" -> ulValue
          [] eAction = "eSetValueWithoutOverwrite" ->
                IF k.ucNotifyState[t] = "taskNOTIFICATION_RECEIVED" THEN old ELSE ulValue
          [] eAction = "eNoAction" -> old

Notified(k, t, eAction, ulValue) ==
    [k EXCEPT !.ulNotifiedValue[t] = NotifiedValue(k, t, eAction, ulValue),
              !.ucNotifyState[t]   = "taskNOTIFICATION_RECEIVED"]

WasWaiting(k, t) == k.ucNotifyState[t] = "taskWAITING_NOTIFICATION"

xTaskGenericNotify(k, t, eAction, ulValue) ==
    LET k1 == Notified(k, t, eAction, ulValue)
        k2 == configASSERT(prvAddTaskToReadyList(RemoveState(k1, t), t),
                           ~EventContainer(k, t), "xTaskGenericNotify")
    IN  IF WasWaiting(k, t) THEN YieldIf(k2, Outranks(k, t)) ELSE k1

\* Also vTaskNotifyGiveFromISR, with eIncrement.
xTaskGenericNotifyFromISR(k, t, eAction, ulValue) ==
    LET k1   == Notified(k, t, eAction, ulValue)
        k2   == MakeReady(configASSERT(k1, ~EventContainer(k, t), "xTaskGenericNotifyFromISR"), t)
        wake == WasWaiting(k, t) /\ Outranks(k, t)
    IN  [k |-> IF ~WasWaiting(k, t) THEN k1
               ELSE IF wake THEN [k2 EXCEPT !.xYieldPending = TRUE] ELSE k2,
         ret |-> wake]

\* A notification used as a counting semaphore.
vTaskNotifyGiveFromISR(k, t) == xTaskGenericNotifyFromISR(k, t, "eIncrement", 0)

xTaskNotifyStateClear(k, t) ==
    [k EXCEPT !.ucNotifyState[t] = IF @ = "taskNOTIFICATION_RECEIVED"
                                   THEN "taskNOT_WAITING_NOTIFICATION" ELSE @]

\* ret is the notified value of the calling task, not of t (tasks.c:5156).
ulTaskNotifyValueClear(k, t, ulBitsToClear) ==
    [k |-> [k EXCEPT !.ulNotifiedValue[t] = ValueOf(BitsOf(@) \ BitsOf(ulBitsToClear))],
     ret |-> k.ulNotifiedValue[k.pxCurrentTCB]]

=============================================================================
