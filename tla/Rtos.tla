-------------------------------- MODULE Rtos --------------------------------
(***************************************************************************)
(* FreeRTOS as a whole: main() that creates tasks, queues, event groups,   *)
(* stream buffers and timers and starts the scheduler, the tasks in their  *)
(* calls, the daemon of the timers, the idle task, and the tick interrupt  *)
(* with the calls of the application's hook.                               *)
(***************************************************************************)
EXTENDS Timers, StreamBuffers

vars == <<k, frame, env>>

\* Zeroed memory, as the start-up code leaves it, but for the tick counter.
Memory(configINITIAL_TICK_COUNT) ==
    LET Each(v) == [t \in Tasks |-> v]
    IN  [pxCurrentTCB |-> NULL, xSchedulerRunning |-> FALSE, uxSchedulerSuspended |-> 0,
         xYieldPending |-> FALSE, uxCurrentNumberOfTasks |-> 0,
         uxDeletedTasksWaitingCleanUp |-> 0,
         pxReadyTasksLists |-> [p \in Priorities |-> vListInitialise],
         uxTopReadyPriority |-> {},
         pxDelayedTaskList |-> <<>>, pxOverflowDelayedTaskList |-> <<>>,
         xPendingReadyList |-> <<>>, xSuspendedTaskList |-> <<>>,
         xTasksWaitingTermination |-> <<>>,
         xEventLists |-> [e \in EventLists |-> <<>>],
         xTickCount |-> configINITIAL_TICK_COUNT, xPendedTicks |-> 0, xNumOfOverflows |-> 0,
         xNextTaskUnblockTime |-> 0,
         uxPriority |-> Each(0), uxBasePriority |-> Each(0), uxMutexesHeld |-> Each(0),
         xItemValue |-> Each(0), xEventValue |-> Each(0), xEventBits |-> Each(NULL),
         ucNotifyState |-> Each("taskNOT_WAITING_NOTIFICATION"),
         ulNotifiedValue |-> Each(0), ucDelayAborted |-> Each(FALSE),
         xQueues |-> [q \in Queues |-> NoQueue],
         xEventGroups |-> [g \in Groups |-> NULL],
         xStreamBuffers |-> [s \in Streams |-> NoStream],
         xTimerQueue |-> NULL, xTimers |-> [m \in TimerSet |-> NoTimer], xLastTime |-> 0,
         pxCurrentTimerList |-> <<>>, pxOverflowTimerList |-> <<>>,
         xQueueRegistry |-> [i \in Slots |-> NULL],
         elapsed |-> 0, due |-> Each(0), asserts |-> {}, allocated |-> {}]

Init ==
    /\ frame = [t \in Tasks |-> NewFrame]
    /\ \E name \in DOMAIN Scenario :
        /\ k = Memory(Scenario[name].count)
        /\ env = [sc |-> name, main |-> 1, ticks |-> Scenario[name].ticks,
               hooks |-> Scenario[name].hooks]

-----------------------------------------------------------------------------
(* main() *)

\* The idle task and the daemon of the timers are created, and the first tick
\* is still to come.
vTaskStartScheduler ==
    [IF configUSE_TIMERS THEN xTimerCreateTimerTask(xTaskCreate(k, IdleTask, 0))
                         ELSE xTaskCreate(k, IdleTask, 0)
        EXCEPT !.xNextTaskUnblockTime = portMAX_DELAY,
               !.xSchedulerRunning    = TRUE,
               !.xTickCount           = Scenario[env.sc].count]

Main ==
    /\ ~k.xSchedulerRunning
    /\ LET c == Scenario[env.sc].main[env.main]
       IN  k' = CASE c.op = "xTaskCreate" -> xTaskCreate(k, c.task, c.priority)
                  [] c.op = "xQueueCreate" -> xQueueGenericCreate(k, c.q, c.length, 1)
                  [] c.op = "xSemaphoreCreateCounting" ->
                        xQueueCreateCountingSemaphore(k, c.q, c.length, c.count)
                  [] c.op = "xSemaphoreCreateMutex" -> xQueueCreateMutex(k, c.q)
                  [] c.op = "xQueueCreateSet" -> xQueueCreateSet(k, c.q, c.length)
                  [] c.op = "xQueueAddToSet" -> xQueueAddToSet(k, c.q, c.set).k
                  [] c.op = "vQueueAddToRegistry" -> vQueueAddToRegistry(k, c.q)
                  [] c.op = "xEventGroupCreate" -> xEventGroupCreate(k, c.g)
                  [] c.op = "xStreamBufferGenericCreate" ->
                        xStreamBufferGenericCreate(k, c.s, c.size, c.trigger, c.message)
                  [] c.op = "xTimerCreate" -> xTimerCreate(k, c.timer, c.period, c.reload)
                  [] c.op = "xTimerGenericCommand" -> SendCommand(k, CommandMessage(k, c))
                  [] c.op = "vTaskStartScheduler" -> vTaskStartScheduler
    /\ env' = [env EXCEPT !.main = @ + 1]
    /\ UNCHANGED frame

-----------------------------------------------------------------------------
(* The tick interrupt and the calls its hook may make. *)

FromISR(x, c) ==
    CASE c.op = "xQueueGenericSendFromISR" -> xQueueGenericSendFromISR(x, c.q, c.item, c.position)
      [] c.op = "xQueueGiveFromISR"        -> xQueueGiveFromISR(x, c.q)
      [] c.op = "xQueueReceiveFromISR"     -> xQueueReceiveFromISR(x, c.q)
      [] c.op = "xTaskResumeFromISR"       -> xTaskResumeFromISR(x, c.task)
      [] c.op = "xTaskGenericNotifyFromISR" ->
            xTaskGenericNotifyFromISR(x, c.task, c.action, c.value)
      [] c.op = "vTaskNotifyGiveFromISR"      -> vTaskNotifyGiveFromISR(x, c.task)
      [] c.op = "xTimerGenericCommandFromISR" -> xTimerGenericCommandFromISR(x, c)
      [] c.op = "xEventGroupSetBitsFromISR"   -> xEventGroupSetBitsFromISR(x, c.g, c.bits)
      [] c.op = "xEventGroupClearBitsFromISR" -> xEventGroupClearBitsFromISR(x, c.g, c.bits)
      [] c.op = "xStreamBufferSendFromISR"    -> xStreamBufferSendFromISR(x, c.s, c.bytes)
      [] c.op = "xStreamBufferReceiveFromISR" -> xStreamBufferReceiveFromISR(x, c.s, c.length)
      [] c.op = "xStreamBufferSendCompletedFromISR" -> xStreamBufferSendCompletedFromISR(x, c.s)
      [] c.op = "xStreamBufferReceiveCompletedFromISR" ->
            xStreamBufferReceiveCompletedFromISR(x, c.s)

\* The hook ends with portYIELD_FROM_ISR().
Hook(x, c) == Yielded(FromISR(x, c))

Tick == TickInterrupt(Hook)

-----------------------------------------------------------------------------

TaskCall(t) ==
    \/ ResumeAll(t)        \/ Yield(t)
    \/ TaskDelay(t)        \/ TaskDelayUntil(t)   \/ TaskAbortDelay(t)
    \/ TaskCatchUpTicks(t) \/ TaskCreate(t)       \/ TaskDelete(t)
    \/ TaskSuspend(t)      \/ TaskResume(t)       \/ TaskPrioritySet(t)
    \/ TaskGetHandle(t)    \/ SuspendAllCall(t)   \/ ResumeAllCall(t)
    \/ YieldCall(t)        \/ TaskNotify(t)       \/ NotifyStateClear(t)
    \/ NotifyValueClear(t) \/ NotifyTake(t)       \/ NotifyWait(t)

QueueCall(t) ==
    \/ QueueGenericSend(t)        \/ QueueReceive(t)            \/ QueuePeek(t)
    \/ QueueSemaphoreTake(t)      \/ QueueTakeMutexRecursive(t)
    \/ QueueGiveMutexRecursive(t) \/ QueueReset(t)
    \/ QueueAddToSet(t)           \/ QueueRemoveFromSet(t)      \/ QueueDelete(t)

ServiceCall(t) ==
    \/ SetBits(t)         \/ ClearBits(t)     \/ WaitBits(t)      \/ Sync(t)
    \/ EventGroupDelete(t)
    \/ StreamSend(t)      \/ StreamReceive(t) \/ NextMessageLength(t)
    \/ StreamReset(t)     \/ StreamDelete(t)  \/ StreamSetTriggerLevel(t)
    \/ TimerCommand(t)    \/ PendFunctionCall(t) \/ SetReloadMode(t) \/ IsTimerActive(t)

Next ==
    \/ Main
    \/ Tick
    \/ prvIdleTask
    \/ prvTimerTask
    \/ \E t \in Tasks : TaskCall(t) \/ QueueCall(t) \/ ServiceCall(t)

Spec == Init /\ [][Next]_vars

-----------------------------------------------------------------------------
(* Properties. *)

\* Numbers stay in their ranges: priorities below configMAX_PRIORITIES, ticks
\* within TickType_t.
TypeOK ==
    /\ k.pxCurrentTCB \in Tasks \cup {NULL}
    /\ k.uxTopReadyPriority \subseteq Priorities
    /\ k.xTickCount \in 0 .. TickMod - 1
    /\ k.uxPriority \in [Tasks -> Priorities]
    /\ k.uxBasePriority \in [Tasks -> Priorities]
    /\ k.xNextTaskUnblockTime \in 0 .. TickMod - 1
    /\ k.uxSchedulerSuspended \in Nat
    /\ DOMAIN frame = Tasks

Places(s, x) == {i \in DOMAIN s : s[i] = x}
Count(s, x)  == Cardinality(Places(s, x))

\* The places in lists where the state item of t is, and the event item.
StateItems(t) ==
    Cardinality(UNION {{p} \X Places(k.pxReadyTasksLists[p].items, t) : p \in Priorities})
        + Count(k.pxDelayedTaskList, t) + Count(k.pxOverflowDelayedTaskList, t)
        + Count(k.xSuspendedTaskList, t) + Count(k.xTasksWaitingTermination, t)

EventItems(t) ==
    Cardinality(UNION {{e} \X Places(k.xEventLists[e], t) : e \in EventLists})
        + Count(k.xPendingReadyList, t)

\* Outside critical sections every task is in exactly one state list, its event
\* item in one list at most, a ready task in the list of its priority, and the
\* bits of uxTopReadyPriority are those of the lists that are not empty; what was
\* left over while the scheduler was suspended is dealt with when it resumes
\* (tasks.c: every function that moves a TCB).
OnePlace ==
    /\ \A t \in k.allocated :
        /\ StateItems(t) = 1
        /\ EventItems(t) <= 1
        /\ \A p \in Priorities : InReady(k, p, t) => k.uxPriority[t] = p
    /\ \A t \in Tasks \ k.allocated : StateItems(t) = 0 /\ EventItems(t) = 0
    /\ k.uxTopReadyPriority = {p \in Priorities : k.pxReadyTasksLists[p].items # <<>>}
    /\ k.uxSchedulerSuspended = 0 => k.xPendingReadyList = <<>> /\ k.xPendedTicks = 0

\* No configASSERT of the kernel fails under these programs, which keep to the
\* rules of the API (tasks.c, queue.c, stream_buffer.c, timers.c, event_groups.c).
\* The assertions about an argument by itself (a pointer that is NULL, a priority,
\* the bits of an event group) or about the build are left out.
NoAssertFails == k.asserts = {}

\* "For inheritance to have occurred there must have been an initial timeout,
\* and an adjusted timeout cannot become 0": a take that finds neither the
\* mutex nor any time left has lent no priority (queue.c:1504-1509).
TimeLeftWhenLent == "xInheritanceOccurred == pdFALSE" \notin k.asserts

\* "The running task must be the highest priority task wanting to access the
\* queue": unless the scheduler is
\* suspended or a switch is pending, the running task is ready and none that is
\* ready has a higher priority (queue.c:764, tasks.c:2989).
HighestRuns ==
    k.xSchedulerRunning /\ k.uxSchedulerSuspended = 0 /\ ~k.xYieldPending
        /\ frame[k.pxCurrentTCB].pc \notin {"portYIELD", "yield", "prvResetNextTaskUnblockTime"}
    => /\ InReady(k, k.uxPriority[k.pxCurrentTCB], k.pxCurrentTCB)
       /\ \A p \in k.uxTopReadyPriority : p <= k.uxPriority[k.pxCurrentTCB]

\* The ticks until due[t], the counter being circular.
Ahead(t) == (k.due[t] + ElapsedMod - k.elapsed) % ElapsedMod
\* A delayed task becomes ready at the tick it asked for, however often
\* xTickCount wraps and the two lists are switched (tasks.c:2707, 5177).
NoOverdue ==
    \A t \in k.allocated :
        InState(k.pxDelayedTaskList, t) \/ InState(k.pxOverflowDelayedTaskList, t)
            => Ahead(t) \in 1 .. TickMod - 1

\* The tasks that were woken, or never waited, and will look at the queue again.
Retrying(q, ops, waiting) ==
    {t \in k.allocated : /\ frame[t].pc \in {"unlockTx", "unlockRx", "resume", "yield", "try"}
                         /\ (\E op \in ops : In(t, op)) /\ frame[t].call.q = q
                         /\ ~InState(k.xEventLists[waiting], t)}
ReceiveOps == {"xQueueReceive", "xQueuePeek", "xQueueSemaphoreTake", "xQueueTakeMutexRecursive"}

\* A task never waits for an item that is there, nor for room that is there: for
\* every item beside a waiting task another task is on its way to look, whatever
\* came from interrupts while the queue was locked (queue.c:2171 prvUnlockQueue).
NoLostWakeup ==
    \A q \in Queues :
        /\ ToReceive(k, q) # <<>> /\ k.xQueues[q].cTxLock = queueUNLOCKED
            => k.xQueues[q].uxMessagesWaiting <=
                   Cardinality(Retrying(q, ReceiveOps, xTasksWaitingToReceive(q)))
        /\ ToSend(k, q) # <<>> /\ k.xQueues[q].cRxLock = queueUNLOCKED
            => k.xQueues[q].uxLength - k.xQueues[q].uxMessagesWaiting <=
                   Cardinality(Retrying(q, {"xQueueGenericSend"}, xTasksWaitingToSend(q)))

MutexQueues(t) == {q \in Queues : k.xQueues[q].uxQueueType = "mutex" /\ k.xQueues[q].xMutexHolder = t}

\* uxMutexesHeld is the number of mutexes whose holder the task is, and a task
\* that holds none has its own priority back (tasks.c:4104, queue.c:1470).
MutexesCounted ==
    \A t \in k.allocated :
        /\ k.uxMutexesHeld[t] = Cardinality(MutexQueues(t))
        /\ k.uxMutexesHeld[t] = 0 => k.uxPriority[t] = k.uxBasePriority[t]

\* The holder of a mutex is at least as urgent as every task that waits for it,
\* also after a more urgent one has given up (tasks.c:4014, 4184).
InheritanceCovers ==
    \A q \in Queues :
        LET h == k.xQueues[q].xMutexHolder
        IN  h \in k.allocated =>
                \A i \in DOMAIN ToReceive(k, q) : k.uxPriority[ToReceive(k, q)[i]] <= k.uxPriority[h]

\* No task waits for event bits that are there: setting bits wakes every task
\* whose wait they end, before any are cleared (event_groups.c:519).
WaitersUnmet ==
    \A g \in Groups :
        LET waiting == k.xEventLists[xTasksWaitingForBits(g)]
        IN  k.xEventGroups[g] # NULL =>
                \A i \in DOMAIN waiting : ~WaitMet(k, waiting[i], k.xEventGroups[g])

\* A message or stream as the bytes in the ring.
Encoded(S, seq) ==
    IF S.isMessageBuffer THEN FlattenSeq([i \in DOMAIN seq |-> LengthBytes(Len(seq[i])) \o seq[i]])
    ELSE seq
Midway(s) ==
    \E t \in Tasks : /\ frame[t].pc \in {"data", "body", "restore"}
                     /\ frame[t].call # NULL /\ frame[t].call.s = s

\* What was received and what is in the ring are what was sent, byte for byte and
\* message for message, although the two ends share no critical section
\* (stream_buffer.c:661 to 710, 918 to 967).
BytesIntact ==
    \A s \in Streams :
        LET S == Stream(k, s)
        IN  ~Midway(s) => Encoded(S, S.sent) = Encoded(S, S.received) \o Peeked(S, prvBytesInBuffer(S))

InStream(s, op, pcs) ==
    \E t \in Tasks : frame[t].pc \in pcs /\ In(t, op) /\ frame[t].call.s = s
Parked(t) == k.ucNotifyState[t] = "taskWAITING_NOTIFICATION"

\* A reader waits only below its trigger level and a writer only for room there
\* is not, unless the other end is about to tell it (stream_buffer.c:506, 713).
StreamWakes ==
    \A s \in Streams : LET S == Stream(k, s) IN
        /\ S.xTaskWaitingToReceive # NULL /\ Parked(S.xTaskWaitingToReceive)
            => \/ prvBytesInBuffer(S) < S.xTriggerLevelBytes
               \/ InStream(s, "xStreamBufferSend", {"data", "written", "complete"})
        /\ S.xTaskWaitingToSend # NULL /\ Parked(S.xTaskWaitingToSend)
            => \/ xStreamBufferSpacesAvailable(S)
                     < Len(frame[S.xTaskWaitingToSend].call.bytes) + HeaderBytes(S)
               \/ InStream(s, "xStreamBufferReceive", {"body", "complete"})

\* No timer's callback runs before the timer's period is over, wherever the
\* counter wraps between the command and now (timers.c:693).
NotEarly == \A m \in TimerSet : ~k.xTimers[m].early

TimerDue(m) == (k.xTimers[m].since + k.xTimers[m].xTimerPeriodInTicks + ElapsedMod - k.elapsed) % ElapsedMod
\* When the daemon waits, no command is left, no timer is overdue, a timer is in
\* one list at most, and in one if it is active and automatic; an inactive timer
\* is in none (timers.c:584, 734, 882).
TimersHeeded ==
    configUSE_TIMERS /\ k.xSchedulerRunning /\ k.uxSchedulerSuspended = 0
        /\ InState(ToReceive(k, TimerQueue), TimerTask) =>
    /\ prvIsQueueEmpty(k, TimerQueue)
    /\ \A m \in TimerSet :
        LET lists == Count(k.pxCurrentTimerList, m) + Count(k.pxOverflowTimerList, m)
        IN  /\ lists = 1 => TimerDue(m) \in 1 .. TickMod - 1
            /\ lists <= 1
            /\ k.xTimers[m].active /\ k.xTimers[m].autoreload => lists = 1
            /\ ~k.xTimers[m].active => lists = 0

=============================================================================
