------------------------------- MODULE Queues -------------------------------
(***************************************************************************)
(* The calls of queue.h and semphr.h (src/c_test/FreeRTOS/Source/queue.c)  *)
(* as the steps a task takes through them.                                 *)
(*                                                                         *)
(* A call that may block loops: it tries in a critical section; suspends   *)
(* the scheduler and locks the queue; if its time is not over and the      *)
(* queue still will not do, it joins the tasks that wait; it unlocks the   *)
(* queue, and resumes the scheduler, which switches to another task; then  *)
(* it tries again.  Interrupts come in between all of these steps.         *)
(***************************************************************************)
EXTENDS Tasks, QueueMemory

\* frame[t].then is set by the steps below to where the call goes when the
\* scheduler is resumed: "try" again, or "expired" when the time is over.

\* The calls that end in xQueueSemaphoreTake.
Takes == {"xQueueSemaphoreTake", "xQueueTakeMutexRecursive"}

\* What a call asserts when it begins: a scheduler that is suspended may not be
\* asked to block, only a queue of one is overwritten, only a semaphore taken.
Asserted(t, c) ==
    configASSERT(k, frame[t].pc = "app" =>
        /\ ~(k.uxSchedulerSuspended # 0 /\ c.ticks # 0)
        /\ c.op = "xQueueGenericSend" /\ c.position = "queueOVERWRITE" => k.xQueues[c.q].uxLength = 1
        /\ c.op \in Takes => k.xQueues[c.q].uxItemSize = 0, c.op)

\* The ticks a call still waits: its argument at first.
TicksLeft(t, c) == IF frame[t].pc = "app" THEN c.ticks ELSE frame[t].ticks

\* The call cannot go on: its time starts now, the first time round.
Block(t, c) ==
    /\ k' = Asserted(t, c)
    /\ Becomes(t, [frame[t] EXCEPT !.pc      = "suspend",
                                   !.call    = c,
                                   !.ticks   = TicksLeft(t, c),
                                   !.timeout = IF @ = NULL THEN vTaskInternalSetTimeOutState(k)
                                               ELSE @])

\* vTaskSuspendAll()
Suspend(t, op) ==
    /\ At(t, op, "suspend")
    /\ k' = vTaskSuspendAll(k)
    /\ Becomes(t, [frame[t] EXCEPT !.pc = "lock"])
    /\ UNCHANGED env

\* prvLockQueue() and xTaskCheckForTimeOut()
Lock(t, op) ==
    /\ At(t, op, "lock")
    /\ LET r == xTaskCheckForTimeOut(prvLockQueue(k, frame[t].call.q), frame[t].timeout, frame[t].ticks)
       IN  /\ k' = r.k
           /\ Becomes(t, [frame[t] EXCEPT !.pc      = IF r.ret THEN "unlockTx" ELSE "test",
                                          !.timeout = r.timeout,
                                          !.ticks   = r.ticks,
                                          !.then    = "expired",
                                          !.else    = "expired"])
    /\ UNCHANGED env

\* prvIsQueueFull() or prvIsQueueEmpty(): something may have come in between.
Test(t, op, prvIsQueueUseless(_, _)) ==
    /\ At(t, op, "test")
    /\ k' = k
    /\ Becomes(t, IF prvIsQueueUseless(k, frame[t].call.q)
                  THEN [frame[t] EXCEPT !.pc = "place"]
                  ELSE [frame[t] EXCEPT !.pc = "unlockTx", !.then = "try", !.else = "try"])
    /\ UNCHANGED env

\* vTaskPlaceOnEventList(): the call will yield when the scheduler is resumed.
\* A task that waits for a mutex lends its holder its priority first.
Place(t, op, waiting(_)) ==
    /\ At(t, op, "place")
    /\ LET q == frame[t].call.q
           r == IF op \in Takes /\ k.xQueues[q].uxQueueType = "mutex"
                THEN xTaskPriorityInherit(k, k.xQueues[q].xMutexHolder)
                ELSE Ok(k, frame[t].flag)
       IN  /\ k' = vTaskPlaceOnEventList(r.k, waiting(q), frame[t].ticks)
           /\ Becomes(t, [frame[t] EXCEPT !.pc = "unlockTx", !.flag = r.ret,
                                          !.then = "try", !.else = "yield"])
    /\ UNCHANGED env

\* prvUnlockQueue(), two critical sections
Unlock(t, op) ==
    \/ /\ At(t, op, "unlockTx")
       /\ k' = UnlockTx(k, frame[t].call.q)
       /\ Becomes(t, [frame[t] EXCEPT !.pc = "unlockRx"])
       /\ UNCHANGED env
    \/ /\ At(t, op, "unlockRx")
       /\ k' = UnlockRx(k, frame[t].call.q)
       /\ Becomes(t, [frame[t] EXCEPT !.pc = "resume"])
       /\ UNCHANGED env

\* xTaskResumeAll(), and portYIELD_WITHIN_API() if that did not yield
Resume(t, op) ==
    \/ /\ At(t, op, "resume")
       /\ \E r \in {xTaskResumeAll(k)} :
              /\ k' = r.k
              /\ Becomes(t, [frame[t] EXCEPT !.pc = IF r.ret THEN frame[t].then
                                                    ELSE frame[t].else])
       /\ UNCHANGED env
    \/ /\ At(t, op, "yield")
       /\ k' = portYIELD(k)
       /\ Becomes(t, [frame[t] EXCEPT !.pc = "try"])
       /\ UNCHANGED env

Blocked(t, op, prvIsQueueUseless(_, _), waiting(_)) ==
    \/ Suspend(t, op)
    \/ Lock(t, op)
    \/ Test(t, op, prvIsQueueUseless)
    \/ Place(t, op, waiting)
    \/ Unlock(t, op)
    \/ Resume(t, op)

-----------------------------------------------------------------------------
(* Sending. *)

QueueGenericSend(t) ==
    \/ \E c \in Entering(t, "xQueueGenericSend", "try") :
        /\ CASE HasRoom(k, c.q, c.position) ->
                    k' = SendNow(Asserted(t, c), c.q, c.item, c.position) /\ Return(t, "pdPASS")
             [] ~HasRoom(k, c.q, c.position) /\ TicksLeft(t, c) = 0 ->
                    k' = Asserted(t, c) /\ Return(t, "pdFAIL")
             [] OTHER -> Block(t, c)
        /\ UNCHANGED env
    \/ Blocked(t, "xQueueGenericSend", prvIsQueueFull, xTasksWaitingToSend)
    \/ /\ At(t, "xQueueGenericSend", "expired")
       /\ Return(t, "pdFAIL")
       /\ UNCHANGED <<k, env>>

-----------------------------------------------------------------------------
(* Receiving. *)

\* The time is over, but the queue may have got an item meanwhile.
Expired_(t, op, otherwise) ==
    /\ At(t, op, "expired")
    /\ k' = k
    /\ IF prvIsQueueEmpty(k, frame[t].call.q)
       THEN Becomes(t, Goto(t, [frame[t] EXCEPT !.ret = "pdFAIL"], otherwise))
       ELSE Becomes(t, [frame[t] EXCEPT !.pc = "try"])
    /\ UNCHANGED env

\* A call that takes something when there is something, and goes on at then.
\* A take whose time is over holds that it has lent no priority (queue.c:1509);
\* the flag of a call that takes no mutex stays FALSE.
Receive(t, op, Now(_, _), then) ==
    \/ \E c \in Entering(t, op, "try") :
        /\ CASE ~prvIsQueueEmpty(k, c.q) ->
                    /\ k' = Now(Asserted(t, c), c.q).k
                    /\ Becomes(t, Goto(t, [frame[t] EXCEPT !.call = c, !.ret = "pdPASS",
                                                            !.got = Now(k, c.q).ret], then))
             [] prvIsQueueEmpty(k, c.q) /\ TicksLeft(t, c) = 0 ->
                    /\ k' = configASSERT(Asserted(t, c), ~frame[t].flag, "xInheritanceOccurred == pdFALSE")
                    /\ Return(t, "pdFAIL")
             [] OTHER -> Block(t, c)
        /\ UNCHANGED env
    \/ Blocked(t, op, prvIsQueueEmpty, xTasksWaitingToReceive)

QueueReceive(t) ==
    \/ Receive(t, "xQueueReceive", ReceiveNow, "return")
    \/ Expired_(t, "xQueueReceive", "return")

QueuePeek(t) ==
    \/ Receive(t, "xQueuePeek", PeekNow, "return")
    \/ Expired_(t, "xQueuePeek", "return")

\* A wait that lent the holder a priority takes it back when it gives up.
TakeBack(t, op) ==
    /\ At(t, op, "disinherit")
    /\ LET q == frame[t].call.q
       IN  k' = vTaskPriorityDisinheritAfterTimeout(k, k.xQueues[q].xMutexHolder,
                                                    prvGetDisinheritPriorityAfterTimeout(k, q))
    /\ Return(t, "pdFAIL")
    /\ UNCHANGED env

SemaphoreTake(t, op, then) ==
    \/ Receive(t, op, LAMBDA x, q : Ok(TakeNow(x, q), NULL), then)
    \/ Expired_(t, op, IF frame[t].flag THEN "disinherit" ELSE "return")
    \/ TakeBack(t, op)

QueueSemaphoreTake(t) == SemaphoreTake(t, "xQueueSemaphoreTake", "return")

-----------------------------------------------------------------------------
(* Recursive mutexes. *)

CountCall(q, n) == [k EXCEPT !.xQueues[q].uxRecursiveCallCount = @ + n]

\* The holder only counts.  Another task takes the mutex, and counts after it:
\* nobody else looks at the count of a mutex that is held.
QueueTakeMutexRecursive(t) ==
    LET op == "xQueueTakeMutexRecursive"
    IN  \/ \E c \in Calls(t, op) :
            /\ k.xQueues[c.q].xMutexHolder = t
            /\ k' = CountCall(c.q, 1)
            /\ Return(t, "pdPASS")
            /\ UNCHANGED env
        \/ /\ \A c \in Calls(t, op) : k.xQueues[c.q].xMutexHolder # t
           /\ SemaphoreTake(t, op, "count")
        \/ /\ At(t, op, "count")
           /\ k' = CountCall(frame[t].call.q, 1)
           /\ Return(t, "pdPASS")
           /\ UNCHANGED env

\* The last give of the holder gives the mutex; others may not.
QueueGiveMutexRecursive(t) ==
    \E c \in Calls(t, "xQueueGiveMutexRecursive") :
        /\ IF k.xQueues[c.q].xMutexHolder # t
           THEN k' = k /\ Return(t, "pdFAIL")
           ELSE /\ k' = IF k.xQueues[c.q].uxRecursiveCallCount = 1
                        THEN SendNow(CountCall(c.q, -1), c.q, NULL, "queueSEND_TO_BACK")
                        ELSE CountCall(c.q, -1)
                /\ Return(t, "pdPASS")
        /\ UNCHANGED env

-----------------------------------------------------------------------------
(* Calls that are one critical section, or none. *)

QueueReset(t) == InOneStep(t, "xQueueReset", LAMBDA c : xQueueGenericReset(k, c.q, FALSE))

QueueAddToSet(t) ==
    \E c \in Calls(t, "xQueueAddToSet") :
        LET r == xQueueAddToSet(k, c.q, c.set)
        IN  k' = r.k /\ Return(t, PassFail(r.ret)) /\ UNCHANGED env

QueueRemoveFromSet(t) ==
    \E c \in Calls(t, "xQueueRemoveFromSet") :
        LET r == xQueueRemoveFromSet(k, c.q, c.set)
        IN  k' = r.k /\ Return(t, PassFail(r.ret)) /\ UNCHANGED env

\* The application may only delete a queue nobody waits for.
QueueDelete(t) ==
    \E c \in Calls(t, "vQueueDelete") :
        /\ ToSend(k, c.q) = <<>> /\ ToReceive(k, c.q) = <<>>
        /\ k' = vQueueDelete(k, c.q)
        /\ Return(t, "pdPASS")
        /\ UNCHANGED env

=============================================================================
