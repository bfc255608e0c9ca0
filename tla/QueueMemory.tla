---------------------------- MODULE QueueMemory ----------------------------
(***************************************************************************)
(* The queues of FreeRTOS, which are also its semaphores and its mutexes   *)
(* (src/c_test/FreeRTOS/Source/queue.c), as the functions the calls are    *)
(* built from.  k.xQueues[q] is the Queue_t of q; its two lists of waiting *)
(* tasks are among k.xEventLists.  A queue that carries items is its ring  *)
(* buffer; the storage of a semaphore is empty, and only it has a holder.  *)
(***************************************************************************)
EXTENDS Kernel, Integers

CONSTANTS Queues, configQUEUE_REGISTRY_SIZE

xTasksWaitingToSend(q)    == <<q, "xTasksWaitingToSend">>
xTasksWaitingToReceive(q) == <<q, "xTasksWaitingToReceive">>

queueUNLOCKED          == -1
queueLOCKED_UNMODIFIED == 0

ToSend(k, q)    == k.xEventLists[xTasksWaitingToSend(q)]
ToReceive(k, q) == k.xEventLists[xTasksWaitingToReceive(q)]

\* When a task waits, it is woken; ret: whether it outranks the running one.
WakeOne(k, waiting) ==
    IF k.xEventLists[waiting] # <<>> THEN xTaskRemoveFromEventList(k, waiting) ELSE Ok(k, FALSE)

prvIsQueueEmpty(k, q) == k.xQueues[q].uxMessagesWaiting = 0
prvIsQueueFull(k, q)  == k.xQueues[q].uxMessagesWaiting = k.xQueues[q].uxLength

-----------------------------------------------------------------------------
(* Creating. *)

NoQueue ==
    [uxLength |-> 0, uxItemSize |-> 0, uxQueueType |-> "queue", storage |-> <<>>,
     pcWriteTo |-> 0, pcReadFrom |-> 0, uxMessagesWaiting |-> 0,
     cRxLock |-> queueUNLOCKED, cTxLock |-> queueUNLOCKED,
     xMutexHolder |-> NULL, uxRecursiveCallCount |-> 0, pxQueueSetContainer |-> NULL]

\* A reset queue is empty, so a task that waits to send can go on; the tasks
\* that wait to receive stay.  A new queue gets two empty lists.
Emptied(k, q) ==
    [k EXCEPT !.xQueues[q].uxMessagesWaiting = 0,
              !.xQueues[q].pcWriteTo = 0,
              !.xQueues[q].pcReadFrom = k.xQueues[q].uxLength - 1,
              !.xQueues[q].cRxLock = queueUNLOCKED,
              !.xQueues[q].cTxLock = queueUNLOCKED]
xQueueGenericReset(k, q, xNewQueue) ==
    IF xNewQueue
    THEN [Emptied(k, q) EXCEPT !.xEventLists[xTasksWaitingToSend(q)]    = <<>>,
                               !.xEventLists[xTasksWaitingToReceive(q)] = <<>>]
    ELSE Yielded(WakeOne(Emptied(k, q), xTasksWaitingToSend(q)))

prvInitialiseNewQueue(k, q, uxQueueLength, uxItemSize) ==
    xQueueGenericReset(
        [k EXCEPT !.xQueues[q] =
            [NoQueue EXCEPT !.uxLength   = uxQueueLength,
                            !.uxItemSize = uxItemSize,
                            !.storage    = IF uxItemSize = 0 THEN <<>>
                                           ELSE [i \in 0 .. uxQueueLength - 1 |-> NULL]]],
        q, TRUE)

\* The memory of the queue comes from the heap.
xQueueGenericCreate(k, q, uxQueueLength, uxItemSize) ==
    prvInitialiseNewQueue(configASSERT(k, uxQueueLength > 0, "xQueueGenericCreate"),
                          q, uxQueueLength, uxItemSize)

xQueueCreateCountingSemaphore(k, q, uxMaxCount, uxInitialCount) ==
    [xQueueGenericCreate(configASSERT(k, uxMaxCount # 0 /\ uxInitialCount <= uxMaxCount,
                                      "xQueueCreateCountingSemaphore"),
                         q, uxMaxCount, 0)
        EXCEPT !.xQueues[q].uxMessagesWaiting = uxInitialCount]

Slots == 1 .. configQUEUE_REGISTRY_SIZE
FirstSlot(k, q) ==
    {i \in Slots : k.xQueueRegistry[i] = q /\ \A j \in Slots : k.xQueueRegistry[j] = q => i <= j}

\* The first free slot, if there is one, takes the queue.
vQueueAddToRegistry(k, q) ==
    [k EXCEPT !.xQueueRegistry = [i \in Slots |-> IF i \in FirstSlot(k, NULL) THEN q ELSE @[i]]]

\* The first slot with the queue is cleared.
vQueueUnregisterQueue(k, q) ==
    [k EXCEPT !.xQueueRegistry = [i \in Slots |-> IF i \in FirstSlot(k, q) THEN NULL ELSE @[i]]]

\* The memory goes back to the heap; nothing looks for tasks that still wait.
vQueueDelete(k, q) == [vQueueUnregisterQueue(k, q) EXCEPT !.xQueues[q] = NoQueue]

-----------------------------------------------------------------------------
(* The ring buffer. *)

\* Past the end the pointers go back to the start.
Forward(q, i) == IF i + 1 >= q.uxLength THEN 0 ELSE i + 1
Back(q, i)    == IF i - 1 < 0 THEN q.uxLength - 1 ELSE i - 1

Holds(k, q, count) == [k EXCEPT !.xQueues[q].uxMessagesWaiting = count]

\* ret: whether giving a mutex lowered the priority of the running task.
prvCopyDataToQueue(k, q, item, xPosition) ==
    LET Q     == k.xQueues[q]
        count == IF xPosition = "queueOVERWRITE" /\ Q.uxItemSize # 0 /\ Q.uxMessagesWaiting > 0
                 THEN Q.uxMessagesWaiting ELSE Q.uxMessagesWaiting + 1
        Given(r) == [r EXCEPT !.k.xQueues[q].xMutexHolder = NULL]
        Written  == IF xPosition = "queueSEND_TO_BACK"
                    THEN [Q EXCEPT !.storage[Q.pcWriteTo] = item, !.pcWriteTo = Forward(Q, @)]
                    ELSE [Q EXCEPT !.storage[Q.pcReadFrom] = item, !.pcReadFrom = Back(Q, @)]
    IN  IF Q.uxItemSize # 0 THEN Ok(Holds([k EXCEPT !.xQueues[q] = Written], q, count), FALSE)
        ELSE IF Q.uxQueueType = "mutex"
        THEN Given(xTaskPriorityDisinherit(Holds(k, q, count), Q.xMutexHolder))
        ELSE Ok(Holds(k, q, count), FALSE)

\* pcReadFrom is the item read last: it moves first.
prvCopyDataFromQueue(k, q) ==
    LET Q == k.xQueues[q]
    IN  IF Q.uxItemSize = 0 THEN Ok(k, NULL)
        ELSE Ok([k EXCEPT !.xQueues[q].pcReadFrom = Forward(Q, @)],
                Q.storage[Forward(Q, Q.pcReadFrom)])

-----------------------------------------------------------------------------
(* Telling the tasks that wait. *)

\* Seeded fault: a send while the queue is locked is not counted.
CountNone(k, q) == k
\* A locked queue only counts what came.
CountTx(k, q) == [k EXCEPT !.xQueues[q].cTxLock = @ + 1]
CountRx(k, q) == [k EXCEPT !.xQueues[q].cRxLock = @ + 1]

\* The set a queue belongs to receives the queue itself; ret: whether to yield.
TellSet(copy, set) ==
    IF copy.k.xQueues[set].cTxLock # queueUNLOCKED THEN Ok(CountTx(copy.k, set), copy.ret)
    ELSE [WakeOne(copy.k, xTasksWaitingToReceive(set)) EXCEPT !.ret = @ \/ copy.ret]
prvNotifyQueueSetContainer(k, q) ==
    LET set == k.xQueues[q].pxQueueSetContainer
    IN  IF prvIsQueueFull(k, set) THEN Ok(configASSERT(k, FALSE, "prvNotifyQueueSetContainer"), FALSE)
        ELSE TellSet(prvCopyDataToQueue(k, set, q, "queueSEND_TO_BACK"), set)

\* One item came: the set is told, or else the first task that waits.
TellReceiver(k, q) ==
    IF k.xQueues[q].pxQueueSetContainer # NULL
    THEN prvNotifyQueueSetContainer(k, q)
    ELSE WakeOne(k, xTasksWaitingToReceive(q))

\* A set is not told of an item that only replaced another.
Replaced(k, q, xPosition) ==
    /\ xPosition = "queueOVERWRITE"
    /\ k.xQueues[q].pxQueueSetContainer # NULL
    /\ k.xQueues[q].uxMessagesWaiting # 0

HasRoom(k, q, xPosition) ==
    k.xQueues[q].uxMessagesWaiting < k.xQueues[q].uxLength \/ xPosition = "queueOVERWRITE"

\* What is told of the item that has just been copied, if anything.  Giving a
\* mutex yields for the priority it lost only when no task waited for it.
Tell(copy, q, replaced) ==
    IF replaced THEN Ok(copy.k, FALSE)
    ELSE IF copy.k.xQueues[q].pxQueueSetContainer # NULL \/ ToReceive(copy.k, q) # <<>>
    THEN TellReceiver(copy.k, q)
    ELSE copy

\* The critical section of xQueueGenericSend when there is room.
SendNow(k, q, item, xPosition) ==
    Yielded(Tell(prvCopyDataToQueue(k, q, item, xPosition), q, Replaced(k, q, xPosition)))

\* From an interrupt a locked queue only counts; ret: whether to yield, which a
\* priority lost does not ask for.
TellFromISR(copy, q, replaced) ==
    IF copy.k.xQueues[q].cTxLock # queueUNLOCKED THEN Ok(CountTx(copy.k, q), FALSE)
    ELSE IF replaced THEN Ok(copy.k, FALSE)
    ELSE TellReceiver(copy.k, q)

xQueueGenericSendFromISR(k, q, item, xPosition) ==
    LET k1 == configASSERT(k, xPosition = "queueOVERWRITE" => k.xQueues[q].uxLength = 1,
                           "xQueueGenericSendFromISR")
    IN  IF ~HasRoom(k, q, xPosition) THEN Ok(k1, FALSE)
        ELSE TellFromISR(prvCopyDataToQueue(k1, q, item, xPosition), q, Replaced(k, q, xPosition))

\* A semaphore is given from an interrupt without the mutex's inheritance.
xQueueGiveFromISR(k, q) ==
    LET k1 == configASSERT(configASSERT(k, k.xQueues[q].uxItemSize = 0, "xQueueGiveFromISR: size"),
                           ~(k.xQueues[q].uxQueueType = "mutex" /\ k.xQueues[q].xMutexHolder # NULL),
                           "xQueueGiveFromISR: mutex")
    IN  IF ~HasRoom(k, q, "queueSEND_TO_BACK") THEN Ok(k1, FALSE)
        ELSE TellFromISR(Ok(Holds(k1, q, k.xQueues[q].uxMessagesWaiting + 1), FALSE), q, FALSE)

\* One item fewer: the first task that waits to send is woken.
OneFewer(k, q)   == Holds(k, q, k.xQueues[q].uxMessagesWaiting - 1)
TellSender(k, q) == WakeOne(k, xTasksWaitingToSend(q))

\* The critical section of xQueueReceive when there is an item; ret is the item.
ReceiveNow(k, q) ==
    Ok(Yielded(TellSender(OneFewer(prvCopyDataFromQueue(k, q).k, q), q)),
       prvCopyDataFromQueue(k, q).ret)

RemoveFromISR(k, q) ==
    IF k.xQueues[q].cRxLock = queueUNLOCKED THEN TellSender(k, q) ELSE Ok(CountRx(k, q), FALSE)
xQueueReceiveFromISR(k, q) ==
    IF prvIsQueueEmpty(k, q) THEN Ok(k, FALSE)
    ELSE RemoveFromISR(OneFewer(prvCopyDataFromQueue(k, q).k, q), q)

\* A peek leaves the item, so another task that waits may have it.
PeekNow(k, q) ==
    Ok(Yielded(WakeOne(k, xTasksWaitingToReceive(q))), prvCopyDataFromQueue(k, q).ret)

\* Seeded fault: the mutexes a task holds are not counted.
HeldUncounted(k, q) ==
    IF k.xQueues[q].uxQueueType # "mutex" THEN k
    ELSE [k EXCEPT !.xQueues[q].xMutexHolder = k.pxCurrentTCB]
\* A semaphore is taken; the taker of a mutex becomes its holder.
Held(k, q) ==
    IF k.xQueues[q].uxQueueType # "mutex" THEN k
    ELSE [pvTaskIncrementMutexHeldCount(k) EXCEPT !.xQueues[q].xMutexHolder = k.pxCurrentTCB]
TakeNow(k, q) == Yielded(TellSender(Held(OneFewer(k, q), q), q))

-----------------------------------------------------------------------------
(* Locking. *)

prvLockQueue(k, q) ==
    LET Lock(c) == IF c = queueUNLOCKED THEN queueLOCKED_UNMODIFIED ELSE c
    IN  [k EXCEPT !.xQueues[q].cRxLock = Lock(@), !.xQueues[q].cTxLock = Lock(@)]

\* What came while the queue was locked: one waiting task for each, until none
\* waits.  A woken task that should run at once leaves xYieldPending set.
UnlockTx(k, q) ==
    [FoldLeft(LAMBDA x, i : PendYield(TellReceiver(x, q)), k,
              [i \in 1 .. k.xQueues[q].cTxLock |-> i])
        EXCEPT !.xQueues[q].cTxLock = queueUNLOCKED]

UnlockRx(k, q) ==
    [FoldLeft(LAMBDA x, i : PendYield(TellSender(x, q)), k,
              [i \in 1 .. k.xQueues[q].cRxLock |-> i])
        EXCEPT !.xQueues[q].cRxLock = queueUNLOCKED]

prvUnlockQueue(k, q) == UnlockRx(UnlockTx(k, q), q)

prvGetDisinheritPriorityAfterTimeout(k, q) ==
    IF ToReceive(k, q) = <<>> THEN 0
    ELSE configMAX_PRIORITIES - k.xEventValue[Head(ToReceive(k, q))]

\* The timer task waits for a command only if there is none.
vQueueWaitForMessageRestricted(k, q, xTicksToWait, xWaitIndefinitely) ==
    LET k1 == prvLockQueue(k, q)
    IN  prvUnlockQueue(IF prvIsQueueEmpty(k, q)
                       THEN vTaskPlaceOnEventListRestricted(k1, xTasksWaitingToReceive(q),
                                                            xTicksToWait, xWaitIndefinitely)
                       ELSE k1, q)

-----------------------------------------------------------------------------
(* Mutexes and sets. *)

\* A new mutex is given once; it has no holder yet.
xQueueCreateMutex(k, q) ==
    SendNow([xQueueGenericCreate(k, q, 1, 0)
                EXCEPT !.xQueues[q].uxQueueType          = "mutex",
                       !.xQueues[q].xMutexHolder         = NULL,
                       !.xQueues[q].uxRecursiveCallCount = 0],
            q, NULL, "queueSEND_TO_BACK")

xQueueGetMutexHolder(k, q) ==
    IF k.xQueues[q].uxQueueType = "mutex" THEN k.xQueues[q].xMutexHolder ELSE NULL

xQueueCreateSet(k, q, uxEventQueueLength) == xQueueGenericCreate(k, q, uxEventQueueLength, 1)

xQueueAddToSet(k, q, set) ==
    IF k.xQueues[q].pxQueueSetContainer # NULL \/ ~prvIsQueueEmpty(k, q) THEN Ok(k, FALSE)
    ELSE Ok([k EXCEPT !.xQueues[q].pxQueueSetContainer = set], TRUE)

xQueueRemoveFromSet(k, q, set) ==
    IF k.xQueues[q].pxQueueSetContainer # set \/ ~prvIsQueueEmpty(k, q) THEN Ok(k, FALSE)
    ELSE Ok([k EXCEPT !.xQueues[q].pxQueueSetContainer = NULL], TRUE)

=============================================================================
