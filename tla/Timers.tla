------------------------------- MODULE Timers -------------------------------
(***************************************************************************)
(* Software timers (src/c_test/FreeRTOS/Source/timers.c): the daemon task, *)
(* its command queue, and the calls that send commands to it.              *)
(*                                                                         *)
(* The two lists of timers belong to the daemon alone: the others only     *)
(* send.  A command carries the tick it was given at, so that a timer      *)
(* started while the daemon was kept waiting still counts from there, and  *)
(* the two lists and the tick the daemon saw last tell this side of a wrap *)
(* of the counter from the other.                                          *)
(*                                                                         *)
(* xTimers[m].since, .fired and .early are ghosts: the elapsed tick the    *)
(* timer counts from, how often it expired, and whether it did too early.  *)
(***************************************************************************)
EXTENDS Queues, EventGroups

CONSTANTS
    TimerSet, TimerTask, TimerQueue,
    configUSE_TIMERS, configTIMER_TASK_PRIORITY, configTIMER_QUEUE_LENGTH,
    Callbacks               \* what a timer's callback sends: a command or NULL

NoTimer ==
    [xTimerPeriodInTicks |-> 0, autoreload |-> FALSE, active |-> FALSE, value |-> 0,
     since |-> 0, fired |-> 0, early |-> FALSE]

\* The commands; those from an interrupt do the same.
StartCommands == {"tmrCOMMAND_START", "tmrCOMMAND_RESET", "tmrCOMMAND_START_DONT_TRACE"}
Message(id, m, value, at) ==
    [xMessageID |-> id, pxTimer |-> m, xMessageValue |-> value, at |-> at]

\* What a command's value is: the time, the new period, or nothing.
CommandValue(k1, c) ==
    CASE c.id \in {"tmrCOMMAND_START", "tmrCOMMAND_RESET"} -> k1.xTickCount
      [] c.id = "tmrCOMMAND_CHANGE_PERIOD" -> c.period
      [] OTHER -> 0

CommandMessage(k1, c) == Message(c.id, c.timer, CommandValue(k1, c), k1.elapsed)
\* A function for the daemon to run, with its parameters.
PendedMessage(function) == Message("tmrCOMMAND_EXECUTE_CALLBACK", function, 0, 0)

prvCheckForValidListAndQueue(k1) ==
    IF k1.xTimerQueue # NULL THEN k1
    ELSE vQueueAddToRegistry(
            xQueueGenericCreate([k1 EXCEPT !.pxCurrentTimerList = <<>>, !.pxOverflowTimerList = <<>>,
                                           !.xTimerQueue = TimerQueue],
                                TimerQueue, configTIMER_QUEUE_LENGTH, 1), TimerQueue)

xTimerCreate(k1, m, period, autoreload) ==
    [prvCheckForValidListAndQueue(configASSERT(k1, period > 0, "xTimerCreate"))
        EXCEPT !.xTimers[m] = [NoTimer EXCEPT !.xTimerPeriodInTicks = period,
                                              !.autoreload = autoreload]]

xTimerCreateTimerTask(k1) ==
    xTaskCreate(prvCheckForValidListAndQueue(k1), TimerTask, configTIMER_TASK_PRIORITY)

-----------------------------------------------------------------------------
(* Sending commands. *)

\* The message is made first; then the call is a send to the queue.
Post(t, message, ticks) ==
    /\ Becomes(t, [frame[t] EXCEPT
            !.pc = "try", !.ticks = ticks,
            !.call = [op |-> "xQueueGenericSend", q |-> TimerQueue, item |-> message,
                      position |-> "queueSEND_TO_BACK", ticks |-> ticks]])
    /\ UNCHANGED <<k, env>>

\* A command waits for room only while the scheduler runs.
TimerCommand(t) ==
    \E c \in Calls(t, "xTimerGenericCommand") :
        Post(t, CommandMessage(k, c), IF k.uxSchedulerSuspended = 0 THEN c.ticks ELSE 0)

PendFunctionCall(t) ==
    \E c \in Calls(t, "xTimerPendFunctionCall") : Post(t, PendedMessage(c.function), c.ticks)

\* Before the scheduler runs, and from the daemon, nobody waits.
SendCommand(k1, message) ==
    IF HasRoom(k1, TimerQueue, "queueSEND_TO_BACK")
    THEN SendNow(k1, TimerQueue, message, "queueSEND_TO_BACK") ELSE k1

xTimerGenericCommandFromISR(k1, c) ==
    xQueueGenericSendFromISR(k1, TimerQueue, CommandMessage(k1, c), "queueSEND_TO_BACK")

xTimerPendFunctionCallFromISR(k1, function) ==
    xQueueGenericSendFromISR(k1, TimerQueue, PendedMessage(function), "queueSEND_TO_BACK")

\* An interrupt leaves the bits of a group to the daemon.
xEventGroupSetBitsFromISR(k1, g, bits) ==
    xTimerPendFunctionCallFromISR(k1, [op |-> "vEventGroupSetBitsCallback", g |-> g, bits |-> bits])
xEventGroupClearBitsFromISR(k1, g, bits) ==
    xTimerPendFunctionCallFromISR(k1, [op |-> "vEventGroupClearBitsCallback", g |-> g, bits |-> bits])
vEventGroupSetBitsCallback(k1, c)   == xEventGroupSetBits(vTaskSuspendAll(k1), c.g, c.bits)
vEventGroupClearBitsCallback(k1, c) == xEventGroupClearBits(k1, c.g, c.bits)

\* The daemon may not wait for room in its own queue.
Resend(k1, m, value, at) ==
    SendCommand(configASSERT(k1, HasRoom(k1, TimerQueue, "queueSEND_TO_BACK"), "xTimerGenericCommand"),
                Message("tmrCOMMAND_START_DONT_TRACE", m, value, at))

-----------------------------------------------------------------------------
(* The lists of timers. *)

TimerValue(k1) == [m \in TimerSet |-> k1.xTimers[m].value]
Insert(k1, list, m) == vListInsert(list, m, TimerValue(k1), portMAX_DELAY)

\* Seeded fault: a time past the wrap goes into the current list.
InsertCurrentOnly(k1, m, xNextExpiryTime, xTimeNow, xCommandTime) ==
    LET k2 == [k1 EXCEPT !.xTimers[m].value = xNextExpiryTime]
    IN  Ok([k2 EXCEPT !.pxCurrentTimerList = Insert(k2, @, m)], FALSE)
\* ret: whether the time has come already.  The wrap of the counter between
\* the command and now shows as one of the two being before the other.
prvInsertTimerInActiveList(k1, m, xNextExpiryTime, xTimeNow, xCommandTime) ==
    LET k2     == [k1 EXCEPT !.xTimers[m].value = xNextExpiryTime]
        passed == (xTimeNow + TickMod - xCommandTime) % TickMod
    IN  IF xNextExpiryTime <= xTimeNow
        THEN IF passed >= k1.xTimers[m].xTimerPeriodInTicks THEN Ok(k2, TRUE)
             ELSE Ok([k2 EXCEPT !.pxOverflowTimerList = Insert(k2, @, m)], FALSE)
        ELSE IF xTimeNow < xCommandTime /\ xNextExpiryTime >= xCommandTime THEN Ok(k2, TRUE)
        ELSE Ok([k2 EXCEPT !.pxCurrentTimerList = Insert(k2, @, m)], FALSE)

\* The callback, in the daemon: a command sent with no wait, if any.  The
\* timer counts from the time it was due.
pxCallbackFunction(k1, m) ==
    LET T     == k1.xTimers[m]
        spent == (k1.elapsed + ElapsedMod - T.since) % ElapsedMod
        k2    == [k1 EXCEPT !.xTimers[m].fired = (@ + 1) % TickMod,
                            !.xTimers[m].since = (@ + T.xTimerPeriodInTicks) % ElapsedMod,
                            !.xTimers[m].early = @ \/ spent < T.xTimerPeriodInTicks]
    IN  IF Callbacks[m] = NULL THEN k2 ELSE SendCommand(k2, CommandMessage(k2, Callbacks[m]))

\* Seeded fault: an automatic timer that expired late is not started again.
RestartNever(k1, m, next) == k1
\* An automatic timer is started again from the time it was due.
RestartAuto(k1, m, next) ==
    IF k1.xTimers[m].autoreload THEN Resend(k1, m, next, k1.xTimers[m].since) ELSE k1

\* One timer of the current list, when the counter has wrapped: its time has
\* certainly come.  It is put back until its next time is past the wrap too.
PutBack(k1, m) == [k1 EXCEPT !.pxCurrentTimerList = Insert(k1, @, m)]
Switched(k1, m, next, reload) ==
    IF k1.xTimers[m].autoreload /\ reload > next
    THEN PutBack([k1 EXCEPT !.xTimers[m].value = reload], m)
    ELSE RestartAuto(k1, m, next)
SwitchOne(k1) ==
    LET m    == Head(k1.pxCurrentTimerList)
        next == k1.xTimers[m].value
    IN  Switched(pxCallbackFunction([k1 EXCEPT !.pxCurrentTimerList = Tail(@)], m), m, next,
                 (next + k1.xTimers[m].xTimerPeriodInTicks) % TickMod)

\* A timer is in the list at most once for each tick of the counter.
SwitchEach(k1) ==
    FoldLeft(LAMBDA x, i : IF x.pxCurrentTimerList = <<>> THEN x ELSE SwitchOne(x), k1,
             [i \in 1 .. Cardinality(TimerSet) * TickMod |-> i])
SwapLists(k1) ==
    [k1 EXCEPT !.pxCurrentTimerList  = k1.pxOverflowTimerList,
               !.pxOverflowTimerList = k1.pxCurrentTimerList]
prvSwitchTimerLists(k1) == SwapLists(SwitchEach(k1))

\* ret: whether the lists were switched.
prvSampleTimeNow(k1) ==
    LET wrapped == k1.xTickCount < k1.xLastTime
    IN  Ok([IF wrapped THEN prvSwitchTimerLists(k1) ELSE k1 EXCEPT !.xLastTime = k1.xTickCount],
           wrapped)

-----------------------------------------------------------------------------
(* The daemon.  frame[TimerTask].ticks is xNextExpireTime, .wake xTimeNow   *)
(* and .flag xListWasEmpty.                                                *)

InDaemon(pc) == Running(TimerTask) /\ frame[TimerTask].pc = pc
Daemon == frame[TimerTask]
Step(k1, f) == k' = k1 /\ Becomes(TimerTask, f) /\ UNCHANGED env
ResumeThen(then, else) == [Daemon EXCEPT !.pc = "xTaskResumeAll", !.then = then, !.else = else]

\* prvGetNextExpireTime and the first part of prvProcessTimerOrBlockTask, with
\* the scheduler suspended: the lists may be switched, the first timer may
\* have expired, or else the daemon waits for a command until it does.
prvProcessTimerOrBlockTask ==
    /\ InDaemon("app")
    /\ LET empty  == k.pxCurrentTimerList = <<>>
           next   == IF empty THEN 0 ELSE k.xTimers[Head(k.pxCurrentTimerList)].value
           now    == k.xTickCount
       IN  \E sample \in {prvSampleTimeNow(vTaskSuspendAll(k))} :
           CASE sample.ret -> Step(sample.k, ResumeThen("commands", "commands"))
             [] ~sample.ret /\ ~empty /\ next <= now ->
                    Step(sample.k, [ResumeThen("expired", "expired") EXCEPT !.ticks = next, !.wake = now])
             [] OTHER -> Step(prvLockQueue(sample.k, TimerQueue),
                              [Daemon EXCEPT !.pc = "test",
                                  !.ticks = (next + TickMod - now) % TickMod,
                                  !.flag  = empty /\ k.pxOverflowTimerList = <<>>])

\* vQueueWaitForMessageRestricted after prvLockQueue, as a message may come
\* from an interrupt anywhere in it.
WaitForCommand ==
    \/ /\ InDaemon("test")
       /\ Step(k, [Daemon EXCEPT !.pc = IF prvIsQueueEmpty(k, TimerQueue) THEN "place" ELSE "unlockTx"])
    \/ /\ InDaemon("place")
       /\ Step(vTaskPlaceOnEventListRestricted(k, xTasksWaitingToReceive(TimerQueue),
                                               Daemon.ticks, Daemon.flag),
               [Daemon EXCEPT !.pc = "unlockTx"])
    \/ /\ InDaemon("unlockTx")
       /\ Step(UnlockTx(k, TimerQueue), [Daemon EXCEPT !.pc = "unlockRx"])
    \/ /\ InDaemon("unlockRx")
       /\ Step(UnlockRx(k, TimerQueue), [ResumeThen("commands", "portYIELD") EXCEPT !.flag = FALSE])

\* The timer that had expired when the daemon looked; the time is of then.
prvProcessExpiredTimer ==
    /\ InDaemon("expired")
    /\ LET m    == Head(k.pxCurrentTimerList)
           next == Daemon.ticks
           k1   == [k EXCEPT !.pxCurrentTimerList = Tail(@)]
           r    == prvInsertTimerInActiveList(k1, m, (next + k.xTimers[m].xTimerPeriodInTicks) % TickMod,
                                              Daemon.wake, next)
           due  == (k.xTimers[m].since + k.xTimers[m].xTimerPeriodInTicks) % ElapsedMod
           k2   == IF ~k.xTimers[m].autoreload THEN [k1 EXCEPT !.xTimers[m].active = FALSE]
                   ELSE IF r.ret THEN Resend(r.k, m, next, due) ELSE r.k
       IN  Step(pxCallbackFunction(k2, m), [Daemon EXCEPT !.pc = "commands", !.ticks = 0, !.wake = 0])

\* The next command, which is taken out of the queue before it is looked at.
ReceiveCommand ==
    /\ InDaemon("commands")
    /\ IF prvIsQueueEmpty(k, TimerQueue)
       THEN Step(k, NewFrame)
       ELSE LET r == ReceiveNow(k, TimerQueue)
            IN  Step(r.k, [Daemon EXCEPT !.pc = "command", !.got = r.ret])

\* What a started timer leaves: it waits in a list, or has expired already,
\* and then an automatic one is started again from the time it expired.
Started(k1, message, now) ==
    LET m    == message.pxTimer
        T    == k1.xTimers[m]
        next == (message.xMessageValue + T.xTimerPeriodInTicks) % TickMod
        Fire(r) == IF r.ret THEN RestartAuto(pxCallbackFunction(r.k, m), m, next) ELSE r.k
    IN  Fire(prvInsertTimerInActiveList(
                [k1 EXCEPT !.xTimers[m].active = TRUE, !.xTimers[m].since = message.at],
                m, next, now, message.xMessageValue))

\* The period is the new one at once, counted from now.
PeriodChanged(k1, message, now) ==
    LET m == message.pxTimer
        k2 == [configASSERT(k1, message.xMessageValue > 0, "tmrCOMMAND_CHANGE_PERIOD")
                  EXCEPT !.xTimers[m].active = TRUE,
                         !.xTimers[m].xTimerPeriodInTicks = message.xMessageValue,
                         !.xTimers[m].since = k1.elapsed]
    IN  prvInsertTimerInActiveList(k2, m, (now + message.xMessageValue) % TickMod, now, now).k

\* One command: the timer leaves its list, whatever the command is; then the
\* time is sampled, which may switch the lists.
prvProcessReceivedCommands ==
    \/ ReceiveCommand
    \/ /\ InDaemon("command")
       /\ Daemon.got.xMessageID = "tmrCOMMAND_EXECUTE_CALLBACK"
       /\ LET c == Daemon.got.pxTimer
          IN  IF c.op = "vEventGroupSetBitsCallback"
              THEN Step(vEventGroupSetBitsCallback(k, c),
                        [ResumeThen("commands", "commands") EXCEPT !.got = NULL])
              ELSE Step(vEventGroupClearBitsCallback(k, c),
                        [Daemon EXCEPT !.pc = "commands", !.got = NULL])
    \/ /\ InDaemon("command")
       /\ Daemon.got.xMessageID # "tmrCOMMAND_EXECUTE_CALLBACK"
       /\ LET message == Daemon.got
              m   == message.pxTimer
              out == [k EXCEPT !.pxCurrentTimerList  = Without(@, m),
                               !.pxOverflowTimerList = Without(@, m)]
          IN  \E k1 \in {prvSampleTimeNow(out).k} :
              Step(CASE message.xMessageID \in StartCommands -> Started(k1, message, k.xTickCount)
                     [] message.xMessageID = "tmrCOMMAND_STOP" ->
                            [k1 EXCEPT !.xTimers[m].active = FALSE]
                     [] message.xMessageID = "tmrCOMMAND_CHANGE_PERIOD" ->
                            PeriodChanged(k1, message, k.xTickCount)
                     [] message.xMessageID = "tmrCOMMAND_DELETE" -> [k1 EXCEPT !.xTimers[m] = NoTimer],
                   [Daemon EXCEPT !.pc = "commands", !.got = NULL])

prvTimerTask ==
    /\ configUSE_TIMERS
    /\ \/ prvProcessTimerOrBlockTask
       \/ WaitForCommand
       \/ prvProcessExpiredTimer
       \/ prvProcessReceivedCommands

-----------------------------------------------------------------------------
(* Calls that look at or set one field of a timer. *)

SetReloadMode(t) ==
    InOneStep(t, "vTimerSetReloadMode", LAMBDA c : [k EXCEPT !.xTimers[c.timer].autoreload = c.reload])

IsTimerActive(t) ==
    \E c \in Calls(t, "xTimerIsTimerActive") :
        /\ Return(t, PassFail(k.xTimers[c.timer].active))
        /\ UNCHANGED <<k, env>>

=============================================================================
