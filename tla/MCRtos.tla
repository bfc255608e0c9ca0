------------------------------- MODULE MCRtos -------------------------------
(* Scenarios for Rtos. *)
EXTENDS Rtos

CONSTANTS t1, t2, t3, q1, q2, q3, g1, s1, m1, m2, tq, Only

MDelay(n)       == [op |-> "vTaskDelay", ticks |-> n]
Until(n)       == [op |-> "vTaskDelayUntil", ticks |-> n]
Abort(t)       == [op |-> "xTaskAbortDelay", task |-> t]
Susp(t)        == [op |-> "vTaskSuspend", task |-> t]
Res(t)         == [op |-> "vTaskResume", task |-> t]
Del(t)         == [op |-> "vTaskDelete", task |-> t]
Create(t, p)   == [op |-> "xTaskCreate", task |-> t, priority |-> p]
Prio(t, p)     == [op |-> "vTaskPrioritySet", task |-> t, priority |-> p]
Send(q, x, n)  == [op |-> "xQueueGenericSend", q |-> q, item |-> x, position |-> "queueSEND_TO_BACK", ticks |-> n]
ToFront(q, x, n) == [Send(q, x, n) EXCEPT !.position = "queueSEND_TO_FRONT"]
Over(q, x)     == [Send(q, x, 0) EXCEPT !.position = "queueOVERWRITE"]
Give(q)        == Send(q, NULL, 0)
Recv(q, n)     == [op |-> "xQueueReceive", q |-> q, ticks |-> n]
Peek(q, n)     == [op |-> "xQueuePeek", q |-> q, ticks |-> n]
Take(q, n)     == [op |-> "xQueueSemaphoreTake", q |-> q, ticks |-> n]
TakeR(q, n)    == [op |-> "xQueueTakeMutexRecursive", q |-> q, ticks |-> n]
GiveR(q)       == [op |-> "xQueueGiveMutexRecursive", q |-> q]
Op(o)          == [op |-> o]
OnQ(o, q)      == [op |-> o, q |-> q]
OnG(o, g)      == [op |-> o, g |-> g]
OnM(o, m)      == [op |-> o, timer |-> m]
OnT(o, t)      == [op |-> o, task |-> t]
Start          == [op |-> "vTaskStartScheduler", count |-> 0]
StartAt(n)     == [op |-> "vTaskStartScheduler", count |-> n]
QCreate(q, n)  == [op |-> "xQueueCreate", q |-> q, length |-> n]
Sem(q, n, c)   == [op |-> "xSemaphoreCreateCounting", q |-> q, length |-> n, count |-> c]
Mutex(q)       == [op |-> "xSemaphoreCreateMutex", q |-> q]
ISRSend(q, x)  == [op |-> "xQueueGenericSendFromISR", q |-> q, item |-> x, position |-> "queueSEND_TO_BACK"]
ISRRecv(q)     == [op |-> "xQueueReceiveFromISR", q |-> q]
ISRGive(q)     == [op |-> "xQueueGiveFromISR", q |-> q]
Notify(t,a,v)  == [op |-> "xTaskGenericNotify", task |-> t, action |-> a, value |-> v]
ISRNotify(t,a,v) == [Notify(t,a,v) EXCEPT !.op = "xTaskGenericNotifyFromISR"]
NTake(c, n)    == [op |-> "ulTaskNotifyTake", clear |-> c, ticks |-> n]
NWait(e, x, n) == [op |-> "xTaskNotifyWait", entry |-> e, exit |-> x, ticks |-> n]

Set(g, b)      == [op |-> "xEventGroupSetBits", g |-> g, bits |-> b]
ClearG(g, b)   == [op |-> "xEventGroupClearBits", g |-> g, bits |-> b]
WaitG(g, b, c, a, n) ==
    [op |-> "xEventGroupWaitBits", g |-> g, bits |-> b, clear |-> c, all |-> a, ticks |-> n]
SyncG(g, b, all, n) == [op |-> "xEventGroupSync", g |-> g, set |-> {b}, bits |-> all, ticks |-> n]
SSend(b, n)    == [op |-> "xStreamBufferSend", s |-> s1, bytes |-> b, ticks |-> n]
SRecv(l, n)    == [op |-> "xStreamBufferReceive", s |-> s1, length |-> l, ticks |-> n]
OnS(o)         == [op |-> o, s |-> s1]
SMake(n, l, m) == [op |-> "xStreamBufferGenericCreate", s |-> s1, size |-> n, trigger |-> l, message |-> m]
ISRSSend(b)    == [op |-> "xStreamBufferSendFromISR", s |-> s1, bytes |-> b]
ISRSRecv(l)    == [op |-> "xStreamBufferReceiveFromISR", s |-> s1, length |-> l]
TMake(m, p, r) == [op |-> "xTimerCreate", timer |-> m, period |-> p, reload |-> r]
TCmd(id, m, n) == [op |-> "xTimerGenericCommand", id |-> "tmrCOMMAND_" \o id, timer |-> m, ticks |-> n]
TPeriod(m, p, n) == [period |-> p] @@ TCmd("CHANGE_PERIOD", m, n)
TPend(f, n)    == [op |-> "xTimerPendFunctionCall", function |-> f, ticks |-> n]
PSet(g, b)     == [op |-> "vEventGroupSetBitsCallback", g |-> g, bits |-> b]
FromHook(c)    == [c EXCEPT !.op = "xTimerGenericCommandFromISR"]

\* A program: one set of calls a line.
P(lines) == [n \in DOMAIN lines |-> [calls |-> lines[n], pass |-> n + 1, fail |-> n + 1]]
\* On failure line n goes on at to.
OnFail(p, n, to) == [p EXCEPT ![n].fail = to]
Loop(p, n, to) == [p EXCEPT ![n].pass = to, ![n].fail = to]
Rest_ == Susp(NULL)
Rest == {Rest_}
Reg(q) == OnQ("vQueueAddToRegistry", q)
Catch(n) == [op |-> "xTaskCatchUpTicks", ticks |-> n]
Clear(t, v) == [op |-> "ulTaskNotifyValueClear", task |-> t, value |-> v]
IntoSet(q) == [op |-> "xQueueAddToSet", q |-> q, set |-> q3]

Sc(main, script, ticks, hooks) ==
    [main |-> main, count |-> main[Len(main)].count, script |-> script, ticks |-> ticks, hooks |-> hooks]
ThreeTasks == << Create(t1, 1), Create(t2, 2), Create(t3, 3), Start >>

\* A queue of one, fed and drained by tasks and by the hook.
QueueOfOne ==
    Sc(<< QCreate(q1, 1) >> \o ThreeTasks,
       t1 :> P(<< {Send(q1, "x", 2), ToFront(q1, "x", 7)}, {Over(q1, "y"), Recv(q1, 0)}, Rest >>)
    @@ t2 :> P(<< {Recv(q1, 1), Send(q1, "y", 1)}, {Recv(q1, 2)}, Rest >>)
    @@ t3 :> P(<< {Recv(q1, 7)}, Rest >>),
       3, {ISRSend(q1, "y"), ISRRecv(q1)})

\* A queue of two: order, a peek, a reset.
QueueOfTwo ==
    Sc(<< QCreate(q1, 2), Reg(q1) >> \o ThreeTasks,
       t1 :> P(<< {Send(q1, "x", 0)}, {Send(q1, "y", 0), ToFront(q1, "y", 0)}, {Send(q1, "x", 7)},
                  {OnQ("xQueueReset", q1), Recv(q1, 0)}, Rest >>)
    @@ t2 :> P(<< {Peek(q1, 1), Peek(q1, 7), MDelay(1)}, {Recv(q1, 1)}, Rest >>)
    @@ t3 :> P(<< {Peek(q1, 7), MDelay(1)}, {Recv(q1, 7)}, {OnQ("vQueueDelete", q1), MDelay(1)}, Rest >>),
       2, {ISRRecv(q1)})

\* A mutex that a low task holds and two higher ones want, for a time or for ever.
OneMutex ==
    Sc(<< Mutex(q1) >> \o ThreeTasks,
       t1 :> OnFail(P(<< {Take(q1, 1)}, {Give(q1)}, Rest >>), 1, 3)
    @@ t2 :> OnFail(P(<< {MDelay(1), MDelay(2)}, {Take(q1, 2), Take(q1, 7)}, {Give(q1)}, Rest >>), 2, 4)
    @@ t3 :> OnFail(P(<< {MDelay(1), MDelay(2)}, {Take(q1, 1), Take(q1, 7)}, {Give(q1)}, Rest >>), 2, 4),
       4, {})

\* Two mutexes, given back in the order opposite to the one they were taken in.
TwoMutexes ==
    Sc(<< Mutex(q1), Mutex(q2) >> \o ThreeTasks,
       t1 :> OnFail(OnFail(P(<< {Take(q1, 0)}, {Take(q2, 0)}, {Give(q2)}, {Give(q1)}, Rest >>), 2, 4), 1, 5)
    @@ t2 :> OnFail(P(<< {MDelay(1)}, {Take(q1, 2), Take(q1, 1)}, {Give(q1)}, Rest >>), 2, 4)
    @@ t3 :> OnFail(P(<< {MDelay(2), MDelay(1)}, {Take(q2, 1), Take(q2, 7)}, {Give(q2)}, Rest >>), 2, 4),
       4, {})

\* A recursive mutex.
Recursive ==
    Sc(<< Mutex(q1) >> \o ThreeTasks,
       t1 :> P(<< {TakeR(q1, 0)}, {TakeR(q1, 0)}, {GiveR(q1)}, {GiveR(q1)}, {GiveR(q1)}, Rest >>)
    @@ t2 :> OnFail(P(<< {MDelay(1)}, {TakeR(q1, 1), TakeR(q1, 7)}, {GiveR(q1)}, Rest >>), 2, 4)
    @@ t3 :> OnFail(P(<< {MDelay(1)}, {TakeR(q1, 1)}, {GiveR(q1)}, Rest >>), 2, 4),
       4, {})

\* A counting semaphore given by tasks and by the hook.
Counting ==
    Sc(<< Sem(q1, 2, 1) >> \o ThreeTasks,
       t1 :> P(<< {Give(q1), Op("taskYIELD")}, {Give(q1)}, Rest >>)
    @@ t2 :> P(<< {Take(q1, 1), Take(q1, 7)}, {Take(q1, 1)}, Rest >>)
    @@ t3 :> P(<< {Take(q1, 7)}, {Take(q1, 2)}, Rest >>),
       3, {ISRGive(q1)})

\* Delays over the wrap of the tick counter, cut short, suspended and resumed.
Delays ==
    Sc(<< Create(t1, 1), Create(t2, 2), Create(t3, 2), StartAt(5) >>,
       t1 :> P(<< {Abort(t2), Susp(t3), Res(t2)}, {Res(t3), OnT("xTaskGetHandle", t2)}, {MDelay(0)} >>)
    @@ t2 :> P(<< {MDelay(6), Until(7)}, {Until(4)}, Rest >>)
    @@ t3 :> P(<< {MDelay(3), Rest_}, {Until(1), Catch(2)}, Rest >>),
       4, {[op |-> "xTaskResumeFromISR", task |-> t3]})

\* Notifications of tasks and of the hook, waits with and without a time.
Notifications ==
    Sc(ThreeTasks,
       t1 :> P(<< {Notify(t2, "eIncrement", 0), Notify(t2, "eSetBits", 1)}, {Op("vTaskSuspendAll")},
                  {Notify(t3, "eSetValueWithOverwrite", 2), Notify(t3, "eSetValueWithoutOverwrite", 3)},
                  {Op("xTaskResumeAll")}, {Notify(t3, "eNoAction", 0)}, Rest >>)
    @@ t2 :> P(<< {NTake(TRUE, 2), NTake(FALSE, 7), NTake(FALSE, 0)}, {NTake(TRUE, 1)}, Rest >>)
    @@ t3 :> P(<< {NWait(1, 2, 7), NWait(0, 3, 2)}, {OnT("xTaskNotifyStateClear", NULL), Clear(t2, 1)}, Rest >>),
       2, {OnT("vTaskNotifyGiveFromISR", t2), ISRNotify(t3, "eSetBits", 2)})

\* Tasks that create, delete, and delete themselves.
Lifecycle ==
    Sc(<< Create(t1, 2), Create(t2, 1), Start >>,
       t1 :> P(<< {Create(t3, 3), Create(t3, 1)}, {MDelay(1)}, {Del(t2), Del(t3), Del(NULL)}, {MDelay(2)},
                  {Create(t3, 1), Create(t2, 3)}, Rest >>)
    @@ t2 :> P(<< {MDelay(1), Susp(NULL)}, {Del(NULL)} >>)
    @@ t3 :> P(<< {MDelay(2), Del(NULL), Susp(t2)}, Rest >>),
       4, {})

\* Priorities changed while tasks wait, run and are ready.
PriorityChanges ==
    Sc(<< QCreate(q1, 1) >> \o ThreeTasks,
       t1 :> P(<< {Prio(t2, 4), Prio(t2, 0), Prio(NULL, 3)}, {Send(q1, "x", 0)}, {Prio(t3, 1), Send(q1, "x", 0)}, Rest >>)
    @@ t2 :> P(<< {Recv(q1, 2), MDelay(1)}, {Prio(NULL, 1), Prio(t1, 4)}, Rest >>)
    @@ t3 :> P(<< {Recv(q1, 7), MDelay(2)}, Rest >>),
       3, {})

\* A set of a queue and a semaphore.
Sets ==
    Sc(<< QCreate(q1, 1), Sem(q2, 1, 0), [op |-> "xQueueCreateSet", q |-> q3, length |-> 2], IntoSet(q1) >>
          \o ThreeTasks,
       t1 :> P(<< {Send(q1, "x", 0), Give(q2)}, {Give(q2), Send(q1, "x", 2)}, Rest >>)
    @@ t2 :> P(<< {MDelay(1)}, {Send(q1, "y", 1)}, Rest >>)
    @@ t3 :> P(<< {IntoSet(q2)}, {Recv(q3, 2), Recv(q3, 7)}, {Recv(q1, 0)}, {Recv(q3, 1)},
                  {[IntoSet(q2) EXCEPT !.op = "xQueueRemoveFromSet"]}, Rest >>),
       2, {ISRGive(q2), ISRSend(q1, "y")})

\* Event bits set by tasks, by the hook through the daemon, and waited for.
Events ==
    Sc(<< [op |-> "xEventGroupCreate", g |-> g1] >> \o ThreeTasks,
       t1 :> P(<< {Set(g1, {1}), TPend(PSet(g1, {2}), 1)}, {ClearG(g1, {1}), Set(g1, {1, 2})}, Rest >>)
    @@ t2 :> P(<< {WaitG(g1, {1, 2}, TRUE, TRUE, 7), WaitG(g1, {1}, TRUE, TRUE, 2)}, Rest >>)
    @@ t3 :> P(<< {WaitG(g1, {1, 2}, FALSE, FALSE, 2), WaitG(g1, {2}, TRUE, TRUE, 7)},
                  {WaitG(g1, {1}, TRUE, TRUE, 0)}, Rest >>),
       2, {[Set(g1, {1}) EXCEPT !.op = "xEventGroupSetBitsFromISR"],
           [ClearG(g1, {2}) EXCEPT !.op = "xEventGroupClearBitsFromISR"]})

\* A group deleted while tasks wait for its bits.
GroupDeleted ==
    Sc(<< [op |-> "xEventGroupCreate", g |-> g1] >> \o ThreeTasks,
       t1 :> P(<< {Set(g1, {1}), MDelay(1)}, {OnG("vEventGroupDelete", g1)}, Rest >>)
    @@ t2 :> P(<< {WaitG(g1, {1, 2}, TRUE, TRUE, 7)}, Rest >>)
    @@ t3 :> P(<< {WaitG(g1, {1}, FALSE, FALSE, 7)}, Rest >>),
       2, {})

\* Three tasks that meet twice, or give up after a tick.
Barrier ==
    LET Meet(b) == {SyncG(g1, b, {1, 2, 3}, n) : n \in {1, 7}}
    IN  Sc(<< [op |-> "xEventGroupCreate", g |-> g1] >> \o ThreeTasks,
           t1 :> P(<< Meet(1), Meet(1), Rest >>)
        @@ t2 :> P(<< Meet(2), Meet(2), Rest >>)
        @@ t3 :> P(<< Meet(3), Meet(3), Rest >>),
           3, {})

\* A stream from a task to a task, with a trigger level.
StreamToTask ==
    Sc(<< SMake(3, 2, FALSE) >> \o ThreeTasks,
       t1 :> P(<< {SSend(<<1, 2>>, 1), SSend(<<1>>, 0)}, {SSend(<<3, 4>>, 2), SSend(<<3, 4>>, 7)}, Rest >>)
    @@ t2 :> P(<< Rest >>)
    @@ t3 :> P(<< {SRecv(1, 2), SRecv(2, 7), MDelay(1)}, {SRecv(2, 1), OnS("xStreamBufferReset")}, {SRecv(3, 2)}, Rest >>),
       4, {})

\* A stream from the hook to a task, and from a task to the hook.
StreamFromHook ==
    Sc(<< SMake(2, 1, FALSE) >> \o ThreeTasks,
       t1 :> P(<< {SRecv(1, 1), SRecv(2, 7)}, {SRecv(2, 2)}, Rest >>)
    @@ t2 :> P(<< {MDelay(1)}, Rest >>) @@ t3 :> P(<< Rest >>),
       3, {ISRSSend(<<1>>), ISRSSend(<<2, 3>>), ISRSSend(<<4>>)})
StreamToHook ==
    Sc(<< SMake(2, 1, FALSE) >> \o ThreeTasks,
       t1 :> P(<< {SSend(<<1, 2>>, 1), SSend(<<1>>, 7)}, {SSend(<<3, 4>>, 2), SSend(<<3>>, 7)}, Rest >>)
    @@ t2 :> P(<< {MDelay(1)}, Rest >>) @@ t3 :> P(<< Rest >>),
       3, {ISRSRecv(1), ISRSRecv(2), OnS("xStreamBufferReceiveCompletedFromISR")})

\* Messages from one task to another, and to the hook.
Messages ==
    Sc(<< SMake(9, 1, TRUE) >> \o ThreeTasks,
       t1 :> P(<< {SSend(<<1>>, 0), SSend(<<1, 2>>, 7)}, {SSend(<<3>>, 2), SSend(<<3, 4>>, 7)}, Rest >>)
    @@ t2 :> P(<< Rest >>)
    @@ t3 :> P(<< {SRecv(2, 1), SRecv(2, 7)}, {MDelay(1)}, {SRecv(1, 1)}, {SRecv(2, 0)}, Rest >>),
       3, {})
MessagesToHook ==
    Sc(<< SMake(9, 1, TRUE) >> \o ThreeTasks,
       t1 :> P(<< {SSend(<<1>>, 0), SSend(<<1, 2>>, 7)}, {SSend(<<3>>, 2), SSend(<<3, 4>>, 7)}, Rest >>)
    @@ t2 :> P(<< {MDelay(1)}, Rest >>) @@ t3 :> P(<< Rest >>),
       3, {ISRSRecv(2), ISRSRecv(1), [ISRSRecv(2) EXCEPT !.length = 3]})

\* Messages that are all there when their lengths are asked for.
LengthsKnown ==
    Sc(<< SMake(9, 1, TRUE) >> \o ThreeTasks,
       t1 :> P(<< {OnS("xStreamBufferNextMessageLengthBytes"), [level |-> 2] @@ OnS("xStreamBufferSetTriggerLevel")},
                  {SRecv(1, 0), SRecv(2, 0)}, {OnS("xStreamBufferNextMessageLengthBytes"), SRecv(2, 1)},
                  {OnS("vStreamBufferDelete")}, Rest >>)
    @@ t2 :> P(<< Rest >>)
    @@ t3 :> P(<< {SSend(<<1>>, 0), SSend(<<1, 2>>, 0), MDelay(2)}, Rest >>),
       3, {})

\* Timers started, stopped and changed, near the wrap of the counter.
Timing ==
    Sc(<< TMake(m1, 2, TRUE), TMake(m2, 3, FALSE), Create(t1, 1), StartAt(5) >>,
       t1 :> P(<< {TCmd("START", m1, 0), TCmd("START", m2, 0)}, {TPeriod(m1, 1, 0), TCmd("STOP", m1, 1)},
                  {TCmd("RESET", m2, 1)}, Rest >>),
       4, {})

\* A timer that runs from before the scheduler starts, commanded by the hook.
TimersAndHook ==
    Sc(<< TMake(m1, 1, TRUE), TMake(m2, 2, FALSE), TCmd("START", m1, 0), Create(t1, 1), StartAt(6) >>,
       t1 :> P(<< {OnM("xTimerIsTimerActive", m1), [reload |-> FALSE] @@ OnM("vTimerSetReloadMode", m1)},
                  {TCmd("START", m2, 0), TCmd("DELETE", m2, 0)}, Rest >>),
       3, {FromHook(TCmd("RESET", m1, 0))})

\* The length of the next message asked for while a message is being written.
LengthAsked ==
    Sc(<< SMake(9, 1, TRUE) >> \o ThreeTasks,
       t1 :> P(<< {SSend(<<1>>, 0)}, Rest >>)
    @@ t2 :> P(<< Rest >>)
    @@ t3 :> P(<< {MDelay(1)}, {OnS("xStreamBufferNextMessageLengthBytes")}, Rest >>),
       2, {})

\* Messages that come while their lengths are asked for.
LengthPutBack ==
    Sc(<< SMake(9, 1, TRUE) >> \o ThreeTasks,
       t1 :> P(<< {OnS("xStreamBufferNextMessageLengthBytes")}, {SRecv(1, 0)}, Rest >>)
    @@ t2 :> P(<< {MDelay(1)}, Rest >>) @@ t3 :> P(<< Rest >>),
       3, {ISRSSend(<<1>>), ISRSSend(<<2, 3>>)})

\* The waiter of a mutex is given a higher priority and then gives up.
WaiterRaised ==
    Sc(<< Mutex(q1), Create(t1, 1), Create(t2, 4), Create(t3, 3), Start >>,
       t1 :> P(<< {Take(q1, 0)}, {Op("taskYIELD")} >>)
    @@ t2 :> P(<< {MDelay(2)}, {Prio(t3, 4)}, Rest >>)
    @@ t3 :> P(<< {MDelay(1)}, {Take(q1, 2)}, Rest >>),
       4, {})

\* An urgent task blocks while it holds the mutex; the others wait for ever.
SleepingHolder ==
    Sc(<< Mutex(q1) >> \o ThreeTasks,
       t1 :> OnFail(P(<< {Take(q1, 0), Take(q1, 1)}, {Give(q1)}, Rest >>), 1, 3)
    @@ t2 :> P(<< {MDelay(1)}, {Take(q1, 7)}, {Give(q1)}, Rest >>)
    @@ t3 :> OnFail(P(<< {MDelay(1), MDelay(2)}, {Take(q1, 0), Take(q1, 1)}, {MDelay(1)}, {Give(q1)}, Rest >>), 2, 5),
       5, {})

\* The same holder, and a waiter whose time is over when it takes the mutex.
LenderTimedOut ==
    Sc(<< Mutex(q1) >> \o ThreeTasks,
       t1 :> OnFail(P(<< {Take(q1, 0)}, {Give(q1)}, Rest >>), 1, 3)
    @@ t2 :> OnFail(P(<< {MDelay(1)}, {Take(q1, 1)}, {Give(q1)}, Rest >>), 2, 4)
    @@ t3 :> OnFail(P(<< {MDelay(4)}, {Take(q1, 0)}, {MDelay(1)}, {Give(q1)}, Rest >>), 2, 5),
       5, {})

\* A task that gives two mutexes and has its priority back with the second.
GiveTwo ==
    Sc(<< Mutex(q1), Mutex(q2), Create(t1, 1), Create(t2, 1), Create(t3, 3), Start >>,
       t1 :> P(<< {Take(q1, 7)}, {Take(q2, 7)}, {Give(q2)}, {Give(q1)}, {Op("taskYIELD")} >>)
    @@ t2 :> P(<< {Take(q1, 7)}, {Give(q1)}, Rest >>)
    @@ t3 :> P(<< {MDelay(1), MDelay(2)}, {Take(q2, 7)}, {Give(q2)}, Rest >>),
       4, {})

All == [QueueOfOne |-> QueueOfOne, QueueOfTwo |-> QueueOfTwo, OneMutex |-> OneMutex,
        TwoMutexes |-> TwoMutexes, Recursive |-> Recursive, Counting |-> Counting,
        Delays |-> Delays, Notifications |-> Notifications, Lifecycle |-> Lifecycle,
        PriorityChanges |-> PriorityChanges, Sets |-> Sets,
        Events |-> Events, GroupDeleted |-> GroupDeleted, Barrier |-> Barrier, StreamToTask |-> StreamToTask,
        StreamFromHook |-> StreamFromHook, StreamToHook |-> StreamToHook, Messages |-> Messages,
        MessagesToHook |-> MessagesToHook, LengthsKnown |-> LengthsKnown, Timing |-> Timing,
        TimersAndHook |-> TimersAndHook, LengthAsked |-> LengthAsked, LengthPutBack |-> LengthPutBack,
        WaiterRaised |-> WaiterRaised, GiveTwo |-> GiveTwo, SleepingHolder |-> SleepingHolder,
        LenderTimedOut |-> LenderTimedOut]

Selected == [n \in Only |-> All[n]]
QEvents == (Queues \X {"xTasksWaitingToSend", "xTasksWaitingToReceive"})
             \cup (Groups \X {"xTasksWaitingForBits"})
TimerCallbacks == [m \in TimerSet |-> IF m = m2 THEN TCmd("START", m1, 0) ELSE NULL]
=============================================================================
