------------------------------- MODULE Tasks -------------------------------
(***************************************************************************)
(* Tasks, interrupts and the calls of task.h that run on the scheduler     *)
(* (src/c_test/FreeRTOS/Source/tasks.c, portable/RISC-V/portASM.S).        *)
(*                                                                         *)
(* frame[t] is what task t has on its stack: "app" between calls, else     *)
(* the call it is in and the point it has reached.  Only the task          *)
(* pxCurrentTCB points at takes steps.  A step runs to the next place      *)
(* where an interrupt may come in: the end of a critical section, or of    *)
(* code that runs with the scheduler suspended and that no interrupt       *)
(* could tell from code that ran before it.                                *)
(*                                                                         *)
(* The application is the scenario env.sc: the calls main() makes before   *)
(* it starts the scheduler, a program for each task, and the calls the     *)
(* tick hook may make.  In a program a task chooses one of the calls of    *)
(* its line, and goes to one line or another as the call passed or failed. *)
(***************************************************************************)
EXTENDS Kernel

CONSTANTS
    Scenario                \* name of a scenario -> the scenario

VARIABLES
    k,          \* the scheduler's memory
    frame,      \* the stack of each task
    env         \* the scenario, main()'s place in it, the ticks and hooks left

NewFrame ==
    [pc |-> "app", n |-> 1, call |-> NULL, ret |-> NULL, got |-> NULL, ticks |-> 0, size |-> 0,
     timeout |-> NULL, flag |-> FALSE, then |-> "return", else |-> "return", wake |-> 0]

Running(t) == k.xSchedulerRunning /\ k.pxCurrentTCB = t

\* The lines of its program a task may be at, and the calls it may make.
Program(t) == Scenario[env.sc].script[t]
Calls(t, op) ==
    IF Running(t) /\ frame[t].pc = "app" /\ t \in DOMAIN Scenario[env.sc].script
                  /\ frame[t].n \in DOMAIN Program(t)
    THEN {c \in Program(t)[frame[t].n].calls : c.op = op} ELSE {}

\* The running task is in a call of this name, at this point.
In(t, op)     == frame[t].call # NULL /\ frame[t].call.op = op
At(t, op, pc) == Running(t) /\ frame[t].pc = pc /\ In(t, op)

\* The call under way at pc, or one that begins.
Entering(t, op, pc) == Calls(t, op) \cup (IF At(t, op, pc) THEN {frame[t].call} ELSE {})

Handle(t, c) == IF c.task = NULL THEN t ELSE c.task

\* The application uses no handle of a task that was deleted, in a task or in
\* the hook.
Live(t) == t \in k.allocated /\ ~InState(k.xTasksWaitingTermination, t)

\* What a call's end leaves of the frame.
Returned(t, f, ret) ==
    LET line == Program(t)[f.n]
    IN  [NewFrame EXCEPT !.n    = IF ret = "pdFAIL" THEN line.fail ELSE line.pass,
                         !.ret  = ret,
                         !.got  = f.got,
                         !.wake = f.wake]

Becomes(t, f)  == frame' = [frame EXCEPT ![t] = f]
Return(t, ret) == Becomes(t, Returned(t, [frame[t] EXCEPT !.got = NULL], ret))

\* The frame at its next point, or back in the application.
Goto(t, f, pc) == IF pc = "return" THEN Returned(t, f, f.ret) ELSE [f EXCEPT !.pc = pc]

\* A call that is one critical section.
InOneStep(t, op, F(_)) ==
    \E c \in Calls(t, op) : k' = F(c) /\ Return(t, "pdPASS") /\ UNCHANGED env
\* One that takes the handle of a task.
OnTask(t, op, F(_)) ==
    \E c \in Calls(t, op) :
        Live(Handle(t, c)) /\ k' = F(c) /\ Return(t, "pdPASS") /\ UNCHANGED env

PassFail(b) == IF b THEN "pdPASS" ELSE "pdFAIL"

-----------------------------------------------------------------------------
(* Ends that calls share. *)

\* xTaskResumeAll() at the end of a call, which then yields or not.
ResumeAll(t) ==
    /\ Running(t) /\ frame[t].pc = "xTaskResumeAll"
    /\ \E r \in {xTaskResumeAll(k)} :
           /\ k' = r.k
           /\ Becomes(t, Goto(t, frame[t], IF r.ret THEN frame[t].then ELSE frame[t].else))
    /\ UNCHANGED env

\* portYIELD_WITHIN_API() outside any critical section.
Yield(t) ==
    /\ Running(t) /\ frame[t].pc = "portYIELD"
    /\ k' = portYIELD(k)
    /\ Becomes(t, Goto(t, frame[t], frame[t].then))
    /\ UNCHANGED env

\* A frame that resumes the scheduler and yields if that has not.
Resuming(f, c, then) ==
    [f EXCEPT !.pc = "xTaskResumeAll", !.call = c, !.ret = "pdPASS",
              !.then = then, !.else = "portYIELD"]
ResumeOrYield(t, c) == Resuming(frame[t], c, "return")

\* A frame that only resumes the scheduler, and returns.
ResumeAndReturn(t, c, ret) ==
    [frame[t] EXCEPT !.pc = "xTaskResumeAll", !.call = c, !.ret = ret]

-----------------------------------------------------------------------------
(* Delays. *)

TaskDelay(t) ==
    \E c \in Calls(t, "vTaskDelay") :
        /\ IF c.ticks > 0
           THEN /\ k' = prvAddCurrentTaskToDelayedList(
                            vTaskSuspendAll(configASSERT(k, k.uxSchedulerSuspended = 0, "vTaskDelay")),
                            c.ticks, FALSE)
                /\ Becomes(t, ResumeOrYield(t, c))
           ELSE /\ k' = k
                /\ Becomes(t, [frame[t] EXCEPT !.pc = "portYIELD", !.call = c, !.ret = "pdPASS"])
        /\ UNCHANGED env

\* Whether the next wake time is still to come, the counter possibly wrapped.
xShouldDelay(now, previous, wake) ==
    IF now < previous THEN wake < previous /\ wake > now
    ELSE wake < previous \/ wake > now

TaskDelayUntil(t) ==
    \E c \in Calls(t, "vTaskDelayUntil") :
        LET previous == frame[t].wake
            wake     == (previous + c.ticks) % TickMod
            wait     == (wake + TickMod - k.xTickCount) % TickMod
            k1 == configASSERT(configASSERT(k, c.ticks > 0, "vTaskDelayUntil: increment"),
                               k.uxSchedulerSuspended = 0, "vTaskDelayUntil")
        IN  /\ k' = IF xShouldDelay(k.xTickCount, previous, wake)
                    THEN prvAddCurrentTaskToDelayedList(vTaskSuspendAll(k1), wait, FALSE)
                    ELSE vTaskSuspendAll(k1)
            /\ Becomes(t, [ResumeOrYield(t, c) EXCEPT !.wake = wake])
            /\ UNCHANGED env

\* Interrupts come in after vTaskSuspendAll(); what follows touches no list
\* they could still change, or does so in one critical section.
TaskAbortDelay(t) ==
    \/ \E c \in Calls(t, "xTaskAbortDelay") :
        /\ Live(c.task)
        /\ k' = vTaskSuspendAll(k)
        /\ Becomes(t, [frame[t] EXCEPT !.pc = "eTaskGetState", !.call = c])
        /\ UNCHANGED env
    \/ /\ At(t, "xTaskAbortDelay", "eTaskGetState")
       /\ LET r == xTaskAbortDelay(k, frame[t].call.task)
          IN  /\ k' = r.k
              /\ Becomes(t, ResumeAndReturn(t, frame[t].call, PassFail(r.ret)))
       /\ UNCHANGED env

\* The ticks that passed while the clock was stopped are added to the pended ones.
TaskCatchUpTicks(t) ==
    \E c \in Calls(t, "xTaskCatchUpTicks") :
        /\ k' = [vTaskSuspendAll(configASSERT(k, k.uxSchedulerSuspended = 0, "xTaskCatchUpTicks"))
                    EXCEPT !.xPendedTicks = @ + c.ticks]
        /\ Becomes(t, ResumeAndReturn(t, c, "pdPASS"))
        /\ UNCHANGED env

-----------------------------------------------------------------------------
(* Creating, deleting, suspending and resuming tasks; priorities. *)

\* A new task starts at the first line of its program.
Created(t, c) ==
    frame' = [frame EXCEPT ![t] = Returned(t, frame[t], "pdPASS"), ![c.task] = NewFrame]

TaskCreate(t) ==
    \E c \in Calls(t, "xTaskCreate") :
        /\ c.task \notin k.allocated
        /\ k' = xTaskCreate(k, c.task, c.priority)
        /\ Created(t, c)
        /\ UNCHANGED env

TaskDelete(t) ==
    \E c \in Calls(t, "vTaskDelete") :
        /\ Live(Handle(t, c))
        /\ k' = configASSERT(vTaskDelete(k, Handle(t, c)),
                             Handle(t, c) = t => k.uxSchedulerSuspended = 0, "vTaskDelete")
        /\ IF Handle(t, c) = t
           THEN Becomes(t, [frame[t] EXCEPT !.pc = "portYIELD", !.call = c, !.ret = "pdPASS"])
           ELSE Return(t, "pdPASS")
        /\ UNCHANGED env

\* vTaskSuspend: the lists, then the time of the next unblocking in a critical
\* section of its own, then the yield of a task that suspends itself.
TaskSuspend(t) ==
    \/ \E c \in Calls(t, "vTaskSuspend") :
        /\ Live(Handle(t, c))
        /\ k' = vTaskSuspend(k, Handle(t, c))
        /\ Becomes(t, [frame[t] EXCEPT !.pc = "prvResetNextTaskUnblockTime", !.call = c,
                                       !.ret = "pdPASS"])
        /\ UNCHANGED env
    \/ /\ At(t, "vTaskSuspend", "prvResetNextTaskUnblockTime")
       /\ k' = prvResetNextTaskUnblockTime(
                  configASSERT(k, Handle(t, frame[t].call) = t => k.uxSchedulerSuspended = 0,
                               "vTaskSuspend"))
       /\ Becomes(t, Goto(t, frame[t],
                          IF Handle(t, frame[t].call) = t THEN "portYIELD" ELSE "return"))
       /\ UNCHANGED env

TaskResume(t)      == OnTask(t, "vTaskResume", LAMBDA c : vTaskResume(k, c.task))
TaskPrioritySet(t) ==
    OnTask(t, "vTaskPrioritySet", LAMBDA c : vTaskPrioritySet(k, Handle(t, c), c.priority))

TaskGetHandle(t) ==
    \E c \in Calls(t, "xTaskGetHandle") :
        /\ k' = vTaskSuspendAll(xTaskGetHandle(k, c.task))
        /\ Becomes(t, ResumeAndReturn(t, c, "pdPASS"))
        /\ UNCHANGED env

SuspendAllCall(t) == InOneStep(t, "vTaskSuspendAll", LAMBDA c : vTaskSuspendAll(k))
ResumeAllCall(t)  ==
    /\ k.uxSchedulerSuspended # 0
    /\ InOneStep(t, "xTaskResumeAll", LAMBDA c : xTaskResumeAll(k).k)
YieldCall(t)      == InOneStep(t, "taskYIELD", LAMBDA c : portYIELD(k))

-----------------------------------------------------------------------------
(* Notifications. *)

TaskNotify(t) ==
    OnTask(t, "xTaskGenericNotify", LAMBDA c : xTaskGenericNotify(k, c.task, c.action, c.value))

NotifyStateClear(t) ==
    OnTask(t, "xTaskNotifyStateClear", LAMBDA c : xTaskNotifyStateClear(k, Handle(t, c)))

NotifyValueClear(t) ==
    \E c \in Calls(t, "ulTaskNotifyValueClear") :
        LET r == ulTaskNotifyValueClear(k, Handle(t, c), c.value)
        IN  /\ Live(Handle(t, c))
            /\ k' = r.k
            /\ Becomes(t, Returned(t, [frame[t] EXCEPT !.got = r.ret], "pdPASS"))
            /\ UNCHANGED env

\* The first critical section of a wait: block unless there is no need to.
BeginNotifyWait(t, k1, ready, ticks) ==
    LET k2 == [k1 EXCEPT !.ucNotifyState[t] = "taskWAITING_NOTIFICATION"]
    IN  k' = IF ready THEN k1
             ELSE IF ticks > 0
             THEN portYIELD(prvAddCurrentTaskToDelayedList(k2, ticks, TRUE))
             ELSE k2

NotWaiting(k1, t) == [k1 EXCEPT !.ucNotifyState[t] = "taskNOT_WAITING_NOTIFICATION"]

NotifyTake(t) ==
    \/ \E c \in Calls(t, "ulTaskNotifyTake") :
        /\ BeginNotifyWait(t, k, k.ulNotifiedValue[t] # 0, c.ticks)
        /\ Becomes(t, [frame[t] EXCEPT !.pc = "notified", !.call = c])
        /\ UNCHANGED env
    \/ /\ At(t, "ulTaskNotifyTake", "notified")
       /\ LET value == k.ulNotifiedValue[t]
              left  == IF frame[t].call.clear \/ value = 0 THEN 0 ELSE value - 1
          IN  k' = NotWaiting([k EXCEPT !.ulNotifiedValue[t] = left], t)
       /\ Return(t, PassFail(k.ulNotifiedValue[t] # 0))
       /\ UNCHANGED env

\* The two halves of xTaskNotifyWait, which other calls make too.
NotifyWaitBegin(t, clear, ticks) ==
    LET ready == k.ucNotifyState[t] = "taskNOTIFICATION_RECEIVED"
        k1    == IF ready THEN k
                 ELSE [k EXCEPT !.ulNotifiedValue[t] = ValueOf(BitsOf(@) \ BitsOf(clear))]
    IN  BeginNotifyWait(t, k1, ready, ticks)

NotifyWaitEnd(t, clear) ==
    k' = NotWaiting(IF k.ucNotifyState[t] = "taskNOTIFICATION_RECEIVED"
                    THEN [k EXCEPT !.ulNotifiedValue[t] = ValueOf(BitsOf(@) \ BitsOf(clear))]
                    ELSE k, t)

NotifyWait(t) ==
    \/ \E c \in Calls(t, "xTaskNotifyWait") :
        /\ NotifyWaitBegin(t, c.entry, c.ticks)
        /\ Becomes(t, [frame[t] EXCEPT !.pc = "notified", !.call = c])
        /\ UNCHANGED env
    \/ /\ At(t, "xTaskNotifyWait", "notified")
       /\ NotifyWaitEnd(t, frame[t].call.exit)
       /\ Return(t, PassFail(k.ucNotifyState[t] = "taskNOTIFICATION_RECEIVED"))
       /\ UNCHANGED env

-----------------------------------------------------------------------------
(* The idle task, and interrupts. *)

\* The idle task does nothing but free the tasks that deleted themselves.
prvIdleTask ==
    /\ Running(IdleTask) /\ frame[IdleTask].pc = "app"
    /\ k.uxDeletedTasksWaitingCleanUp > 0
    /\ k' = prvCheckTasksWaitingTermination(k)
    /\ UNCHANGED <<frame, env>>

TaskOpsFromISR ==
    {"xTaskResumeFromISR", "xTaskGenericNotifyFromISR", "vTaskNotifyGiveFromISR"}

\* Every interrupt of this port is a tick: the handler calls
\* xTaskIncrementTick, and vTaskSwitchContext when that says so.
TickInterrupt(vApplicationTickHook(_, _)) ==
    /\ k.xSchedulerRunning /\ env.ticks # 0
    /\ \E c \in env.hooks \cup {NULL} :
            /\ c # NULL /\ c.op \in TaskOpsFromISR => Live(c.task)
            /\ k' = Yielded(xTaskIncrementTick(k, LAMBDA x : IF c = NULL THEN x
                                                             ELSE vApplicationTickHook(x, c)))
            /\ env' = [env EXCEPT !.ticks = IF @ = NULL THEN @ ELSE @ - 1, !.hooks = @ \ {c}]
    /\ UNCHANGED frame

=============================================================================
