----------------------------- MODULE Rtos_proofs -----------------------------
(***************************************************************************)
(* The scheduler under every program that keeps to the calls of task.h,    *)
(* whatever the number of tasks and of priorities, the width of the tick   *)
(* counter and the programs themselves: proofs.                            *)
(*                                                                         *)
(* Rtos_proofs says what the running system is between two steps, and that *)
(* every action keeps it; what a function of the scheduler does to the     *)
(* lists is proved in Kernel_proofs.                                       *)
(***************************************************************************)
EXTENDS Rtos, Kernel_proofs, FiniteSetTheorems

-----------------------------------------------------------------------------
(* The programs. *)

\* A call of task.h, with a handle that may be given to it: the idle task is
\* not delayed, suspended or deleted.
ProgramCall(c) ==
    \/ c.op \in {"taskYIELD", "vTaskSuspendAll", "xTaskResumeAll"}
    \/ /\ c.op \in {"vTaskDelay", "vTaskDelayUntil", "ulTaskNotifyTake", "xTaskNotifyWait"}
       /\ c.ticks \in Ticks
    \/ c.op = "xTaskCatchUpTicks" /\ c.ticks \in Nat
    \/ c.op = "xTaskCreate" /\ c.task \in Tasks \ {IdleTask} /\ c.priority \in Priorities
    \/ c.op \in {"vTaskDelete", "vTaskSuspend"} /\ c.task \in (Tasks \ {IdleTask}) \cup {NULL}
    \/ c.op = "vTaskPrioritySet" /\ c.task \in Tasks \cup {NULL} /\ c.priority \in Priorities
    \/ c.op \in {"vTaskResume", "xTaskAbortDelay", "xTaskGenericNotify", "xTaskGetHandle"} /\ c.task \in Tasks
    \/ c.op \in {"xTaskNotifyStateClear", "ulTaskNotifyValueClear"} /\ c.task \in Tasks \cup {NULL}

\* main() creates the tasks, each once, and starts the scheduler.
MainCreates(main) ==
    /\ Len(main) \in Nat \ {0}
    /\ main[Len(main)].op = "vTaskStartScheduler"
    /\ \A i \in 1 .. Len(main) - 1 :
        /\ main[i].op = "xTaskCreate"
        /\ main[i].task \in Tasks \ {IdleTask} /\ main[i].priority \in Priorities
        /\ \A j \in 1 .. Len(main) - 1 : i # j => main[i].task # main[j].task

TaskProgram(s) ==
    /\ s.count \in Ticks
    /\ MainCreates(s.main)
    /\ DOMAIN s.script \subseteq Tasks \ {IdleTask}
    /\ \A t \in DOMAIN s.script : \A i \in DOMAIN s.script[t] : \A c \in s.script[t][i].calls : ProgramCall(c)
    /\ \A c \in s.hooks : c.op \in TaskOpsFromISR /\ c.task \in Tasks

\* The scenarios the theorems are about.
TaskPrograms == {name \in DOMAIN Scenario : TaskProgram(Scenario[name])}

-----------------------------------------------------------------------------
(* Between two steps. *)

\* What a task of such a program has on its stack.
Pcs == {"app", "xTaskResumeAll", "portYIELD", "prvResetNextTaskUnblockTime", "notified", "eTaskGetState"}
FrameOK(f) ==
    /\ DOMAIN f = DOMAIN NewFrame
    /\ f.pc \in Pcs /\ f.then = "return" /\ f.else \in {"return", "portYIELD"} /\ f.wake \in Ticks
    /\ f.pc = "eTaskGetState" => f.call.task \in Tasks

\* The call ends with a yield: until then the task may run although it is
\* delayed, suspended or deleted.
Settling(t, f) ==
    \/ f.pc = "portYIELD"
    \/ f.pc = "prvResetNextTaskUnblockTime" /\ Handle(t, f.call) = t
    \/ f.pc = "xTaskResumeAll" /\ f.else = "portYIELD"

Settler(x, fr) == IF Settling(x.pxCurrentTCB, fr[x.pxCurrentTCB]) THEN x.pxCurrentTCB ELSE NULL

\* Only the running task is in a call that has suspended the scheduler.
Frames(x, fr) ==
    /\ DOMAIN fr = Tasks
    /\ \A t \in Tasks :
        /\ FrameOK(fr[t])
        /\ fr[t].pc \in {"xTaskResumeAll", "eTaskGetState"} => t = x.pxCurrentTCB /\ x.uxSchedulerSuspended # 0

System(x, fr) == Run(x, Settler(x, fr)) /\ Frames(x, fr) /\ x.xSchedulerRunning

\* Before the scheduler runs: the tasks main() has created are ready.
Booting(x, fr, name, n) ==
    /\ Boot(x) /\ Frames(x, fr)
    /\ n \in 1 .. Len(Scenario[name].main)
    /\ x.allocated = {Scenario[name].main[i].task : i \in 1 .. n - 1}

EnvOK ==
    /\ DOMAIN env = {"sc", "main", "ticks", "hooks"}
    /\ env.sc \in TaskPrograms
    /\ env.hooks \subseteq Scenario[env.sc].hooks

\* The inductive invariant.
SystemOK == EnvOK /\ (System(k, frame) \/ Booting(k, frame, env.sc, env.main))

\* One step of a running task, and what it leaves of the environment.
Carried == System(k', frame') /\ UNCHANGED env

-----------------------------------------------------------------------------
(* Frames. *)

LEMMA NewFrameOK == FrameOK(NewFrame) /\ NewFrame.pc = "app"
BY Numbers DEF FrameOK, NewFrame, Pcs, Ticks

LEMMA ReturnedOK ==
    ASSUME NEW t, NEW f, f.wake \in Ticks, NEW ret
    PROVE  FrameOK(Returned(t, f, ret)) /\ Returned(t, f, ret).pc = "app"
BY DEF FrameOK, NewFrame, Pcs, Returned

\* The running task's step is carried out: either the right task runs, or the
\* same one does and is on its way to yield.
LEMMA StepOK ==
    ASSUME NEW x, NEW fr, Frames(x, fr), NEW t \in Tasks, t = x.pxCurrentTCB, NEW f, FrameOK(f), NEW y,
           y.xSchedulerRunning,
           Run(y, NULL) \/ (Run(y, t) /\ y.pxCurrentTCB = t /\ Settling(t, f)),
           f.pc \in {"xTaskResumeAll", "eTaskGetState"} => y.pxCurrentTCB = t /\ y.uxSchedulerSuspended # 0
    PROVE  System(y, [fr EXCEPT ![t] = f])
<1> DEFINE gr == [fr EXCEPT ![t] = f]
<1>1. DOMAIN gr = Tasks /\ gr[t] = f /\ \A u \in Tasks : u # t => gr[u] = fr[u]
    BY DEF Frames
<1> HIDE DEF gr
<1>2. Frames(y, gr)
    BY <1>1 DEF Frames
<1>3. Run(y, Settler(y, gr))
    <2>1. CASE Run(y, NULL)
        BY <2>1, FineForAll DEF Run
    <2>2. CASE Run(y, t) /\ y.pxCurrentTCB = t /\ Settling(t, f)
        BY <1>1, <2>2 DEF Settler
    <2> QED BY <2>1, <2>2
<1> QED BY <1>2, <1>3 DEF System, gr

\* A call that begins: its caller is the running task, which is not on its way
\* to yield.
LEMMA CallBegins ==
    ASSUME EnvOK, System(k, frame) \/ Booting(k, frame, env.sc, env.main), NEW t \in Tasks, NEW op,
           NEW c \in Calls(t, op)
    PROVE  /\ System(k, frame) /\ Run(k, NULL) /\ Frames(k, frame) /\ k.xSchedulerRunning
           /\ t = k.pxCurrentTCB /\ t # IdleTask /\ FrameOK(frame[t])
           /\ ProgramCall(c) /\ c.op = op
<1>1. /\ Running(t) /\ frame[t].pc = "app" /\ t \in DOMAIN Scenario[env.sc].script /\ frame[t].n \in DOMAIN Program(t)
      /\ c \in Program(t)[frame[t].n].calls /\ c.op = op
    BY DEF Calls
<1>2. System(k, frame) /\ t = k.pxCurrentTCB
    BY <1>1 DEF Booting, Boot, Running
<1>3. TaskProgram(Scenario[env.sc])
    BY DEF EnvOK, TaskPrograms
<1>4. ProgramCall(c) /\ t # IdleTask
    BY <1>1, <1>3 DEF TaskProgram, Program
<1>5. ~Settling(t, frame[t])
    BY <1>1 DEF Settling
<1> QED BY <1>1, <1>2, <1>4, <1>5 DEF System, Settler, Frames

\* The end of a call that is one critical section.
LEMMA ReturnOK ==
    ASSUME Frames(k, frame), NEW t \in Tasks, t = k.pxCurrentTCB, NEW ret, Return(t, ret),
           Run(k', NULL), k'.xSchedulerRunning
    PROVE  System(k', frame')
<1> DEFINE f == Returned(t, [frame[t] EXCEPT !.got = NULL], ret)
<1>1. frame' = [frame EXCEPT ![t] = f]
    BY DEF Return, Becomes
<1>2. FrameOK(frame[t])
    BY DEF Frames
<1>3. [frame[t] EXCEPT !.got = NULL].wake \in Ticks
    BY <1>2 DEF FrameOK, NewFrame
<1>4. FrameOK(f) /\ f.pc = "app"
    BY <1>3, ReturnedOK
<1> HIDE DEF f
<1> QED BY <1>1, <1>4, StepOK

-----------------------------------------------------------------------------
(* The ends that calls share. *)

LEMMA ResumeAllStep ==
    ASSUME EnvOK, System(k, frame) \/ Booting(k, frame, env.sc, env.main), NEW t \in Tasks, ResumeAll(t)
    PROVE  Carried
<1> DEFINE f == frame[t]
           r == xTaskResumeAll(k)
           g == Goto(t, f, IF r.ret THEN f.then ELSE f.else)
           c == Settler(k, frame)
<1>1. /\ k.xSchedulerRunning /\ t = k.pxCurrentTCB /\ f.pc = "xTaskResumeAll"
      /\ k' = r.k /\ frame' = [frame EXCEPT ![t] = g] /\ UNCHANGED env
    BY DEF ResumeAll, Running, Becomes
<1>2. Run(k, c) /\ Frames(k, frame) /\ k.uxSchedulerSuspended # 0 /\ FrameOK(f)
    BY <1>1 DEF Booting, Boot, System, Frames
<1>3. c = IF f.else = "portYIELD" THEN t ELSE NULL
    BY <1>1 DEF Settler, Settling
<1> HIDE DEF c
<1>4. /\ Run(r.k, c) /\ r.ret \in BOOLEAN /\ (r.ret => Fine(r.k, NULL)) /\ (~r.ret => SameCurrent(k, r.k))
      /\ r.k.xSchedulerRunning = k.xSchedulerRunning
    BY <1>2, ResumeAllKeeps
<1> HIDE DEF r
<1>5. f.then = "return" /\ f.else \in {"return", "portYIELD"} /\ f.wake \in Ticks
    BY <1>2 DEF FrameOK
<1>6. CASE r.ret
    <2>1. g = Returned(t, f, f.ret)
        BY <1>5, <1>6 DEF Goto
    <2>2. FrameOK(g) /\ g.pc = "app"
        BY <1>5, <2>1, ReturnedOK
    <2>3. Run(r.k, NULL)
        BY <1>4, <1>6 DEF Run
    <2> HIDE DEF g
    <2> QED BY <1>1, <1>2, <1>4, <2>2, <2>3, StepOK DEF Carried
<1>7. CASE ~r.ret /\ f.else = "return"
    <2>1. g = Returned(t, f, f.ret)
        BY <1>7 DEF Goto
    <2>2. FrameOK(g) /\ g.pc = "app"
        BY <1>5, <2>1, ReturnedOK
    <2>3. Run(r.k, NULL)
        BY <1>3, <1>4, <1>7
    <2> HIDE DEF g
    <2> QED BY <1>1, <1>2, <1>4, <2>2, <2>3, StepOK DEF Carried
<1>8. CASE ~r.ret /\ f.else = "portYIELD"
    <2>1. g = [f EXCEPT !.pc = "portYIELD"]
        BY <1>8 DEF Goto
    <2>2. FrameOK(g) /\ g.pc = "portYIELD"
        BY <1>2, <2>1 DEF FrameOK, NewFrame, Pcs
    <2>3. Run(r.k, t) /\ r.k.pxCurrentTCB = t
        BY <1>1, <1>3, <1>4, <1>8 DEF SameCurrent
    <2>4. Settling(t, g)
        BY <2>2 DEF Settling
    <2> HIDE DEF g
    <2> QED BY <1>1, <1>2, <1>4, <2>2, <2>3, <2>4, StepOK DEF Carried
<1> QED BY <1>4, <1>5, <1>6, <1>7, <1>8

LEMMA YieldStep ==
    ASSUME EnvOK, System(k, frame) \/ Booting(k, frame, env.sc, env.main), NEW t \in Tasks, Yield(t)
    PROVE  Carried
<1> DEFINE f == frame[t]
           g == Goto(t, f, f.then)
           y == portYIELD(k)
<1>1. /\ k.xSchedulerRunning /\ t = k.pxCurrentTCB
      /\ k' = y /\ frame' = [frame EXCEPT ![t] = g] /\ UNCHANGED env
    BY DEF Yield, Running, Becomes
<1>2. Base(k) /\ Quiet(k) /\ Frames(k, frame) /\ FrameOK(f)
    BY <1>1 DEF Booting, Boot, System, Run, Frames
<1>3. Base(y) /\ Fine(y, NULL) /\ SameEvents(k, y) /\ SameRest(k, y)
    BY <1>2, YieldKeeps
<1> HIDE DEF y
<1>4. Run(y, NULL) /\ y.xSchedulerRunning
    BY <1>1, <1>2, <1>3 DEF Run, Quiet, SameEvents, SameRest, Pended
<1>5. g = Returned(t, f, f.ret) /\ f.wake \in Ticks
    BY <1>2 DEF Goto, FrameOK
<1>6. FrameOK(g) /\ g.pc = "app"
    BY <1>5, ReturnedOK
<1> HIDE DEF g
<1> QED BY <1>1, <1>2, <1>4, <1>6, StepOK DEF Carried

-----------------------------------------------------------------------------
(* Frames of calls that resume the scheduler, or yield, at their end. *)

LEMMA ResumeOrYieldOK ==
    ASSUME NEW t, FrameOK(frame[t]), NEW c
    PROVE  LET g == ResumeOrYield(t, c)
           IN  FrameOK(g) /\ g.pc = "xTaskResumeAll" /\ Settling(t, g) /\ DOMAIN g = DOMAIN NewFrame
BY DEF FrameOK, NewFrame, Pcs, ResumeOrYield, Resuming, Settling

LEMMA ResumeAndReturnOK ==
    ASSUME NEW t, FrameOK(frame[t]), NEW c, NEW ret
    PROVE  LET g == ResumeAndReturn(t, c, ret) IN FrameOK(g) /\ g.pc = "xTaskResumeAll"
BY DEF FrameOK, NewFrame, Pcs, ResumeAndReturn

\* A call of this kind has suspended the scheduler.
LEMMA PausedOK ==
    ASSUME Frames(k, frame), NEW t \in Tasks, t = k.pxCurrentTCB, k.xSchedulerRunning, NEW f, FrameOK(f),
           frame' = [frame EXCEPT ![t] = f], UNCHANGED env,
           Paused(k, k', NULL) \/ (Paused(k, k', t) /\ Settling(t, f))
    PROVE  Carried
<1>1. /\ k'.xSchedulerRunning /\ k'.pxCurrentTCB = t /\ k'.uxSchedulerSuspended # 0
      /\ Run(k', NULL) \/ (Run(k', t) /\ Settling(t, f))
    BY DEF Paused, SameCurrent
<1> QED BY <1>1, StepOK DEF Carried

-----------------------------------------------------------------------------
(* Delays. *)

LEMMA DelayStep ==
    ASSUME EnvOK, System(k, frame) \/ Booting(k, frame, env.sc, env.main), NEW t \in Tasks, TaskDelay(t)
    PROVE  Carried
<1>1. PICK c \in Calls(t, "vTaskDelay") :
        /\ IF c.ticks > 0
           THEN /\ k' = prvAddCurrentTaskToDelayedList(
                            vTaskSuspendAll(configASSERT(k, k.uxSchedulerSuspended = 0, "vTaskDelay")),
                            c.ticks, FALSE)
                /\ frame' = [frame EXCEPT ![t] = ResumeOrYield(t, c)]
           ELSE /\ k' = k
                /\ frame' = [frame EXCEPT ![t] = [frame[t] EXCEPT !.pc = "portYIELD", !.call = c, !.ret = "pdPASS"]]
        /\ UNCHANGED env
    BY DEF TaskDelay, Becomes
<1>2. /\ Run(k, NULL) /\ Frames(k, frame) /\ k.xSchedulerRunning /\ t = k.pxCurrentTCB /\ t # IdleTask
      /\ FrameOK(frame[t]) /\ ProgramCall(c) /\ c.op = "vTaskDelay"
    BY CallBegins
<1>3. c.ticks \in Ticks
    BY <1>2 DEF ProgramCall
<1>4. CASE c.ticks > 0
    <2> DEFINE z == configASSERT(k, k.uxSchedulerSuspended = 0, "vTaskDelay")
               y == prvAddCurrentTaskToDelayedList(vTaskSuspendAll(z), c.ticks, FALSE)
    <2>1. k' = y
        BY <1>1, <1>4
    <2>2. Run(z, NULL) /\ Underway(k, z) /\ SameCurrent(k, z)
        BY <1>2, AssertRuns
    <2> HIDE DEF z
    <2>3. c.ticks \in 1 .. TickMod - 1
        BY <1>3, <1>4, Numbers DEF Ticks
    <2>4. Paused(z, y, z.pxCurrentTCB)
        BY <1>2, <2>2, <2>3, DelayRuns DEF SameCurrent
    <2> HIDE DEF y
    <2>5. Paused(k, k', t)
        BY <1>2, <2>1, <2>2, <2>4 DEF Paused, SameCurrent, Underway
    <2>6. FrameOK(ResumeOrYield(t, c)) /\ Settling(t, ResumeOrYield(t, c))
        BY <1>2, ResumeOrYieldOK
    <2> QED BY <1>1, <1>2, <1>4, <2>5, <2>6, PausedOK
<1>5. CASE ~(c.ticks > 0)
    <2> DEFINE g == [frame[t] EXCEPT !.pc = "portYIELD", !.call = c, !.ret = "pdPASS"]
    <2>1. FrameOK(g) /\ g.pc = "portYIELD"
        BY <1>2 DEF FrameOK, NewFrame, Pcs
    <2>2. k' = k /\ frame' = [frame EXCEPT ![t] = g]
        BY <1>1, <1>5
    <2> HIDE DEF g
    <2> QED BY <1>1, <1>2, <2>1, <2>2, StepOK DEF Carried
<1> QED BY <1>4, <1>5

\* A wake time that is still to come is less than a turn of the counter away.
LEMMA WaitIs ==
    ASSUME NEW now \in Ticks, NEW previous \in Ticks, NEW wake \in Ticks, xShouldDelay(now, previous, wake)
    PROVE  (wake + TickMod - now) % TickMod \in 1 .. TickMod - 1
<1>1. now \in 0 .. TickMod - 1 /\ previous \in 0 .. TickMod - 1 /\ wake \in 0 .. TickMod - 1 /\ wake # now
    BY Numbers DEF xShouldDelay, Ticks
<1>2. CASE wake > now
    <2>1. wake + TickMod - now = (wake - now) + TickMod /\ wake - now \in 1 .. TickMod - 1
        BY <1>1, <1>2, Numbers
    <2> DEFINE a == wake + TickMod - now
    <2>2. a \in 0 .. 2 * TickMod - 1 /\ TickMod \in Nat \ {0}
        BY <1>1, <1>2, Numbers
    <2>4. a \in Int /\ a >= TickMod
        BY <1>1, <1>2, Numbers
    <2> HIDE DEF a
    <2>3. a % TickMod = a - TickMod
        <3>1. a % TickMod = IF a < TickMod THEN a ELSE a - TickMod
            BY <2>2, WrapsOnce
        <3> QED BY <2>4, <3>1, Numbers
    <2> QED BY <1>1, <1>2, <2>1, <2>3, Numbers DEF a
<1>3. CASE wake < now
    <2> DEFINE a == wake + TickMod - now
    <2>1. a \in 1 .. TickMod - 1 /\ a \in 0 .. 2 * TickMod - 1
        BY <1>1, <1>3, Numbers
    <2> HIDE DEF a
    <2>2. a % TickMod = a
        BY <2>1, Numbers, WrapsOnce
    <2> QED BY <2>1, <2>2 DEF a
<1> QED BY <1>1, <1>2, <1>3, Numbers

LEMMA DelayUntilStep ==
    ASSUME EnvOK, System(k, frame) \/ Booting(k, frame, env.sc, env.main), NEW t \in Tasks, TaskDelayUntil(t)
    PROVE  Carried
<1> DEFINE previous == frame[t].wake
           wake(c) == (previous + c.ticks) % TickMod
           wait(c) == (wake(c) + TickMod - k.xTickCount) % TickMod
           j(c) == configASSERT(k, c.ticks > 0, "vTaskDelayUntil: increment")
           z(c) == configASSERT(j(c), k.uxSchedulerSuspended = 0, "vTaskDelayUntil")
           g(c) == [ResumeOrYield(t, c) EXCEPT !.wake = wake(c)]
<1>1. PICK c \in Calls(t, "vTaskDelayUntil") :
        /\ k' = IF xShouldDelay(k.xTickCount, previous, wake(c))
                THEN prvAddCurrentTaskToDelayedList(vTaskSuspendAll(z(c)), wait(c), FALSE)
                ELSE vTaskSuspendAll(z(c))
        /\ frame' = [frame EXCEPT ![t] = g(c)]
        /\ UNCHANGED env
    BY DEF TaskDelayUntil, Becomes
<1>2. /\ Run(k, NULL) /\ Frames(k, frame) /\ k.xSchedulerRunning /\ t = k.pxCurrentTCB /\ t # IdleTask
      /\ FrameOK(frame[t]) /\ ProgramCall(c) /\ c.op = "vTaskDelayUntil"
    BY CallBegins
<1>3. c.ticks \in Ticks /\ previous \in Ticks
    BY <1>2 DEF ProgramCall, FrameOK
<1>4. wake(c) \in Ticks
    BY <1>3, Numbers DEF Ticks
<1>5. k.xTickCount \in Ticks
    BY <1>2, RunTypes DEF Run, Mem
<1>6. Run(j(c), NULL) /\ Underway(k, j(c)) /\ SameCurrent(k, j(c))
    BY <1>2, AssertRuns
<1> HIDE DEF j
<1>7. Run(z(c), NULL) /\ Underway(j(c), z(c)) /\ SameCurrent(j(c), z(c))
    BY <1>6, AssertRuns
<1> HIDE DEF z
<1>8. FrameOK(g(c)) /\ Settling(t, g(c))
    <2>1. LET h == ResumeOrYield(t, c)
          IN  FrameOK(h) /\ h.pc = "xTaskResumeAll" /\ Settling(t, h) /\ DOMAIN h = DOMAIN NewFrame
        BY <1>2, ResumeOrYieldOK
    <2> HIDE DEF wake
    <2> QED BY <1>4, <2>1 DEF FrameOK, NewFrame, Settling
<1> HIDE DEF g
<1>9. Paused(z(c), k', NULL) \/ Paused(z(c), k', t)
    <2>1. CASE xShouldDelay(k.xTickCount, previous, wake(c))
        <3>1. wait(c) \in 1 .. TickMod - 1
            <4> HIDE DEF wake, previous
            <4> QED BY <1>3, <1>4, <1>5, <2>1, WaitIs
        <3>2. k' = prvAddCurrentTaskToDelayedList(vTaskSuspendAll(z(c)), wait(c), FALSE)
            BY <1>1, <2>1
        <3> HIDE DEF wait
        <3>3. z(c).pxCurrentTCB = t
            BY <1>2, <1>6, <1>7 DEF SameCurrent
        <3> QED BY <1>2, <1>7, <3>1, <3>2, <3>3, DelayRuns
    <2>2. CASE ~xShouldDelay(k.xTickCount, previous, wake(c))
        <3>1. k' = vTaskSuspendAll(z(c))
            BY <1>1, <2>2
        <3> QED BY <1>7, <3>1, HoldRuns
    <2> QED BY <2>1, <2>2
<1>10. Paused(k, k', NULL) \/ Paused(k, k', t)
    BY <1>6, <1>7, <1>9 DEF Paused, SameCurrent, Underway
<1> QED BY <1>1, <1>2, <1>8, <1>10, PausedOK

LEMMA AbortDelayStep ==
    ASSUME EnvOK, System(k, frame) \/ Booting(k, frame, env.sc, env.main), NEW t \in Tasks, TaskAbortDelay(t)
    PROVE  Carried
<1>1. ASSUME NEW c \in Calls(t, "xTaskAbortDelay"), k' = vTaskSuspendAll(k),
             frame' = [frame EXCEPT ![t] = [frame[t] EXCEPT !.pc = "eTaskGetState", !.call = c]], UNCHANGED env
      PROVE  Carried
    <2> DEFINE f == [frame[t] EXCEPT !.pc = "eTaskGetState", !.call = c]
    <2>1. /\ Run(k, NULL) /\ Frames(k, frame) /\ k.xSchedulerRunning /\ t = k.pxCurrentTCB
          /\ FrameOK(frame[t]) /\ ProgramCall(c) /\ c.op = "xTaskAbortDelay"
        BY CallBegins
    <2>2. Paused(k, k', NULL)
        BY <1>1, <2>1, HoldRuns
    <2>3. c.task \in Tasks
        BY <2>1 DEF ProgramCall
    <2>4. FrameOK(f)
        BY <2>1, <2>3 DEF FrameOK, NewFrame, Pcs
    <2>5. frame' = [frame EXCEPT ![t] = f]
        BY <1>1
    <2> HIDE DEF f
    <2> QED BY <1>1, <2>1, <2>2, <2>4, <2>5, PausedOK
<1>2. CASE /\ Running(t) /\ frame[t].pc = "eTaskGetState" /\ UNCHANGED env
           /\ LET r == xTaskAbortDelay(k, frame[t].call.task)
              IN  /\ k' = r.k
                  /\ Becomes(t, ResumeAndReturn(t, frame[t].call, PassFail(r.ret)))
    <2> DEFINE r == xTaskAbortDelay(k, frame[t].call.task)
               g == ResumeAndReturn(t, frame[t].call, PassFail(r.ret))
    <2>1. k' = r.k /\ frame' = [frame EXCEPT ![t] = g]
        BY <1>2 DEF Becomes
    <2>2. System(k, frame) /\ k.xSchedulerRunning /\ t = k.pxCurrentTCB
        BY <1>2 DEF Running, Booting, Boot
    <2>3. ~Settling(t, frame[t])
        BY <1>2 DEF Settling
    <2>4. Run(k, NULL) /\ Frames(k, frame)
        BY <2>2, <2>3 DEF System, Settler
    <2>5. FrameOK(frame[t]) /\ frame[t].call.task \in Tasks /\ k.uxSchedulerSuspended # 0
        BY <1>2, <2>4 DEF Frames, FrameOK
    <2>6. Run(r.k, NULL) /\ Underway(k, r.k) /\ SameCurrent(k, r.k)
        BY <2>4, <2>5, AbortAnyRuns
    <2>7. FrameOK(g)
        BY <2>5, ResumeAndReturnOK
    <2> HIDE DEF r, g
    <2>8. Paused(k, k', NULL)
        BY <2>1, <2>5, <2>6 DEF Paused, Underway
    <2> QED BY <1>2, <2>1, <2>2, <2>4, <2>7, <2>8, PausedOK
<1> QED BY <1>1, <1>2 DEF TaskAbortDelay, Becomes, At

LEMMA CatchUpTicksStep ==
    ASSUME EnvOK, System(k, frame) \/ Booting(k, frame, env.sc, env.main), NEW t \in Tasks, TaskCatchUpTicks(t)
    PROVE  Carried
<1> DEFINE z == configASSERT(k, k.uxSchedulerSuspended = 0, "xTaskCatchUpTicks")
           g(c) == ResumeAndReturn(t, c, "pdPASS")
<1>1. PICK c \in Calls(t, "xTaskCatchUpTicks") :
        /\ k' = [vTaskSuspendAll(z) EXCEPT !.xPendedTicks = @ + c.ticks]
        /\ frame' = [frame EXCEPT ![t] = g(c)] /\ UNCHANGED env
    BY DEF TaskCatchUpTicks, Becomes
<1>2. /\ Run(k, NULL) /\ Frames(k, frame) /\ k.xSchedulerRunning /\ t = k.pxCurrentTCB
      /\ FrameOK(frame[t]) /\ ProgramCall(c) /\ c.op = "xTaskCatchUpTicks"
    BY CallBegins
<1>3. c.ticks \in Nat
    BY <1>2 DEF ProgramCall
<1>4. Run(z, NULL) /\ Underway(k, z) /\ SameCurrent(k, z)
    BY <1>2, AssertRuns
<1> HIDE DEF z
<1>5. Paused(z, k', NULL)
    BY <1>1, <1>3, <1>4, CatchUpTicksRuns
<1>6. Paused(k, k', NULL)
    BY <1>4, <1>5 DEF Paused, SameCurrent, Underway
<1>7. FrameOK(g(c))
    BY <1>2, ResumeAndReturnOK
<1> HIDE DEF g
<1> QED BY <1>1, <1>2, <1>6, <1>7, PausedOK

-----------------------------------------------------------------------------
(* Creating, deleting, suspending and resuming tasks; priorities. *)

\* The frame of a task that is created is a new one.
LEMMA CreateStep ==
    ASSUME EnvOK, System(k, frame) \/ Booting(k, frame, env.sc, env.main), NEW t \in Tasks, TaskCreate(t)
    PROVE  Carried
<1> DEFINE f == Returned(t, frame[t], "pdPASS")
<1>1. PICK c \in Calls(t, "xTaskCreate") :
        /\ c.task \notin k.allocated /\ k' = xTaskCreate(k, c.task, c.priority)
        /\ frame' = [frame EXCEPT ![t] = f, ![c.task] = NewFrame] /\ UNCHANGED env
    BY DEF TaskCreate, Created
<1>2. /\ Run(k, NULL) /\ Frames(k, frame) /\ k.xSchedulerRunning /\ t = k.pxCurrentTCB
      /\ FrameOK(frame[t]) /\ ProgramCall(c) /\ c.op = "xTaskCreate"
    BY CallBegins
<1>3. c.task \in Tasks /\ c.priority \in Priorities
    BY <1>2 DEF ProgramCall
<1>4. Run(k', NULL) /\ k'.xSchedulerRunning
    BY <1>1, <1>2, <1>3, CreateRuns
<1>5. FrameOK(f) /\ f.pc = "app"
    BY <1>2, ReturnedOK DEF FrameOK
<1> HIDE DEF f
<1>6. Frames(k', frame')
    <2>1. /\ DOMAIN frame' = Tasks
          /\ \A u \in Tasks : frame'[u] = IF u = c.task THEN NewFrame ELSE IF u = t THEN f ELSE frame[u]
        BY <1>1, <1>2, <1>3 DEF Frames
    <2>2. \A u \in Tasks : FrameOK(frame'[u]) /\ frame'[u].pc \notin {"xTaskResumeAll", "eTaskGetState"}
        BY <1>2, <1>5, <2>1, NewFrameOK DEF Frames
    <2> QED BY <2>1, <2>2 DEF Frames
<1>7. Run(k', Settler(k', frame'))
    BY <1>4, FineForAll DEF Run
<1> QED BY <1>1, <1>4, <1>6, <1>7 DEF Carried, System

\* The task a call names.
LEMMA HandleIs ==
    ASSUME NEW t \in Tasks, NEW c, c.task \in Tasks \cup {NULL}
    PROVE  Handle(t, c) \in Tasks
BY DEF Handle

LEMMA LiveIs ==
    ASSUME Run(k, NULL), NEW u \in Tasks, Live(u)
    PROVE  Alive(k, u)
<1>1. Mem(k)
    BY RunTypes DEF Run
<1> QED BY <1>1, LookIs DEF Live, Alive

LEMMA DeleteStep ==
    ASSUME EnvOK, System(k, frame) \/ Booting(k, frame, env.sc, env.main), NEW t \in Tasks, TaskDelete(t),
           NoAssertFails'
    PROVE  Carried
<1> DEFINE u(c) == Handle(t, c)
           y(c) == vTaskDelete(k, u(c))
           g(c) == [frame[t] EXCEPT !.pc = "portYIELD", !.call = c, !.ret = "pdPASS"]
<1>1. PICK c \in Calls(t, "vTaskDelete") :
        /\ Live(u(c))
        /\ k' = configASSERT(y(c), u(c) = t => k.uxSchedulerSuspended = 0, "vTaskDelete")
        /\ IF u(c) = t THEN frame' = [frame EXCEPT ![t] = g(c)] ELSE Return(t, "pdPASS")
        /\ UNCHANGED env
    BY DEF TaskDelete, Becomes
<1>2. /\ Run(k, NULL) /\ Frames(k, frame) /\ k.xSchedulerRunning /\ t = k.pxCurrentTCB /\ t # IdleTask
      /\ FrameOK(frame[t]) /\ ProgramCall(c) /\ c.op = "vTaskDelete"
    BY CallBegins
<1>3. u(c) \in Tasks /\ u(c) # IdleTask
    BY <1>2, HandleIs DEF ProgramCall, Handle
<1>4. Alive(k, u(c))
    <2> HIDE DEF u
    <2> QED BY <1>1, <1>2, <1>3, LiveIs
<1>5. u(c) = t => k.uxSchedulerSuspended = 0
    <2>1. SUFFICES ASSUME ~(u(c) = t => k.uxSchedulerSuspended = 0) PROVE FALSE
        OBVIOUS
    <2>2. k' = [y(c) EXCEPT !.asserts = @ \cup {"vTaskDelete"}]
        BY <1>1, <2>1 DEF configASSERT
    <2>3. KernelFields \subseteq DOMAIN y(c)
        <3>1. DOMAIN y(c) = DOMAIN k
            BY DEF vTaskDelete, RemoveState, RemoveEvent, taskRESET_READY_PRIORITY, prvResetNextTaskUnblockTime,
               prvDeleteTCB
        <3> QED BY <1>2, <3>1, RunTypes DEF Run, Mem
    <2> HIDE DEF y
    <2>4. "vTaskDelete" \in k'.asserts
        BY <2>2, <2>3 DEF KernelFields
    <2> QED BY <2>4 DEF NoAssertFails
<1>6. k' = y(c)
    BY <1>1, <1>5 DEF configASSERT
<1>7. /\ Run(y(c), IF u(c) = k.pxCurrentTCB THEN u(c) ELSE NULL) /\ SameCurrent(k, y(c))
      /\ y(c).xSchedulerRunning = k.xSchedulerRunning
    <2> HIDE DEF u
    <2> QED BY <1>2, <1>3, <1>4, <1>5, DeleteRuns
<1> HIDE DEF y
<1>8. CASE u(c) = t
    <2>1. FrameOK(g(c)) /\ g(c).pc = "portYIELD"
        BY <1>2 DEF FrameOK, NewFrame, Pcs
    <2>2. Settling(t, g(c))
        BY <2>1 DEF Settling
    <2> HIDE DEF g
    <2>3. Run(k', t) /\ k'.pxCurrentTCB = t
        BY <1>2, <1>6, <1>7, <1>8 DEF SameCurrent
    <2>4. frame' = [frame EXCEPT ![t] = g(c)] /\ UNCHANGED env /\ k'.xSchedulerRunning
        BY <1>1, <1>2, <1>6, <1>7, <1>8
    <2> QED BY <1>2, <2>1, <2>2, <2>3, <2>4, StepOK DEF Carried
<1>9. CASE u(c) # t
    <2>1. Run(k', NULL)
        BY <1>2, <1>6, <1>7, <1>9
    <2> QED BY <1>1, <1>2, <1>6, <1>7, <1>9, <2>1, ReturnOK DEF Carried
<1> QED BY <1>8, <1>9

LEMMA SuspendStep ==
    ASSUME EnvOK, System(k, frame) \/ Booting(k, frame, env.sc, env.main), NEW t \in Tasks, TaskSuspend(t)
    PROVE  Carried
<1> DEFINE u(c) == Handle(t, c)
           g(c) == [frame[t] EXCEPT !.pc = "prvResetNextTaskUnblockTime", !.call = c, !.ret = "pdPASS"]
           d == Handle(t, frame[t].call)
           h == Goto(t, frame[t], IF d = t THEN "portYIELD" ELSE "return")
           y == prvResetNextTaskUnblockTime(
                    configASSERT(k, d = t => k.uxSchedulerSuspended = 0, "vTaskSuspend"))
<1>1. ASSUME NEW c \in Calls(t, "vTaskSuspend"), Live(u(c)), k' = vTaskSuspend(k, u(c)),
             frame' = [frame EXCEPT ![t] = g(c)], UNCHANGED env
      PROVE  Carried
    <2>1. /\ Run(k, NULL) /\ Frames(k, frame) /\ k.xSchedulerRunning /\ t = k.pxCurrentTCB
          /\ FrameOK(frame[t]) /\ ProgramCall(c) /\ c.op = "vTaskSuspend"
        BY CallBegins
    <2>2. u(c) \in Tasks /\ u(c) # IdleTask
        BY <2>1, CallBegins, HandleIs DEF ProgramCall, Handle
    <2>3. g(c).call = c /\ FrameOK(g(c)) /\ g(c).pc = "prvResetNextTaskUnblockTime"
        BY <2>1 DEF FrameOK, NewFrame, Pcs
    <2>4. u(c) = t => Settling(t, g(c))
        BY <2>3 DEF Settling
    <2> HIDE DEF u, g
    <2>5. Alive(k, u(c))
        BY <1>1, <2>1, <2>2, LiveIs
    <2>6. /\ Run(k', IF u(c) = k.pxCurrentTCB THEN u(c) ELSE NULL) /\ Underway(k, k') /\ SameCurrent(k, k')
        BY <1>1, <2>1, <2>2, <2>5, SuspendRuns
    <2>7. Run(k', NULL) \/ (Run(k', t) /\ k'.pxCurrentTCB = t /\ Settling(t, g(c)))
        BY <2>1, <2>4, <2>6 DEF SameCurrent
    <2> QED BY <1>1, <2>1, <2>3, <2>6, <2>7, StepOK DEF Carried, Underway
<1>2. ASSUME At(t, "vTaskSuspend", "prvResetNextTaskUnblockTime"), k' = y,
             frame' = [frame EXCEPT ![t] = h], UNCHANGED env
      PROVE  Carried
    <2>1. /\ t = k.pxCurrentTCB /\ k.xSchedulerRunning /\ frame[t].pc = "prvResetNextTaskUnblockTime"
        BY <1>2 DEF At, Running
    <2>2. Run(k, Settler(k, frame)) /\ Frames(k, frame) /\ FrameOK(frame[t])
        BY <2>1 DEF Booting, Boot, System, Frames
    <2>3. Run(k, IF d = t THEN t ELSE NULL)
        BY <2>1, <2>2 DEF Settler, Settling
    <2>4. Run(k', IF d = t THEN t ELSE NULL) /\ Underway(k, k') /\ SameCurrent(k, k')
        <3> HIDE DEF d
        <3> QED BY <1>2, <2>3, ResetRuns
    <2> HIDE DEF y
    <2>5. FrameOK(h) /\ (d = t => h.pc = "portYIELD") /\ h.pc \notin {"xTaskResumeAll", "eTaskGetState"}
        <3>1. CASE d = t
            BY <2>2, <3>1 DEF Goto, FrameOK, NewFrame, Pcs
        <3>2. CASE d # t
            <4>1. h = Returned(t, frame[t], frame[t].ret) /\ frame[t].wake \in Ticks
                BY <2>2, <3>2 DEF Goto, FrameOK
            <4> QED BY <3>2, <4>1, ReturnedOK
        <3> QED BY <3>1, <3>2
    <2>6. d = t => Settling(t, h)
        BY <2>5 DEF Settling
    <2> HIDE DEF d, h
    <2>7. Run(k', NULL) \/ (Run(k', t) /\ k'.pxCurrentTCB = t /\ Settling(t, h))
        BY <2>1, <2>4, <2>6 DEF SameCurrent
    <2> QED BY <1>2, <2>1, <2>2, <2>4, <2>5, <2>7, StepOK DEF Carried, Underway
<1> QED BY <1>1, <1>2 DEF TaskSuspend, Becomes

LEMMA ResumeStep ==
    ASSUME EnvOK, System(k, frame) \/ Booting(k, frame, env.sc, env.main), NEW t \in Tasks, TaskResume(t)
    PROVE  Carried
<1>1. PICK c \in Calls(t, "vTaskResume") :
        Live(Handle(t, c)) /\ k' = vTaskResume(k, c.task) /\ Return(t, "pdPASS") /\ UNCHANGED env
    BY DEF TaskResume, OnTask
<1>2. /\ Run(k, NULL) /\ Frames(k, frame) /\ k.xSchedulerRunning /\ t = k.pxCurrentTCB
      /\ ProgramCall(c) /\ c.op = "vTaskResume"
    BY CallBegins
<1>3. c.task \in Tasks /\ Handle(t, c) = c.task
    BY <1>2, Numbers DEF ProgramCall, Handle
<1>4. Alive(k, c.task)
    BY <1>1, <1>2, <1>3, LiveIs
<1>5. Run(k', NULL) /\ Underway(k, k')
    BY <1>1, <1>2, <1>4, ResumeRuns
<1> QED BY <1>1, <1>2, <1>5, ReturnOK DEF Carried, Underway

LEMMA PrioritySetStep ==
    ASSUME EnvOK, System(k, frame) \/ Booting(k, frame, env.sc, env.main), NEW t \in Tasks, TaskPrioritySet(t)
    PROVE  Carried
<1>1. PICK c \in Calls(t, "vTaskPrioritySet") :
        /\ Live(Handle(t, c)) /\ k' = vTaskPrioritySet(k, Handle(t, c), c.priority)
        /\ Return(t, "pdPASS") /\ UNCHANGED env
    BY DEF TaskPrioritySet, OnTask
<1>2. /\ Run(k, NULL) /\ Frames(k, frame) /\ k.xSchedulerRunning /\ t = k.pxCurrentTCB
      /\ ProgramCall(c) /\ c.op = "vTaskPrioritySet"
    BY CallBegins
<1>3. Handle(t, c) \in Tasks /\ c.priority \in Priorities
    BY <1>2, HandleIs DEF ProgramCall
<1>4. Alive(k, Handle(t, c))
    BY <1>1, <1>2, <1>3, LiveIs
<1>5. Run(k', NULL) /\ Underway(k, k')
    BY <1>1, <1>2, <1>3, <1>4, PrioritySetRuns
<1> QED BY <1>1, <1>2, <1>5, ReturnOK DEF Carried, Underway

LEMMA GetHandleStep ==
    ASSUME EnvOK, System(k, frame) \/ Booting(k, frame, env.sc, env.main), NEW t \in Tasks, TaskGetHandle(t)
    PROVE  Carried
<1>1. PICK c \in Calls(t, "xTaskGetHandle") :
        /\ k' = vTaskSuspendAll(xTaskGetHandle(k, c.task))
        /\ frame' = [frame EXCEPT ![t] = ResumeAndReturn(t, c, "pdPASS")] /\ UNCHANGED env
    BY DEF TaskGetHandle, Becomes
<1>2. /\ Run(k, NULL) /\ Frames(k, frame) /\ k.xSchedulerRunning /\ t = k.pxCurrentTCB /\ FrameOK(frame[t])
    BY CallBegins
<1>3. Paused(k, k', NULL)
    BY <1>1, <1>2, HandleRuns
<1>4. FrameOK(ResumeAndReturn(t, c, "pdPASS"))
    BY <1>2, ResumeAndReturnOK
<1> QED BY <1>1, <1>2, <1>3, <1>4, PausedOK

LEMMA SuspendAllStep ==
    ASSUME EnvOK, System(k, frame) \/ Booting(k, frame, env.sc, env.main), NEW t \in Tasks, SuspendAllCall(t)
    PROVE  Carried
<1>1. PICK c \in Calls(t, "vTaskSuspendAll") : k' = vTaskSuspendAll(k) /\ Return(t, "pdPASS") /\ UNCHANGED env
    BY DEF SuspendAllCall, InOneStep
<1>2. /\ Run(k, NULL) /\ Frames(k, frame) /\ k.xSchedulerRunning /\ t = k.pxCurrentTCB
    BY CallBegins
<1>3. Paused(k, k', NULL)
    BY <1>1, <1>2, HoldRuns
<1> QED BY <1>1, <1>2, <1>3, ReturnOK DEF Carried, Paused

LEMMA ResumeAllCallStep ==
    ASSUME EnvOK, System(k, frame) \/ Booting(k, frame, env.sc, env.main), NEW t \in Tasks, ResumeAllCall(t)
    PROVE  Carried
<1> DEFINE r == xTaskResumeAll(k)
<1>1. k.uxSchedulerSuspended # 0
    BY DEF ResumeAllCall
<1>2. PICK c \in Calls(t, "xTaskResumeAll") : k' = r.k /\ Return(t, "pdPASS") /\ UNCHANGED env
    BY DEF ResumeAllCall, InOneStep
<1>3. /\ Run(k, NULL) /\ Frames(k, frame) /\ k.xSchedulerRunning /\ t = k.pxCurrentTCB
    BY CallBegins
<1>4. Run(r.k, NULL) /\ r.k.xSchedulerRunning = k.xSchedulerRunning
    BY <1>1, <1>3, ResumeAllKeeps
<1> HIDE DEF r
<1> QED BY <1>2, <1>3, <1>4, ReturnOK DEF Carried

LEMMA YieldCallStep ==
    ASSUME EnvOK, System(k, frame) \/ Booting(k, frame, env.sc, env.main), NEW t \in Tasks, YieldCall(t)
    PROVE  Carried
<1> DEFINE y == portYIELD(k)
<1>1. PICK c \in Calls(t, "taskYIELD") : k' = y /\ Return(t, "pdPASS") /\ UNCHANGED env
    BY DEF YieldCall, InOneStep
<1>2. /\ Run(k, NULL) /\ Frames(k, frame) /\ k.xSchedulerRunning /\ t = k.pxCurrentTCB
    BY CallBegins
<1>3. Base(y) /\ Fine(y, NULL) /\ SameEvents(k, y) /\ SameRest(k, y)
    BY <1>2, YieldKeeps DEF Run
<1> HIDE DEF y
<1>4. Run(y, NULL) /\ y.xSchedulerRunning
    BY <1>2, <1>3 DEF Run, Quiet, SameEvents, SameRest, Pended
<1> QED BY <1>1, <1>2, <1>4, ReturnOK DEF Carried

-----------------------------------------------------------------------------
(* Notifications. *)

LEMMA NotifyStep ==
    ASSUME EnvOK, System(k, frame) \/ Booting(k, frame, env.sc, env.main), NEW t \in Tasks, TaskNotify(t)
    PROVE  Carried
<1>1. PICK c \in Calls(t, "xTaskGenericNotify") :
        /\ Live(Handle(t, c)) /\ k' = xTaskGenericNotify(k, c.task, c.action, c.value)
        /\ Return(t, "pdPASS") /\ UNCHANGED env
    BY DEF TaskNotify, OnTask
<1>2. /\ Run(k, NULL) /\ Frames(k, frame) /\ k.xSchedulerRunning /\ t = k.pxCurrentTCB
      /\ ProgramCall(c) /\ c.op = "xTaskGenericNotify"
    BY CallBegins
<1>3. c.task \in Tasks /\ Handle(t, c) = c.task
    BY <1>2, Numbers DEF ProgramCall, Handle
<1>4. Alive(k, c.task)
    BY <1>1, <1>2, <1>3, LiveIs
<1>5. Run(k', NULL) /\ Underway(k, k')
    BY <1>1, <1>2, <1>4, NotifyRuns
<1> QED BY <1>1, <1>2, <1>5, ReturnOK DEF Carried, Underway

\* The state and the value of a notification are no concern of the lists.
Noting(x, y) ==
    /\ DOMAIN y = DOMAIN x /\ Alike(x, y) /\ SameCurrent(x, y) /\ SameYield(x, y) /\ SameRest(x, y)
    /\ SameAsserts(x, y)

LEMMA StateNoted ==
    ASSUME NEW x, Mem(x), NEW t, NEW new
    PROVE  Noting(x, [x EXCEPT !.ucNotifyState[t] = new])
BY DEF Mem, KernelFields, Noting, Alike, SameReady, SameTop, SameSleep, SameParked, SameEvents, SameTimes, SameNext,
   SameClock, SameRanks, SameCurrent, SameYield, SameRest, SameAsserts

LEMMA ValueNoted ==
    ASSUME NEW x, Mem(x), NEW t, NEW new
    PROVE  Noting(x, [x EXCEPT !.ulNotifiedValue[t] = new])
BY DEF Mem, KernelFields, Noting, Alike, SameReady, SameTop, SameSleep, SameParked, SameEvents, SameTimes, SameNext,
   SameClock, SameRanks, SameCurrent, SameYield, SameRest, SameAsserts

LEMMA NotedRuns ==
    ASSUME NEW x, NEW y, NEW c, Run(x, c), Noting(x, y)
    PROVE  Run(y, c) /\ Underway(x, y) /\ SameCurrent(x, y) /\ Mem(y)
<1>1. Run(y, c) /\ Underway(x, y)
    BY OtherRuns DEF Noting
<1> QED BY <1>1, RunTypes DEF Run, Noting

LEMMA StateClearStep ==
    ASSUME EnvOK, System(k, frame) \/ Booting(k, frame, env.sc, env.main), NEW t \in Tasks, NotifyStateClear(t)
    PROVE  Carried
<1>1. PICK c \in Calls(t, "xTaskNotifyStateClear") :
        k' = xTaskNotifyStateClear(k, Handle(t, c)) /\ Return(t, "pdPASS") /\ UNCHANGED env
    BY DEF NotifyStateClear, OnTask
<1>2. /\ Run(k, NULL) /\ Frames(k, frame) /\ k.xSchedulerRunning /\ t = k.pxCurrentTCB /\ Mem(k)
    BY CallBegins, RunTypes DEF Run
<1>3. Noting(k, k')
    BY <1>1, <1>2, StateNoted DEF xTaskNotifyStateClear
<1>4. Run(k', NULL) /\ Underway(k, k')
    BY <1>2, <1>3, NotedRuns
<1> QED BY <1>1, <1>2, <1>4, ReturnOK DEF Carried, Underway

LEMMA ValueClearStep ==
    ASSUME EnvOK, System(k, frame) \/ Booting(k, frame, env.sc, env.main), NEW t \in Tasks, NotifyValueClear(t)
    PROVE  Carried
<1> DEFINE r(c) == ulTaskNotifyValueClear(k, Handle(t, c), c.value)
           g(c) == Returned(t, [frame[t] EXCEPT !.got = r(c).ret], "pdPASS")
<1>1. PICK c \in Calls(t, "ulTaskNotifyValueClear") :
        k' = r(c).k /\ frame' = [frame EXCEPT ![t] = g(c)] /\ UNCHANGED env
    BY DEF NotifyValueClear, Becomes
<1>2. /\ Run(k, NULL) /\ Frames(k, frame) /\ k.xSchedulerRunning /\ t = k.pxCurrentTCB /\ Mem(k) /\ FrameOK(frame[t])
    BY CallBegins, RunTypes DEF Run
<1>3. Noting(k, k')
    BY <1>1, <1>2, ValueNoted DEF ulTaskNotifyValueClear
<1> HIDE DEF r
<1>4. Run(k', NULL) /\ Underway(k, k')
    BY <1>2, <1>3, NotedRuns
<1>5. FrameOK(g(c)) /\ g(c).pc = "app"
    <2>1. [frame[t] EXCEPT !.got = r(c).ret].wake \in Ticks
        BY <1>2 DEF FrameOK, NewFrame
    <2> QED BY <2>1, ReturnedOK
<1> HIDE DEF g
<1> QED BY <1>1, <1>2, <1>4, <1>5, StepOK DEF Carried, Underway

\* The first critical section of a wait for a notification.
LEMMA WaitBegins ==
    ASSUME NEW x, Run(x, NULL), NEW t \in Tasks, t = x.pxCurrentTCB, t # IdleTask, NEW ready, NEW ticks \in Ticks,
           BeginNotifyWait(t, x, ready, ticks)
    PROVE  Run(k', NULL) /\ Underway(x, k')
<1> DEFINE z == [x EXCEPT !.ucNotifyState[t] = "taskWAITING_NOTIFICATION"]
<1>1. k' = IF ready THEN x ELSE IF ticks > 0 THEN portYIELD(prvAddCurrentTaskToDelayedList(z, ticks, TRUE)) ELSE z
    BY DEF BeginNotifyWait
<1>2. Mem(x)
    BY RunTypes DEF Run
<1>3. Run(z, NULL) /\ Underway(x, z) /\ SameCurrent(x, z)
    BY <1>2, StateNoted, NotedRuns
<1> HIDE DEF z
<1>4. CASE ready
    BY <1>1, <1>4 DEF Underway
<1>5. CASE ~ready /\ ticks > 0
    <2>1. k' = portYIELD(prvAddCurrentTaskToDelayedList(z, ticks, TRUE))
        BY <1>1, <1>5
    <2>2. ticks \in 1 .. TickMod - 1 /\ z.pxCurrentTCB # IdleTask
        BY <1>3, <1>5, Numbers DEF Ticks, SameCurrent
    <2>3. Run(k', NULL) /\ Underway(z, k')
        BY <1>3, <2>1, <2>2, BlockRuns
    <2> QED BY <1>3, <2>3 DEF Underway
<1>6. CASE ~ready /\ ~(ticks > 0)
    BY <1>1, <1>3, <1>6
<1> QED BY <1>4, <1>5, <1>6

\* The frame of a task that waits.
LEMMA NotifiedOK ==
    ASSUME NEW t, FrameOK(frame[t]), NEW c
    PROVE  LET g == [frame[t] EXCEPT !.pc = "notified", !.call = c] IN FrameOK(g) /\ g.pc = "notified"
BY DEF FrameOK, NewFrame, Pcs

LEMMA WaitStep ==
    ASSUME EnvOK, NEW t \in Tasks, NEW c, System(k, frame), t = k.pxCurrentTCB,
           Run(k', NULL), k'.xSchedulerRunning, UNCHANGED env,
           frame' = [frame EXCEPT ![t] = [frame[t] EXCEPT !.pc = "notified", !.call = c]]
    PROVE  Carried
<1> DEFINE g == [frame[t] EXCEPT !.pc = "notified", !.call = c]
<1>1. Frames(k, frame) /\ FrameOK(frame[t])
    BY DEF System, Frames
<1>2. FrameOK(g) /\ g.pc = "notified"
    BY <1>1, NotifiedOK
<1> HIDE DEF g
<1>3. System(k', [frame EXCEPT ![t] = g])
    BY <1>1, <1>2, StepOK
<1>4. frame' = [frame EXCEPT ![t] = g]
    BY DEF g
<1> QED BY <1>3, <1>4 DEF Carried

\* The second half begins as the right task runs.
LEMMA NotifiedRuns ==
    ASSUME EnvOK, System(k, frame) \/ Booting(k, frame, env.sc, env.main), NEW t \in Tasks, NEW op, At(t, op, "notified")
    PROVE  Run(k, NULL) /\ Frames(k, frame) /\ k.xSchedulerRunning /\ t = k.pxCurrentTCB /\ Mem(k)
<1>1. k.xSchedulerRunning /\ t = k.pxCurrentTCB /\ frame[t].pc = "notified"
    BY DEF At, Running
<1>2. Run(k, Settler(k, frame)) /\ Frames(k, frame)
    BY <1>1 DEF Booting, Boot, System
<1>3. Run(k, NULL)
    BY <1>1, <1>2 DEF Settler, Settling
<1> QED BY <1>1, <1>2, <1>3, RunTypes DEF Run

LEMMA NotifyTakeStep ==
    ASSUME EnvOK, System(k, frame) \/ Booting(k, frame, env.sc, env.main), NEW t \in Tasks, NotifyTake(t)
    PROVE  Carried
<1>1. ASSUME NEW c \in Calls(t, "ulTaskNotifyTake"),
             BeginNotifyWait(t, k, k.ulNotifiedValue[t] # 0, c.ticks),
             frame' = [frame EXCEPT ![t] = [frame[t] EXCEPT !.pc = "notified", !.call = c]], UNCHANGED env
      PROVE  Carried
    <2>1. /\ System(k, frame) /\ Run(k, NULL) /\ k.xSchedulerRunning /\ t = k.pxCurrentTCB /\ t # IdleTask
          /\ ProgramCall(c) /\ c.op = "ulTaskNotifyTake"
        BY CallBegins
    <2>2. c.ticks \in Ticks
        BY <2>1 DEF ProgramCall
    <2>3. Run(k', NULL) /\ Underway(k, k')
        BY <1>1, <2>1, <2>2, WaitBegins
    <2>4. k'.xSchedulerRunning
        BY <2>1, <2>3 DEF Underway
    <2> QED BY <1>1, <2>1, <2>3, <2>4, WaitStep
<1>2. ASSUME At(t, "ulTaskNotifyTake", "notified"), NEW new, NEW ret,
             k' = NotWaiting([k EXCEPT !.ulNotifiedValue[t] = new], t), Return(t, ret), UNCHANGED env
      PROVE  Carried
    <2> DEFINE z == [k EXCEPT !.ulNotifiedValue[t] = new]
    <2>1. Run(k, NULL) /\ Frames(k, frame) /\ k.xSchedulerRunning /\ t = k.pxCurrentTCB /\ Mem(k)
        BY <1>2, NotifiedRuns
    <2>2. Run(z, NULL) /\ Underway(k, z) /\ Mem(z)
        BY <2>1, ValueNoted, NotedRuns
    <2> HIDE DEF z
    <2>3. k' = [z EXCEPT !.ucNotifyState[t] = "taskNOT_WAITING_NOTIFICATION"]
        BY <1>2 DEF NotWaiting, z
    <2>4. Run(k', NULL) /\ Underway(z, k')
        BY <2>2, <2>3, StateNoted, NotedRuns
    <2>5. k'.xSchedulerRunning
        BY <2>1, <2>2, <2>4 DEF Underway
    <2> QED BY <1>2, <2>1, <2>4, <2>5, ReturnOK DEF Carried
<1> QED BY <1>1, <1>2 DEF NotifyTake, Becomes

LEMMA NotifyWaitStep ==
    ASSUME EnvOK, System(k, frame) \/ Booting(k, frame, env.sc, env.main), NEW t \in Tasks, NotifyWait(t)
    PROVE  Carried
<1>1. ASSUME NEW c \in Calls(t, "xTaskNotifyWait"), NotifyWaitBegin(t, c.entry, c.ticks),
             frame' = [frame EXCEPT ![t] = [frame[t] EXCEPT !.pc = "notified", !.call = c]], UNCHANGED env
      PROVE  Carried
    <2> DEFINE ready == k.ucNotifyState[t] = "taskNOTIFICATION_RECEIVED"
               z == IF ready THEN k
                    ELSE [k EXCEPT !.ulNotifiedValue[t] = ValueOf(BitsOf(@) \ BitsOf(c.entry))]
    <2>1. /\ System(k, frame) /\ Run(k, NULL) /\ k.xSchedulerRunning /\ t = k.pxCurrentTCB /\ t # IdleTask
          /\ ProgramCall(c) /\ c.op = "xTaskNotifyWait" /\ Mem(k)
        BY CallBegins, RunTypes DEF Run
    <2>2. c.ticks \in Ticks
        BY <2>1 DEF ProgramCall
    <2>3. Run(z, NULL) /\ Underway(k, z) /\ SameCurrent(k, z)
        <3>1. CASE ready
            BY <2>1, <3>1 DEF Underway, SameCurrent
        <3>2. CASE ~ready
            <4> DEFINE new == ValueOf(BitsOf(k.ulNotifiedValue[t]) \ BitsOf(c.entry))
                       w == [k EXCEPT !.ulNotifiedValue[t] = new]
            <4>1. z = w
                BY <3>2
            <4> HIDE DEF z
            <4>2. Run(w, NULL) /\ Underway(k, w) /\ SameCurrent(k, w)
                BY <2>1, ValueNoted, NotedRuns
            <4> QED BY <4>1, <4>2
        <3> QED BY <3>1, <3>2
    <2>4. BeginNotifyWait(t, z, ready, c.ticks)
        BY <1>1 DEF NotifyWaitBegin
    <2> HIDE DEF z, ready
    <2>5. Run(k', NULL) /\ Underway(z, k')
        BY <2>1, <2>2, <2>3, <2>4, WaitBegins DEF SameCurrent
    <2>6. k'.xSchedulerRunning
        BY <2>1, <2>3, <2>5 DEF Underway
    <2> QED BY <1>1, <2>1, <2>5, <2>6, WaitStep
<1>2. ASSUME At(t, "xTaskNotifyWait", "notified"), NEW exit, NotifyWaitEnd(t, exit), NEW ret, Return(t, ret), UNCHANGED env
      PROVE  Carried
    <2> DEFINE got == k.ucNotifyState[t] = "taskNOTIFICATION_RECEIVED"
               new == ValueOf(BitsOf(k.ulNotifiedValue[t]) \ BitsOf(exit))
               w == [k EXCEPT !.ulNotifiedValue[t] = new]
               z == IF got THEN w ELSE k
    <2>1. Run(k, NULL) /\ Frames(k, frame) /\ k.xSchedulerRunning /\ t = k.pxCurrentTCB /\ Mem(k)
        BY <1>2, NotifiedRuns
    <2>2. Run(w, NULL) /\ Underway(k, w) /\ Mem(w)
        BY <2>1, ValueNoted, NotedRuns
    <2>3. k' = [z EXCEPT !.ucNotifyState[t] = "taskNOT_WAITING_NOTIFICATION"]
        BY <1>2 DEF NotifyWaitEnd, NotWaiting
    <2> HIDE DEF w
    <2>4. Run(z, NULL) /\ Underway(k, z) /\ Mem(z)
        BY <2>1, <2>2 DEF Underway
    <2> HIDE DEF z
    <2>5. Run(k', NULL) /\ Underway(z, k')
        BY <2>3, <2>4, StateNoted, NotedRuns
    <2>6. k'.xSchedulerRunning
        BY <2>1, <2>4, <2>5 DEF Underway
    <2> QED BY <1>2, <2>1, <2>5, <2>6, ReturnOK DEF Carried
<1> QED BY <1>1, <1>2 DEF NotifyWait, Becomes

-----------------------------------------------------------------------------
(* The idle task, and the tick. *)

\* A step in which no task goes on in its program.
LEMMA FramesStay ==
    ASSUME NEW x, NEW y, NEW fr, Frames(x, fr), y.uxSchedulerSuspended = x.uxSchedulerSuspended,
           x.uxSchedulerSuspended # 0 => SameCurrent(x, y)
    PROVE  Frames(y, fr)
BY DEF Frames, SameCurrent

LEMMA IdleStep ==
    ASSUME EnvOK, System(k, frame) \/ Booting(k, frame, env.sc, env.main), prvIdleTask
    PROVE  Carried
<1> DEFINE y == prvCheckTasksWaitingTermination(k)
<1>1. /\ k.xSchedulerRunning /\ k.pxCurrentTCB = IdleTask /\ frame[IdleTask].pc = "app"
      /\ k.uxDeletedTasksWaitingCleanUp > 0 /\ k' = y /\ frame' = frame /\ UNCHANGED env
    BY DEF prvIdleTask, Running
<1>2. System(k, frame) /\ Frames(k, frame)
    BY <1>1 DEF Booting, Boot, System
<1>3. Settler(k, frame) = NULL
    BY <1>1 DEF Settler, Settling
<1>4. /\ Run(y, NULL) /\ SameCurrent(k, y)
      /\ y.xSchedulerRunning = k.xSchedulerRunning /\ y.uxSchedulerSuspended = k.uxSchedulerSuspended
    BY <1>1, <1>2, <1>3, CleanUpRuns DEF System
<1> HIDE DEF y
<1>5. Frames(y, frame)
    BY <1>2, <1>4, FramesStay
<1>6. Run(y, Settler(y, frame))
    BY <1>4, FineForAll DEF Run
<1> QED BY <1>1, <1>4, <1>5, <1>6 DEF System, Carried

\* A call of the hook, which ends with a yield if it asked for one.
LEMMA HookKeeps ==
    ASSUME NEW x, NEW c0, Base(x), NEW c, c.op \in TaskOpsFromISR, Alive(x, c.task), Hook(x, c).asserts = {}
    PROVE  Ended(x, Hook(x, c), c0)
<1> DEFINE r == FromISR(x, c)
<1>1. Hook(x, c) = Yielded(r)
    BY DEF Hook
<1>2. CASE c.op = "xTaskResumeFromISR"
    <2>1. r = xTaskResumeFromISR(x, c.task)
        BY <1>2 DEF FromISR
    <2> HIDE DEF r
    <2>2. Interrupted(x, r.k, c0, r.ret)
        BY <2>1, ResumeFromISRKeeps
    <2> QED BY <1>1, <2>2, HookEnds
<1>3. CASE c.op \in {"xTaskGenericNotifyFromISR", "vTaskNotifyGiveFromISR"}
    <2> DEFINE s(a, v) == xTaskGenericNotifyFromISR(x, c.task, a, v)
    <2>1. PICK a, v : r = s(a, v)
        <3>1. r = s(c.action, c.value) \/ r = s("eIncrement", 0)
            BY <1>3 DEF FromISR, vTaskNotifyGiveFromISR
        <3> QED BY <3>1
    <2>2. s(a, v).k.asserts = {} => Interrupted(x, s(a, v).k, c0, s(a, v).ret)
        BY NotifyFromISRKeeps
    <2>3. KernelFields \subseteq DOMAIN s(a, v).k
        BY RunTypes DEF xTaskGenericNotifyFromISR, Notified, MakeReady, configASSERT, prvAddTaskToReadyList,
           RemoveState, Mem, KernelFields
    <2> HIDE DEF s, r
    <2>4. r.k.asserts = {}
        BY <1>1, <2>1, <2>3, YieldAsserts DEF Yielded, YieldIf
    <2> QED BY <1>1, <2>1, <2>2, <2>4, HookEnds
<1> QED BY <1>2, <1>3 DEF TaskOpsFromISR

LEMMA HookFields ==
    ASSUME NEW x, Mem(x), NEW c, c.op \in TaskOpsFromISR
    PROVE  KernelFields \subseteq DOMAIN Hook(x, c)
<1> DEFINE r == FromISR(x, c)
<1>1. r \in {xTaskResumeFromISR(x, c.task), xTaskGenericNotifyFromISR(x, c.task, c.action, c.value),
            xTaskGenericNotifyFromISR(x, c.task, "eIncrement", 0)}
    BY DEF FromISR, vTaskNotifyGiveFromISR, TaskOpsFromISR
<1>2. DOMAIN xTaskResumeFromISR(x, c.task).k = DOMAIN x
    BY DEF xTaskResumeFromISR, prvAddTaskToReadyList, RemoveState
<1>3. ASSUME NEW a, NEW v PROVE DOMAIN xTaskGenericNotifyFromISR(x, c.task, a, v).k = DOMAIN x
    <2> DEFINE k1 == Notified(x, c.task, a, v)
               ka == configASSERT(k1, ~EventContainer(x, c.task), "xTaskGenericNotifyFromISR")
               k2 == MakeReady(ka, c.task)
    <2>1. DOMAIN k1 = DOMAIN x
        BY DEF Notified
    <2>2. DOMAIN ka = DOMAIN k1
        BY DEF configASSERT
    <2>3. DOMAIN k2 = DOMAIN ka
        BY DEF MakeReady, prvAddTaskToReadyList, RemoveState
    <2>4. xTaskGenericNotifyFromISR(x, c.task, a, v).k \in {k1, k2, [k2 EXCEPT !.xYieldPending = TRUE]}
        BY DEF xTaskGenericNotifyFromISR
    <2> HIDE DEF k1, ka, k2
    <2> QED BY <2>1, <2>2, <2>3, <2>4
<1>4. DOMAIN r.k = DOMAIN x
    BY <1>1, <1>2, <1>3
<1> HIDE DEF r
<1>5. DOMAIN portYIELD(r.k) = DOMAIN r.k
    BY DEF portYIELD, vTaskSwitchContext, taskSELECT_HIGHEST_PRIORITY_TASK, configASSERT
<1> QED BY <1>4, <1>5 DEF Hook, Yielded, YieldIf, Mem, r

LEMMA TickStep ==
    ASSUME EnvOK, System(k, frame) \/ Booting(k, frame, env.sc, env.main), Tick, NoAssertFails'
    PROVE  SystemOK'
<1>1. PICK c \in env.hooks \cup {NULL} :
        /\ c # NULL /\ c.op \in TaskOpsFromISR => Live(c.task)
        /\ k' = LET r == Ticked(k)
                IN  Yielded(OrYieldPending(
                        IF r.k.xPendedTicks = 0 \/ r.k.uxSchedulerSuspended # 0
                        THEN [r EXCEPT !.k = IF c = NULL THEN r.k ELSE Hook(r.k, c)] ELSE r))
        /\ env' = [env EXCEPT !.ticks = IF @ = NULL THEN @ ELSE @ - 1, !.hooks = @ \ {c}]
    BY Zenon DEF Tick, TickInterrupt, xTaskIncrementTick, Hooked, Ticked
<1>2. k.xSchedulerRunning /\ frame' = frame
    BY DEF Tick, TickInterrupt
<1>3. System(k, frame) /\ Frames(k, frame)
    BY <1>2 DEF Booting, Boot, System
<1> DEFINE c0 == Settler(k, frame)
           r  == Ticked(k)
           h  == IF c = NULL THEN r.k ELSE Hook(r.k, c)
           r2 == IF r.k.xPendedTicks = 0 \/ r.k.uxSchedulerSuspended # 0 THEN [r EXCEPT !.k = h] ELSE r
           y  == Yielded(OrYieldPending(r2))
<1>4. k' = y
    BY <1>1
<1>5. c # NULL => c.op \in TaskOpsFromISR /\ c.task \in Tasks /\ Alive(k, c.task)
    <2>1. c # NULL => c \in Scenario[env.sc].hooks
        BY <1>1 DEF EnvOK
    <2>2. c # NULL => c.op \in TaskOpsFromISR /\ c.task \in Tasks /\ Live(c.task)
        BY <1>1, <2>1 DEF EnvOK, TaskPrograms, TaskProgram
    <2>3. Mem(k)
        BY <1>3, RunTypes DEF System, Run
    <2> QED BY <2>2, <2>3, LookIs DEF Live, Alive
<1>6. /\ Base(r.k) /\ Quiet(r.k) /\ r.ret \in BOOLEAN /\ DOMAIN r = {"k", "ret"} /\ (r.ret \/ Fine(r.k, c0))
      /\ SameCurrent(k, r.k) /\ Underway(k, r.k) /\ Deleted(r.k) = Deleted(k)
    BY <1>3, TickBegins DEF System
<1> HIDE DEF r
<1>7. h.asserts = {} => Ended(r.k, h, c0)
    <2>1. CASE c = NULL
        BY <1>6, <2>1 DEF Ended, SameRest, SameCurrent
    <2>2. CASE c # NULL
        <3>1. Alive(r.k, c.task)
            BY <1>5, <1>6, <2>2 DEF Alive, Underway
        <3> QED BY <1>5, <1>6, <2>2, <3>1, HookKeeps
    <2> QED BY <2>1, <2>2
<1> HIDE DEF c0
<1>8. Base(r2.k) /\ Quiet(r2.k) /\ Underway(k, r2.k) /\ (r2.ret \/ Fine(r2.k, c0)) /\ DOMAIN r2 = {"k", "ret"}
      /\ (k.uxSchedulerSuspended # 0 => SameCurrent(k, r2.k))
    <2>1. CASE ~(r.k.xPendedTicks = 0 \/ r.k.uxSchedulerSuspended # 0)
        BY <1>6, <2>1
    <2>2. CASE r.k.xPendedTicks = 0 \/ r.k.uxSchedulerSuspended # 0
        <3>1. r2.k = h /\ r2.ret = r.ret /\ DOMAIN r2 = {"k", "ret"}
            BY <1>6, <2>2
        <3>2. KernelFields \subseteq DOMAIN h
            <4>1. CASE c = NULL
                BY <1>6, <4>1, RunTypes DEF Mem
            <4>2. CASE c # NULL
                <5>1. Alive(r.k, c.task) /\ Mem(r.k)
                    BY <1>5, <1>6, <4>2, RunTypes DEF Alive, Underway
                <5> QED BY <1>5, <4>2, <5>1, HookFields
            <4> QED BY <4>1, <4>2
        <3> HIDE DEF h, r2
        <3>3. OrYieldPending(r2).k = h
            BY <3>1 DEF OrYieldPending
        <3>4. h.asserts = {}
            BY <1>4, <3>2, <3>3, YieldAsserts DEF Yielded, YieldIf, NoAssertFails
        <3>5. Ended(r.k, h, c0)
            BY <1>7, <3>4
        <3> QED BY <1>6, <3>1, <3>5 DEF Ended, Quiet, Underway, SameRest, SameCurrent
    <2> QED BY <2>1, <2>2
<1> HIDE DEF r2
<1>9. /\ Run(y, c0) /\ Underway(r2.k, y) /\ (r2.k.uxSchedulerSuspended # 0 => SameCurrent(r2.k, y))
    BY <1>8, TickEnds
<1> HIDE DEF y
<1>10. y.xSchedulerRunning /\ y.uxSchedulerSuspended = k.uxSchedulerSuspended
       /\ (k.uxSchedulerSuspended # 0 => SameCurrent(k, y))
    BY <1>2, <1>8, <1>9 DEF Underway, SameCurrent
<1>11. Frames(y, frame)
    BY <1>3, <1>10, FramesStay
<1>12. Run(y, Settler(y, frame))
    <2>1. Base(y) /\ y.pxCurrentTCB # NULL
        BY <1>9, RunTypes, Numbers DEF Run
    <2>2. CASE y.pxCurrentTCB = c0
        <3>1. k.pxCurrentTCB = c0 /\ Settling(c0, frame[c0])
            BY <2>1, <2>2 DEF c0, Settler
        <3>2. Settler(y, frame) = c0
            BY <2>2, <3>1 DEF Settler
        <3> QED BY <1>9, <3>2
    <2>3. CASE y.pxCurrentTCB # c0
        BY <1>9, <2>3 DEF Run, Fine
    <2> QED BY <2>2, <2>3
<1>13. System(k', frame')
    BY <1>2, <1>4, <1>10, <1>11, <1>12 DEF System
<1>14. env'.sc = env.sc /\ env'.hooks \subseteq env.hooks /\ DOMAIN env' = DOMAIN env
    BY <1>1 DEF EnvOK
<1>15. EnvOK'
    BY <1>14 DEF EnvOK
<1> QED BY <1>13, <1>15 DEF SystemOK

-----------------------------------------------------------------------------
(* main() *)

\* The next of main()'s calls makes another task, or starts the scheduler.
LEMMA MainStep ==
    ASSUME ~configUSE_TIMERS, EnvOK, System(k, frame) \/ Booting(k, frame, env.sc, env.main), Main
    PROVE  SystemOK'
<1> DEFINE main == Scenario[env.sc].main
           n == env.main
           c == main[n]
<1>1. ~k.xSchedulerRunning /\ frame' = frame /\ env' = [env EXCEPT !.main = n + 1]
    BY Zenon DEF Main
<1>2. Boot(k) /\ Frames(k, frame) /\ n \in 1 .. Len(main) /\ k.allocated = {main[i].task : i \in 1 .. n - 1}
    BY <1>1 DEF System, Booting
<1>3. TaskProgram(Scenario[env.sc])
    BY DEF EnvOK, TaskPrograms
<1>4. Scenario[env.sc].count \in Ticks /\ MainCreates(main)
    BY <1>3 DEF TaskProgram
<1>5. EnvOK' /\ env'.sc = env.sc /\ env'.main = n + 1
    BY <1>1 DEF EnvOK
<1>6. CASE n # Len(main)
    <2> HIDE DEF main
    <2>1. n \in 1 .. Len(main) - 1 /\ n \in Nat /\ n + 1 \in 1 .. Len(main)
        BY <1>2, <1>4, <1>6 DEF MainCreates
    <2>2. c.op = "xTaskCreate" /\ c.task \in Tasks /\ c.priority \in Priorities
        BY <1>4, <2>1 DEF MainCreates
    <2>3. c.task \notin k.allocated
        <3> SUFFICES ASSUME NEW i \in 1 .. n - 1 PROVE main[i].task # c.task
            BY <1>2
        <3>1. i \in 1 .. Len(main) - 1 /\ i # n
            BY <2>1
        <3> QED BY <1>4, <2>1, <3>1 DEF MainCreates
    <2> DEFINE y == xTaskCreate(k, c.task, c.priority)
    <2>4. k' = y
        BY <2>2 DEF Main, main
    <2>5. Boot(y) /\ y.allocated = k.allocated \cup {c.task}
        BY <1>2, <2>2, <2>3, CreateBoots
    <2> HIDE DEF y
    <2>6. y.allocated = {main[i].task : i \in 1 .. (n + 1) - 1}
        <3>1. 1 .. (n + 1) - 1 = (1 .. n - 1) \cup {n}
            BY <2>1
        <3> QED BY <1>2, <2>5, <3>1
    <2>7. y.uxSchedulerSuspended = k.uxSchedulerSuspended /\ k.uxSchedulerSuspended = 0
        BY <1>2, <2>5 DEF Boot
    <2>8. Frames(y, frame)
        BY <1>2, <2>7, FramesStay
    <2>9. Booting(y, frame, env.sc, n + 1)
        BY <2>1, <2>5, <2>6, <2>8 DEF Booting, main
    <2> QED BY <1>1, <1>5, <2>4, <2>9 DEF SystemOK
<1>7. CASE n = Len(main)
    <2>1. c.op = "vTaskStartScheduler"
        BY <1>4, <1>7 DEF MainCreates
    <2> DEFINE x == xTaskCreate(k, IdleTask, 0)
               y == Starting(x, Scenario[env.sc].count)
    <2>2. k' = y
        BY <2>1 DEF Main, vTaskStartScheduler, Starting
    <2>3. IdleTask \in Tasks /\ 0 \in Priorities
        BY Numbers
    <2>4. IdleTask \notin k.allocated
        BY <1>2, <1>4, <1>7 DEF MainCreates
    <2>5. Boot(x) /\ x.allocated = k.allocated \cup {IdleTask}
        BY <1>2, <2>3, <2>4, CreateBoots
    <2> HIDE DEF x
    <2>6. Run(y, NULL) /\ y.xSchedulerRunning /\ y.uxSchedulerSuspended = 0
        BY <1>4, <2>5, StartRuns
    <2> HIDE DEF y
    <2>7. k.uxSchedulerSuspended = 0
        BY <1>2 DEF Boot
    <2>8. Frames(y, frame)
        BY <1>2, <2>6, <2>7, FramesStay
    <2>9. Run(y, Settler(y, frame))
        BY <2>6, FineForAll DEF Run
    <2>10. System(k', frame')
        BY <1>1, <2>2, <2>6, <2>8, <2>9 DEF System
    <2> QED BY <1>5, <2>10 DEF SystemOK
<1> QED BY <1>6, <1>7

-----------------------------------------------------------------------------
(* What no such program calls. *)

ServiceOps ==
    {"xQueueGenericSend", "xQueueReceive", "xQueuePeek", "xQueueSemaphoreTake", "xQueueTakeMutexRecursive",
     "xQueueGiveMutexRecursive", "xQueueReset", "xQueueAddToSet", "xQueueRemoveFromSet", "vQueueDelete",
     "xEventGroupSetBits", "xEventGroupClearBits", "xEventGroupWaitBits", "xEventGroupSync", "vEventGroupDelete",
     "xStreamBufferSend", "xStreamBufferReceive", "xStreamBufferNextMessageLengthBytes", "xStreamBufferReset",
     "xStreamBufferSetTriggerLevel", "vStreamBufferDelete",
     "xTimerGenericCommand", "xTimerPendFunctionCall", "vTimerSetReloadMode", "xTimerIsTimerActive"}
ServicePcs ==
    {"try", "suspend", "lock", "test", "place", "unlockTx", "unlockRx", "resume", "yield", "expired",
     "disinherit", "count", "woken", "wait", "forget", "complete", "check", "write", "data", "written",
     "read", "body", "restore"}

\* Neither a call of the other services begins, nor is one under way.
NoService(t) ==
    /\ \A op \in ServiceOps : Calls(t, op) = {} /\ Entering(t, op, "try") = {}
    /\ \A op : \A pc \in ServicePcs : ~At(t, op, pc)

LEMMA NoServiceEver ==
    ASSUME EnvOK, System(k, frame) \/ Booting(k, frame, env.sc, env.main), NEW t \in Tasks
    PROVE  NoService(t)
<1>1. ASSUME NEW op \in ServiceOps PROVE Calls(t, op) = {}
    <2> SUFFICES ASSUME NEW c \in Calls(t, op) PROVE FALSE
        OBVIOUS
    <2>1. ProgramCall(c) /\ c.op = op
        BY CallBegins
    <2> QED BY <2>1 DEF ProgramCall, ServiceOps
<1>2. ASSUME NEW op, NEW pc \in ServicePcs, At(t, op, pc) PROVE FALSE
    <2>1. FrameOK(frame[t]) /\ frame[t].pc = pc
        BY <1>2 DEF At, System, Booting, Frames
    <2> QED BY <2>1 DEF FrameOK, Pcs, ServicePcs
<1>3. \A op \in ServiceOps : Entering(t, op, "try") = {}
    BY <1>1, <1>2 DEF Entering, ServicePcs
<1> QED BY <1>1, <1>2, <1>3 DEF NoService

LEMMA NoBlocking ==
    ASSUME NEW t, NoService(t), NEW op
    PROVE  /\ ~Suspend(t, op) /\ ~Lock(t, op) /\ ~Unlock(t, op) /\ ~Resume(t, op)
           /\ ~At(t, op, "test") /\ ~At(t, op, "place") /\ ~TakeBack(t, op)
           /\ \A otherwise : ~Expired_(t, op, otherwise)
<1>1. /\ ~At(t, op, "suspend") /\ ~At(t, op, "lock") /\ ~At(t, op, "test") /\ ~At(t, op, "place")
      /\ ~At(t, op, "unlockTx") /\ ~At(t, op, "unlockRx") /\ ~At(t, op, "resume") /\ ~At(t, op, "yield")
      /\ ~At(t, op, "expired") /\ ~At(t, op, "disinherit")
    BY DEF NoService, ServicePcs
<1> QED BY Zenon, <1>1 DEF Suspend, Lock, Unlock, Resume, TakeBack, Expired_

LEMMA NoQueueCall ==
    ASSUME NEW t, NoService(t)
    PROVE  ~QueueCall(t)
<1>1. ~QueueGenericSend(t)
    <2>1. Entering(t, "xQueueGenericSend", "try") = {} /\ ~At(t, "xQueueGenericSend", "expired")
        BY DEF NoService, ServiceOps, ServicePcs
    <2> QED BY Zenon, <2>1, NoBlocking DEF QueueGenericSend, Blocked, Test, Place
<1>2. ~QueueReceive(t)
    <2>1. Entering(t, "xQueueReceive", "try") = {}
        BY DEF NoService, ServiceOps
    <2> QED BY Zenon, <2>1, NoBlocking DEF QueueReceive, Receive, Blocked, Test, Place
<1>3. ~QueuePeek(t)
    <2>1. Entering(t, "xQueuePeek", "try") = {}
        BY DEF NoService, ServiceOps
    <2> QED BY Zenon, <2>1, NoBlocking DEF QueuePeek, Receive, Blocked, Test, Place
<1>4. ~QueueSemaphoreTake(t)
    <2>1. Entering(t, "xQueueSemaphoreTake", "try") = {}
        BY DEF NoService, ServiceOps
    <2> QED BY Zenon, <2>1, NoBlocking DEF QueueSemaphoreTake, SemaphoreTake, Receive, Blocked, Test, Place
<1>5. ~QueueTakeMutexRecursive(t)
    <2>1. /\ Calls(t, "xQueueTakeMutexRecursive") = {} /\ Entering(t, "xQueueTakeMutexRecursive", "try") = {}
          /\ ~At(t, "xQueueTakeMutexRecursive", "count")
        BY DEF NoService, ServiceOps, ServicePcs
    <2> QED BY Zenon, <2>1, NoBlocking DEF QueueTakeMutexRecursive, SemaphoreTake, Receive, Blocked, Test, Place
<1>6. /\ Calls(t, "xQueueGiveMutexRecursive") = {} /\ Calls(t, "xQueueReset") = {} /\ Calls(t, "xQueueAddToSet") = {}
      /\ Calls(t, "xQueueRemoveFromSet") = {} /\ Calls(t, "vQueueDelete") = {}
    BY DEF NoService, ServiceOps
<1>7. /\ ~QueueGiveMutexRecursive(t) /\ ~QueueReset(t) /\ ~QueueAddToSet(t) /\ ~QueueRemoveFromSet(t)
      /\ ~QueueDelete(t)
    BY Zenon, <1>6 DEF QueueGiveMutexRecursive, QueueReset, InOneStep, QueueAddToSet, QueueRemoveFromSet, QueueDelete
<1> QED BY <1>1, <1>2, <1>3, <1>4, <1>5, <1>7 DEF QueueCall

LEMMA NoServiceCall ==
    ASSUME NEW t, NoService(t)
    PROVE  ~ServiceCall(t)
<1>1. /\ \A op : ~At(t, op, "woken") /\ ~At(t, op, "wait") /\ ~At(t, op, "forget") /\ ~At(t, op, "complete")
      /\ \A op : ~At(t, op, "expired")
      /\ \A op : ~At(t, op, "check") /\ ~At(t, op, "write") /\ ~At(t, op, "data") /\ ~At(t, op, "written")
      /\ \A op : ~At(t, op, "read") /\ ~At(t, op, "body") /\ ~At(t, op, "restore")
    BY DEF NoService, ServicePcs
<1>2. /\ Calls(t, "xEventGroupSetBits") = {} /\ Calls(t, "xEventGroupClearBits") = {}
      /\ Calls(t, "xEventGroupWaitBits") = {} /\ Calls(t, "xEventGroupSync") = {} /\ Calls(t, "vEventGroupDelete") = {}
      /\ Calls(t, "xStreamBufferSend") = {} /\ Calls(t, "xStreamBufferReceive") = {}
      /\ Calls(t, "xStreamBufferNextMessageLengthBytes") = {} /\ Calls(t, "xStreamBufferReset") = {}
      /\ Calls(t, "xStreamBufferSetTriggerLevel") = {} /\ Calls(t, "vStreamBufferDelete") = {}
      /\ Calls(t, "xTimerGenericCommand") = {} /\ Calls(t, "xTimerPendFunctionCall") = {}
      /\ Calls(t, "vTimerSetReloadMode") = {} /\ Calls(t, "xTimerIsTimerActive") = {}
    BY DEF NoService, ServiceOps
<1>3. ~SetBits(t) /\ ~ClearBits(t) /\ ~WaitBits(t) /\ ~Sync(t) /\ ~EventGroupDelete(t)
    BY Zenon, <1>1, <1>2 DEF SetBits, ClearBits, WaitBits, Sync, EventGroupDelete, Woken
<1>4. ~StreamSend(t)
    BY Zenon, <1>1, <1>2 DEF StreamSend, AwaitNotice, Complete
<1>5. ~StreamReceive(t)
    BY Zenon, <1>1, <1>2 DEF StreamReceive, AwaitNotice, Complete
<1>6. ~NextMessageLength(t) /\ ~StreamReset(t) /\ ~StreamDelete(t) /\ ~StreamSetTriggerLevel(t)
    BY Zenon, <1>1, <1>2 DEF NextMessageLength, StreamReset, StreamDelete, StreamSetTriggerLevel, InOneStep
<1>7. ~TimerCommand(t) /\ ~PendFunctionCall(t) /\ ~SetReloadMode(t) /\ ~IsTimerActive(t)
    BY Zenon, <1>2 DEF TimerCommand, PendFunctionCall, SetReloadMode, IsTimerActive, InOneStep
<1> QED BY <1>3, <1>4, <1>5, <1>6, <1>7 DEF ServiceCall

-----------------------------------------------------------------------------
(* The start, and every step. *)

LEMMA MemoryBoots ==
    ASSUME NEW n \in Ticks
    PROVE  Boot(Memory(n)) /\ Memory(n).allocated = {} /\ Memory(n).uxSchedulerSuspended = 0
<1> DEFINE x == Memory(n)
<1>1. /\ x.pxCurrentTCB = NULL /\ x.xSchedulerRunning = FALSE /\ x.xYieldPending = FALSE
      /\ x.uxSchedulerSuspended = 0 /\ x.xPendedTicks = 0 /\ x.uxTopReadyPriority = {}
      /\ x.uxDeletedTasksWaitingCleanUp = 0 /\ x.xTickCount = n /\ x.xNextTaskUnblockTime = 0
      /\ x.elapsed = 0 /\ x.allocated = {}
    BY DEF Memory
<1>2. /\ x.pxDelayedTaskList = <<>> /\ x.pxOverflowDelayedTaskList = <<>> /\ x.xPendingReadyList = <<>>
      /\ x.xSuspendedTaskList = <<>> /\ x.xTasksWaitingTermination = <<>>
      /\ x.xEventLists = [e \in EventLists |-> <<>>]
      /\ x.pxReadyTasksLists = [p \in Priorities |-> vListInitialise]
    BY DEF Memory
<1>3. /\ x.uxPriority = [t \in Tasks |-> 0] /\ x.uxBasePriority = [t \in Tasks |-> 0]
      /\ x.xItemValue = [t \in Tasks |-> 0] /\ x.due = [t \in Tasks |-> 0]
    BY DEF Memory
<1>4. KernelFields \subseteq DOMAIN x
    BY DEF Memory, KernelFields
<1> HIDE DEF x
<1>5. <<>> \in TaskLists /\ Elements(<<>>) = {} /\ Len(<<>>) = 0 /\ DOMAIN <<>> = {}
    BY DEF TaskLists, Distinct, Elements
<1>6. vListInitialise.items = <<>> /\ vListInitialise \in ReadyLists
    <2>1. vListInitialise.items = <<>> /\ vListInitialise.index = 0 /\ vListInitialise \in [items : Seq(Tasks), index : Nat]
        BY DEF vListInitialise
    <2> QED BY <1>5, <2>1 DEF ReadyLists, GoodReady, Distinct
<1>7. 0 \in 0 .. ElapsedMod - 1
    BY Numbers
<1>8. Mem(x)
    BY <1>1, <1>2, <1>3, <1>4, <1>5, <1>6, <1>7, Numbers DEF Mem
<1>9. /\ \A p \in Priorities : ReadyAt(x, p) = {}
      /\ Ready(x) = {} /\ Delayed(x) = {} /\ Overflowed(x) = {} /\ Suspended(x) = {} /\ Deleted(x) = {}
      /\ Pended(x) = {} /\ Waiting(x) = {} /\ \A e \in EventLists : WaitingAt(x, e) = {}
    BY <1>2, <1>5, <1>6 DEF ReadyAt, Ready, Delayed, Overflowed, Suspended, Deleted, Pended, Waiting, WaitingAt
<1>10. Homes(x, {}) /\ Ranked(x) /\ Bits(x, {}) /\ Apart(x)
    BY <1>1, <1>9 DEF Homes, Ranked, Bits, Apart
<1>11. Times(x, 1)
    BY <1>2, <1>5, <1>9 DEF Times, SortedBy
<1> QED BY <1>1, <1>2, <1>5, <1>8, <1>9, <1>10, <1>11 DEF Boot, Sound, x

LEMMA InitOK ==
    ASSUME Init, env.sc \in TaskPrograms
    PROVE  SystemOK
<1> DEFINE s == Scenario[env.sc]
<1>1. /\ frame = [t \in Tasks |-> NewFrame] /\ k = Memory(s.count) /\ env.main = 1 /\ env.hooks = s.hooks
      /\ DOMAIN env = {"sc", "main", "ticks", "hooks"}
    BY DEF Init
<1>2. s.count \in Ticks /\ MainCreates(s.main)
    BY DEF TaskPrograms, TaskProgram
<1>3. Boot(k) /\ k.allocated = {} /\ k.uxSchedulerSuspended = 0
    BY <1>1, <1>2, MemoryBoots
<1>4. Frames(k, frame)
    BY <1>1, NewFrameOK DEF Frames
<1>5. 1 \in 1 .. Len(s.main) /\ {s.main[i].task : i \in 1 .. 1 - 1} = {}
    BY <1>2 DEF MainCreates
<1> HIDE DEF s
<1>6. Booting(k, frame, env.sc, env.main)
    BY <1>1, <1>3, <1>4, <1>5 DEF Booting, s
<1>7. EnvOK
    BY <1>1 DEF EnvOK, s
<1> QED BY <1>6, <1>7 DEF SystemOK

LEMMA CallStep ==
    ASSUME EnvOK, System(k, frame) \/ Booting(k, frame, env.sc, env.main), NEW t \in Tasks, TaskCall(t),
           NoAssertFails'
    PROVE  Carried
<1>1. CASE ResumeAll(t) \/ Yield(t)
    BY <1>1, ResumeAllStep, YieldStep
<1>2. CASE TaskDelay(t) \/ TaskDelayUntil(t) \/ TaskAbortDelay(t) \/ TaskCatchUpTicks(t)
    BY <1>2, DelayStep, DelayUntilStep, AbortDelayStep, CatchUpTicksStep
<1>3. CASE TaskCreate(t) \/ TaskDelete(t) \/ TaskSuspend(t) \/ TaskResume(t) \/ TaskPrioritySet(t) \/ TaskGetHandle(t)
    BY <1>3, CreateStep, DeleteStep, SuspendStep, ResumeStep, PrioritySetStep, GetHandleStep
<1>4. CASE SuspendAllCall(t) \/ ResumeAllCall(t) \/ YieldCall(t)
    BY <1>4, SuspendAllStep, ResumeAllCallStep, YieldCallStep
<1>5. CASE TaskNotify(t) \/ NotifyStateClear(t) \/ NotifyValueClear(t) \/ NotifyTake(t) \/ NotifyWait(t)
    BY <1>5, NotifyStep, StateClearStep, ValueClearStep, NotifyTakeStep, NotifyWaitStep
<1> QED BY <1>1, <1>2, <1>3, <1>4, <1>5 DEF TaskCall

\* The invariant is kept by every step but the one in which an assertion fails.
LEMMA NextKeeps ==
    ASSUME ~configUSE_TIMERS, SystemOK, [Next]_vars, NoAssertFails'
    PROVE  SystemOK'
<1>1. EnvOK /\ (System(k, frame) \/ Booting(k, frame, env.sc, env.main))
    BY DEF SystemOK
<1>2. ASSUME Carried PROVE SystemOK'
    BY <1>1, <1>2 DEF Carried, SystemOK, EnvOK
<1>3. CASE Main
    BY <1>1, <1>3, MainStep
<1>4. CASE Tick
    BY <1>1, <1>4, TickStep
<1>5. CASE prvIdleTask
    BY <1>1, <1>2, <1>5, IdleStep
<1>6. CASE prvTimerTask
    BY <1>6 DEF prvTimerTask
<1>7. ASSUME NEW t \in Tasks, TaskCall(t) \/ QueueCall(t) \/ ServiceCall(t) PROVE SystemOK'
    <2>1. NoService(t)
        BY <1>1, NoServiceEver
    <2>2. TaskCall(t)
        BY <1>7, <2>1, NoQueueCall, NoServiceCall
    <2>3. Carried
        BY <1>1, <2>2, CallStep
    <2> QED BY <1>2, <2>3
<1>8. CASE UNCHANGED vars
    BY <1>1, <1>8 DEF vars, SystemOK, EnvOK
<1> QED BY <1>3, <1>4, <1>5, <1>6, <1>7, <1>8 DEF Next

-----------------------------------------------------------------------------
(* What the invariant says of the system. *)

\* The lists and counters, before the scheduler runs and while it does.
LEMMA SoundAlways ==
    ASSUME SystemOK
    PROVE  /\ Sound(k, {}, {}, 1) /\ Mem(k) /\ Quiet(k) /\ Frames(k, frame)
           /\ k.xSchedulerRunning => System(k, frame)
BY DEF SystemOK, System, Booting, Boot, Run, Base, Sound, Quiet

\* A list that holds every task once at most counts 1 or 0.
LEMMA CountIs ==
    ASSUME NEW s \in TaskLists, NEW t \in Tasks
    PROVE  Count(s, t) = IF t \in Elements(s) THEN 1 ELSE 0
<1>1. CASE t \notin Elements(s)
    <2>1. Places(s, t) = {}
        BY <1>1 DEF Places, Elements
    <2> QED BY <1>1, <2>1, FS_EmptySet DEF Count
<1>2. CASE t \in Elements(s)
    <2>1. PICK i \in DOMAIN s : s[i] = t
        BY <1>2 DEF Elements
    <2>2. Places(s, t) = {i}
        BY <2>1 DEF Places, TaskLists, Distinct
    <2> QED BY <1>2, <2>2, FS_Singleton DEF Count
<1> QED BY <1>1, <1>2

\* So do lists of which one at most holds the task.
CountAll(S, f, t) == Cardinality(UNION {{p} \X Places(f[p], t) : p \in S})

LEMMA CountAllIs ==
    ASSUME NEW S, NEW f, \A p \in S : f[p] \in TaskLists, NEW t \in Tasks,
           \A p, q \in S : t \in Elements(f[p]) /\ t \in Elements(f[q]) => p = q
    PROVE  CountAll(S, f, t) = IF \E p \in S : t \in Elements(f[p]) THEN 1 ELSE 0
<1> DEFINE all == UNION {{p} \X Places(f[p], t) : p \in S}
<1>1. \A p \in S : t \notin Elements(f[p]) => Places(f[p], t) = {}
    BY DEF Places, Elements
<1>2. CASE ~\E p \in S : t \in Elements(f[p])
    <2>1. all = {}
        BY <1>1, <1>2
    <2> QED BY <1>2, <2>1, FS_EmptySet DEF CountAll
<1>3. CASE \E p \in S : t \in Elements(f[p])
    <2>1. PICK p \in S : t \in Elements(f[p])
        BY <1>3
    <2>2. PICK i \in DOMAIN f[p] : f[p][i] = t
        BY <2>1 DEF Elements
    <2>3. Places(f[p], t) = {i}
        BY <2>2 DEF Places, TaskLists, Distinct
    <2>4. all = {<<p, i>>}
        <3>1. \A q \in S : q # p => Places(f[q], t) = {}
            BY <1>1, <2>1
        <3> QED BY <2>1, <2>3, <3>1
    <2> QED BY <1>3, <2>4, FS_Singleton DEF CountAll
<1> QED BY <1>2, <1>3

LEMMA ReadyCount ==
    ASSUME Mem(k), Ranked(k), NEW t \in Tasks
    PROVE  Cardinality(UNION {{p} \X Places(k.pxReadyTasksLists[p].items, t) : p \in Priorities})
               = IF t \in Ready(k) THEN 1 ELSE 0
<1> DEFINE f == [p \in Priorities |-> k.pxReadyTasksLists[p].items]
<1>1. \A p \in Priorities : f[p] = k.pxReadyTasksLists[p].items /\ f[p] \in TaskLists
    BY DEF Mem, ReadyLists, GoodReady, TaskLists
<1>2. \A p \in Priorities : Elements(f[p]) = ReadyAt(k, p)
    BY <1>1 DEF ReadyAt
<1>3. \A p, q \in Priorities : t \in Elements(f[p]) /\ t \in Elements(f[q]) => p = q
    BY <1>2 DEF Ranked
<1>4. {{p} \X Places(k.pxReadyTasksLists[p].items, t) : p \in Priorities} = {{p} \X Places(f[p], t) : p \in Priorities}
    BY <1>1
<1>5. (\E p \in Priorities : t \in Elements(f[p])) <=> t \in Ready(k)
    BY <1>2 DEF Ready
<1> HIDE DEF f
<1>6. CountAll(Priorities, f, t) = IF \E p \in Priorities : t \in Elements(f[p]) THEN 1 ELSE 0
    BY <1>1, <1>3, CountAllIs
<1> QED BY <1>4, <1>5, <1>6 DEF CountAll

LEMMA WaitingCount ==
    ASSUME Mem(k), Apart(k), NEW t \in Tasks
    PROVE  Cardinality(UNION {{e} \X Places(k.xEventLists[e], t) : e \in EventLists})
               = IF t \in Waiting(k) THEN 1 ELSE 0
<1> DEFINE S == EventLists
           f == k.xEventLists
<1>1. /\ \A p \in S : f[p] \in TaskLists
      /\ \A p \in S : Elements(f[p]) = WaitingAt(k, p)
    BY DEF Mem, WaitingAt
<1>2. \A p, q \in S : t \in Elements(f[p]) /\ t \in Elements(f[q]) => p = q
    BY <1>1 DEF Apart
<1>3. (\E p \in S : t \in Elements(f[p])) <=> t \in Waiting(k)
    BY <1>1 DEF Waiting
<1> HIDE DEF f, S
<1>4. CountAll(S, f, t) = IF \E p \in S : t \in Elements(f[p]) THEN 1 ELSE 0
    BY <1>1, <1>2, CountAllIs
<1> QED BY <1>3, <1>4 DEF CountAll, f, S

LEMMA OnePlaceOK ==
    ASSUME SystemOK
    PROVE  OnePlace
<1>1. Mem(k) /\ Homes(k, {}) /\ Ranked(k) /\ Bits(k, {}) /\ Apart(k) /\ Quiet(k)
    BY SoundAlways DEF Sound
<1> DEFINE b(in) == IF in THEN 1 ELSE 0
<1>2. ASSUME NEW t \in Tasks
      PROVE  /\ StateItems(t) = b(t \in Ready(k)) + b(t \in Delayed(k)) + b(t \in Overflowed(k))
                                    + b(t \in Suspended(k)) + b(t \in Deleted(k))
             /\ EventItems(t) = b(t \in Waiting(k)) + b(t \in Pended(k))
    <2>1. /\ Count(k.pxDelayedTaskList, t) = b(t \in Delayed(k))
          /\ Count(k.pxOverflowDelayedTaskList, t) = b(t \in Overflowed(k))
          /\ Count(k.xSuspendedTaskList, t) = b(t \in Suspended(k))
          /\ Count(k.xTasksWaitingTermination, t) = b(t \in Deleted(k))
          /\ Count(k.xPendingReadyList, t) = b(t \in Pended(k))
        BY <1>1, CountIs DEF Mem, Delayed, Overflowed, Suspended, Deleted, Pended
    <2>2. Cardinality(UNION {{p} \X Places(k.pxReadyTasksLists[p].items, t) : p \in Priorities}) = b(t \in Ready(k))
        BY <1>1, ReadyCount
    <2>3. Cardinality(UNION {{e} \X Places(k.xEventLists[e], t) : e \in EventLists}) = b(t \in Waiting(k))
        BY <1>1, WaitingCount
    <2> QED BY <2>1, <2>2, <2>3 DEF StateItems, EventItems
<1>3. k.allocated \subseteq Tasks
    BY <1>1 DEF Mem
<1>4. ASSUME NEW t \in k.allocated PROVE StateItems(t) = 1 /\ EventItems(t) <= 1
    <2>1. t \in Tasks
        BY <1>3
    <2>2. StateItems(t) = 1
        BY <1>1, <1>2, <2>1 DEF Homes
    <2>3. EventItems(t) <= 1
        BY <1>1, <1>2, <2>1 DEF Apart
    <2> QED BY <2>2, <2>3
<1>5. ASSUME NEW t \in Tasks \ k.allocated PROVE StateItems(t) = 0 /\ EventItems(t) = 0
    BY <1>1, <1>2 DEF Homes, Apart
<1>6. ASSUME NEW t \in k.allocated, NEW p \in Priorities, InReady(k, p, t) PROVE k.uxPriority[t] = p
    BY <1>1, <1>3, <1>6, LookIs DEF Ranked
<1>7. k.uxTopReadyPriority = {p \in Priorities : k.pxReadyTasksLists[p].items # <<>>}
    <2>1. \A p \in Priorities : k.pxReadyTasksLists[p].items \in Seq(Tasks)
        BY <1>1 DEF Mem, ReadyLists
    <2>2. \A p \in Priorities : k.pxReadyTasksLists[p].items = <<>> <=> ReadyAt(k, p) = {}
        BY <2>1, NobodyIn DEF ReadyAt
    <2> QED BY <1>1, <2>2 DEF Bits, Mem
<1>8. k.uxSchedulerSuspended = 0 => k.xPendingReadyList = <<>> /\ k.xPendedTicks = 0
    <2>1. k.xPendingReadyList \in Seq(Tasks)
        BY <1>1 DEF Mem, TaskLists
    <2> QED BY <1>1, <2>1, NobodyIn DEF Quiet, Pended
<1> QED BY <1>4, <1>5, <1>6, <1>7, <1>8 DEF OnePlace

LEMMA HighestRunsOK ==
    ASSUME SystemOK
    PROVE  HighestRuns
<1> DEFINE c == k.pxCurrentTCB
<1> SUFFICES ASSUME k.xSchedulerRunning, k.uxSchedulerSuspended = 0, ~k.xYieldPending,
                    frame[c].pc \notin {"portYIELD", "yield", "prvResetNextTaskUnblockTime"}
             PROVE  InReady(k, k.uxPriority[c], c) /\ \A p \in k.uxTopReadyPriority : p <= k.uxPriority[c]
    BY DEF HighestRuns
<1>1. /\ Run(k, Settler(k, frame)) /\ Frames(k, frame) /\ Mem(k) /\ Ranked(k) /\ Bits(k, {})
      /\ c \in Tasks /\ k.uxPriority[c] \in Priorities
    BY SoundAlways, RunTypes DEF System, Run, Sound
<1>2. Settler(k, frame) = NULL
    BY <1>1 DEF Frames, Settler, Settling
<1>3. Highest(k)
    BY <1>1, <1>2, FineForAll DEF Run
<1>4. InReady(k, k.uxPriority[c], c)
    BY <1>1, <1>3, LookIs DEF Highest, Ready, Ranked
<1>5. ASSUME NEW p \in k.uxTopReadyPriority PROVE p <= k.uxPriority[c]
    <2>1. p \in Priorities /\ ReadyAt(k, p) # {}
        BY <1>1 DEF Bits, Mem
    <2>2. PICK u : u \in ReadyAt(k, p)
        BY <2>1
    <2>3. u \in Tasks
        BY <1>1, <2>1, <2>2 DEF ReadyAt, Elements, Mem, ReadyLists
    <2>4. u \in Ready(k) /\ k.uxPriority[u] = p
        BY <1>1, <2>1, <2>2, <2>3 DEF Ready, Ranked
    <2> QED BY <1>3, <2>4 DEF Highest
<1> QED BY <1>4, <1>5

LEMMA NoOverdueOK ==
    ASSUME SystemOK
    PROVE  NoOverdue
<1> SUFFICES ASSUME NEW t \in k.allocated,
                    InState(k.pxDelayedTaskList, t) \/ InState(k.pxOverflowDelayedTaskList, t)
             PROVE  Ahead(t) \in 1 .. TickMod - 1
    BY DEF NoOverdue
<1>1. Mem(k) /\ Times(k, 1) /\ t \in Tasks
    BY SoundAlways DEF Sound, Mem
<1>2. t \in Delayed(k) \/ t \in Overflowed(k)
    BY <1>1, LookIs
<1> QED BY <1>1, <1>2 DEF Times, Until, Ahead

LEMMA TypesOK ==
    ASSUME SystemOK
    PROVE  TypeOK
<1>1. Mem(k) /\ DOMAIN frame = Tasks
    BY SoundAlways DEF Frames
<1> QED BY <1>1 DEF Mem, TypeOK, Ticks

-----------------------------------------------------------------------------
(* What is proved, of a system without software timers in which the tasks  *)
(* and the hook make the calls of task.h.  A configASSERT that fails stops *)
(* the program, so the claims are about what comes before one does.        *)

LEMMA SystemHolds ==
    ASSUME ~configUSE_TIMERS
    PROVE  Spec /\ env.sc \in TaskPrograms /\ []NoAssertFails => []SystemOK
<1>1. Init /\ env.sc \in TaskPrograms => SystemOK
    BY InitOK
<1>2. SystemOK /\ [Next]_vars /\ NoAssertFails' => SystemOK'
    BY NextKeeps
<1> QED BY <1>1, <1>2, PTL DEF Spec

\* Numbers stay in their ranges (tasks.c: the counters and priorities).
THEOREM NumbersInRange ==
    ASSUME ~configUSE_TIMERS
    PROVE  Spec /\ env.sc \in TaskPrograms /\ []NoAssertFails => []TypeOK
<1>1. SystemOK => TypeOK
    BY TypesOK
<1> QED BY <1>1, SystemHolds, PTL

\* However the tasks block, wake, suspend, resume, change priority, delete and
\* create each other, and whatever the tick and its hook do in between, every task
\* is in exactly one state list, its event item in one list at most, and the bits
\* of uxTopReadyPriority are those of the lists that are not empty
\* (tasks.c: every function that moves a TCB).
THEOREM EveryTaskInOnePlace ==
    ASSUME ~configUSE_TIMERS
    PROVE  Spec /\ env.sc \in TaskPrograms /\ []NoAssertFails => []OnePlace
<1>1. SystemOK => OnePlace
    BY OnePlaceOK
<1> QED BY <1>1, SystemHolds, PTL

\* Between two calls, unless the scheduler is suspended or a switch is pending,
\* the running task is ready and none that is ready has a higher priority
\* (tasks.c:2989 vTaskSwitchContext).
THEOREM TheMostUrgentRuns ==
    ASSUME ~configUSE_TIMERS
    PROVE  Spec /\ env.sc \in TaskPrograms /\ []NoAssertFails => []HighestRuns
<1>1. SystemOK => HighestRuns
    BY HighestRunsOK
<1> QED BY <1>1, SystemHolds, PTL

\* No delayed task sleeps past the tick it asked for, however often the counter
\* wraps, the two lists are switched and ticks are pended and caught up with
\* (tasks.c:2707 xTaskIncrementTick, 5177 prvAddCurrentTaskToDelayedList).
THEOREM NobodyOversleeps ==
    ASSUME ~configUSE_TIMERS
    PROVE  Spec /\ env.sc \in TaskPrograms /\ []NoAssertFails => []NoOverdue
<1>1. SystemOK => NoOverdue
    BY NoOverdueOK
<1> QED BY <1>1, SystemHolds, PTL

=============================================================================
