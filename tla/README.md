# Formal model of swift_riscv

swift_riscv is a 32-bit RISC-V (RV32IM, machine mode) system on chip written in
Verilog, with a three-stage pipeline, static branch prediction and a return
stack, tightly coupled memories, an instruction and a data cache over an
external bus, a machine timer, an interrupt controller and a UART.  Its
repository also holds the software it runs: FreeRTOS, the driver of the timer,
and CoreMark.  This directory holds TLA+ models of the hardware and of the
software, the configurations that check them with TLC, and proofs checked with
TLAPS.

`PROJECT.json` names, for every definition that models code, the file and lines
it stands for; it also lists the runs, the seeded faults, the hazards of the
code and the theorems.

## 1. The system

### Hardware

Paths are relative to `src/rtl/core/` unless they say otherwise.

| part | source | state it keeps | operations | how it interacts |
|---|---|---|---|---|
| fetch | `pc_reg.v`, `pc_mux.v`, `predict.v` | `pc`, `stop` | advance, hold, redirect, predict | asks the ILM or the icache for the word at `pc`, the return stack for a target |
| pipeline registers | `if_to_decode_dff.v`, `decode_to_alu_dff.v` | the two stages behind fetch | load, hold, flush | stalled and flushed together by `core_top.v` |
| decode | `decode_ctrl.v`, `reg_file.v`, read ports of `csr_reg.v` | the register file | read operands, forward from execute | feeds execute |
| execute | `alu.v`, `mul.v`, `div.v` | the divider | compute, resolve jumps, raise traps, write back | redirects the fetch, stalls everything, drives the data access |
| traps and interrupts | `csr_reg.v`, `clint.v`, `int_switch.v` | CSRs, `curr_state`, `instruction_addr_dll` | trap entry, interrupt entry, `mret` | redirect the fetch, empty the pipeline |
| return stack | `ras_stack.v` | eight addresses and a pointer | push, pop, replace | driven by the fetched instruction, every clock |
| gshare | `gshare.v`, `saturating_counter.v` | history, counters | update, predict | its prediction is not used by `predict.v` |
| memory system | `addr_mux.v`, `cache.v`, `cpu_to_bus.v`, `../bus/simple_bus.v`, `../flash/flash.v`, `../uart/uart.v` | two caches, the fill's counter and line, the bus phase | lookup, fill, single access | serves fetches and data accesses, stalls the pipeline |
| local memories | `data_lm.v`, `instruction_lm.v` | two memories, the range error | load, store by byte lanes | answers in the cycle of the access; the range error traps a cycle later |
| machine timer | `mtimer.v`, `src/c_test/mtimer/mtimer.c` | counter, compare register, line; the driver's variables | read and write by halves, configure, handle | raises the timer interrupt |
| clock and reset | `../crg/*.v` | dividers, synchronisers | divide, synchronise | feeds every block |

### Software

Paths are relative to `src/c_test/FreeRTOS/Source/` unless they say otherwise.

| part | source | state it keeps | operations | how it interacts |
|---|---|---|---|---|
| scheduler | `tasks.c`, `list.c` | the ready, delayed, overflow, pending, suspended and terminated lists, the tick count, ticks missed, priorities, notifications | tick, switch, delay, suspend, resume, create, delete, priorities, notify | entered by tasks in critical sections, by the tick interrupt anywhere else |
| queues, semaphores, mutexes, sets | `queue.c` | items, two lists of waiting tasks, two locks, holder | send, receive, peek, take, give, overwrite, lock and unlock | blocks and wakes tasks; a mutex lends priorities |
| event groups | `event_groups.c` | bits, a list of waiting tasks | set, clear, wait, synchronise, delete | interrupts go through the timer daemon |
| stream and message buffers | `stream_buffer.c` | a ring, two registered tasks | send, receive, reset, lengths | one reader and one writer without a common lock; they tell each other by notifications |
| software timers | `timers.c` | two lists, a command queue, the last tick seen | start, stop, reset, change, delete, pend a function | a daemon task; tasks, interrupts and callbacks send it commands |
| co-routines | `croutine.c`, `queue.c` | ready, delayed and pending lists | create, schedule, delay, send, receive | run inside one task; interrupts wake them |
| heaps | `portable/MemMang/heap_{1,2,4,5}.c` | a list of free blocks | allocate, free, statistics | called with the scheduler suspended |
| port layer | `portable/RISC-V/*` | saved registers | critical sections, yield, tick | `ecall` and the timer interrupt |
| CoreMark | `../../coremark/*.c` | a list, three matrices, a text | sort and search, multiply, scan | sequential |

Where it is hard to get right, and hard to reach with a directed test:

* **Timing of the pipeline.**  Five independent sources hold it (divider, fetch
  miss, two kinds of bus wait) and five empty it (wrong guess, `ecall`, illegal
  instruction, `mret`, interrupt), and any two can meet in a cycle.  An
  instruction held in execute keeps driving its results in every cycle it waits.
* **Two units that share one port.**  Fills of both caches and single accesses
  use one address, one write enable and one answer on the bus; the pipeline may
  be redirected while any of them is under way.
* **Read-modify sequences over a running clock.**  64-bit timer registers are
  read and written by halves.
* **State chosen a cycle too early or too late.**  The divider looks at its own
  operation register before it is loaded; the range error of a local memory
  belongs to the access before; the timer line is an edge late.

* **Calls that block.**  A FreeRTOS call that waits tests in one critical
  section, suspends the scheduler, locks the queue, tests again, places itself
  in a list, unlocks in two critical sections, and resumes the scheduler, which
  may switch.  Interrupts come between all of these, other tasks between some,
  and the wait may end by the event, by its time, or by being aborted.
* **A tick counter that wraps.**  Two lists of delayed tasks and two lists of
  timers are exchanged when it does, some of it later, when the daemon notices.
* **Priorities lent.**  The holder of a mutex inherits a priority, keeps it while it
  holds others, and gives part of it back when a waiter gives up.
* **Readers and writers without a lock.**  The two ends of a stream buffer
  exchange bytes and sleep on each other's word.

What makes each part correct: the pipeline executes programs as the
instruction set says, and never stops; an interrupt resumes where it
interrupted; the return stack holds the open calls; a fetch delivers what flash
holds; a store to a device is taken once; every stall ends; the four divisions
and the four multiplications are the ones RISC-V defines; a local memory is an
array of bytes; timer ticks are neither early, lost for ever, nor drifting.  In
the software: every task is in one place; the most urgent ready task runs; no
task sleeps while what it waits for is there, or past its time; a lent priority
covers every waiter; bytes and messages arrive as they were sent; a timer
expires neither early nor never; blocks tile the heap; calls return.

## 2. Modules

| module | what it is | lines it models |
|---|---|---|
| `Riscv` | classes of instruction and what one instruction computes, with arithmetic as parameters | `alu.v` |
| `Isa` | **abstract**: one instruction at a time, in program order | the promise of `README.md:26` |
| `Pipeline` | the three stages, traps, interrupts, one step per clock edge | `core_top.v`, `predict.v`, `pc_mux.v`, `pc_reg.v`, `decode_ctrl.v`, `reg_file.v`, `csr_reg.v`, `clint.v`, `alu.v` |
| `Pipeline_proofs` | `Pipeline` keeps its invariants and implements `Isa` | |
| `ReturnStack` | the stack against the program's open calls | `ras_stack.v` |
| `Cache` | lookup, replacement and fill as operators | `cache.v` |
| `MemSys`, `MemSys_proofs` | extends `Cache` by the fill logic, bus, flash and UART | `addr_mux.v`, `cpu_to_bus.v`, `simple_bus.v`, `flash.v`, `uart.v` |
| `Divider` | the restoring divider | `div.v` |
| `Multiplier` | the radix-4 Booth multiplier | `mul.v` |
| `ByteMemory` | **abstract**: loads and stores on an array of bytes, with traps | the promise of `README.md:32` |
| `LoadStore` | byte lanes and extension; implements `ByteMemory` | `data_lm.v`, `instruction_lm.v`, `alu.v` |
| `Mtimer` | timer and driver together | `mtimer.v`, `mtimer.c` |
| `Units` | extends the stack, the timer, the divider, the multiplier and the load/store path, and runs one of them at a time | |
| `Units_proofs` | proofs about each of the five, at every size and width | |
| `Lists`, `Kernel` | FreeRTOS lists; the scheduler as operators on one record `k` | `list.c`, `tasks.c` |
| `Lists_proofs`, `Kernel_proofs` | what each operator on a list, and each function of the scheduler, does and preserves | |
| `Tasks` | the calls of `task.h` as the steps a task takes through them | `tasks.c` |
| `QueueMemory`, `Queues` | what the critical sections do to a queue; the calls as steps | `queue.c` |
| `EventGroups`, `StreamBuffers`, `Timers` | the services | `event_groups.c`, `stream_buffer.c`, `timers.c` |
| `Rtos` | all of FreeRTOS under an application, with the tick interrupt; the properties | |
| `Rtos_proofs` | the scheduler under any program of tasks keeps its invariant | |
| `Croutine` | co-routines with their queues and interrupts | `croutine.c`, `queue.c` |
| `Heap`, `Heap_proofs` | the four allocators under any calls of their two functions | `heap_1.c`, `heap_2.c`, `heap_4.c`, `heap_5.c` |
| `CoreState` | CoreMark's state machine | `core_state.c` |
| `CoreMark` | extends it by the list and matrix kernels and the corruption of the text | `core_list_join.c`, `core_matrix.c`, `core_state.c` |
| `Software_proofs` | proofs about `Croutine` and `CoreState` | |
| `Software` | extends heaps, co-routines and kernels, and runs one of them at a time | |
| `MC...` | instances for TLC | |

The pieces fit together at their ports.  `Pipeline` takes everything the rest of
the chip shows it in a cycle (`hit`, `ext`, `fin`, `top`, `irq`) as a free
choice, so what it shows holds whatever `MemSys`, `Divider`, `ReturnStack` and
`Mtimer` do; `MemSys` takes the pipeline as its environment, which holds a
stalled request and may otherwise go anywhere; `Divider` is started at any time
with any operands.  The tick of `Mtimer` reaches the kernel as `Rtos!Tick`, which may
come between any two steps of a task.

### How state and actions correspond to the code

**Pipeline.**  `Cycle` is one clock edge and changes every register at once:
`WriteRegs` (register file), `WriteMem` (data memory), `WriteCsr`, `WriteCause`,
`WriteStatus` (`csr_reg.v`), `MoveStages` (the fetch address and both pipeline
registers, with the priority of `pc_mux.v`), `MoveDiv` (the divider as `alu.v`
sees it) and `MoveClint`.  The wires that join them, `Stall`, `Flush`,
`Exception`, `IrqTaken`, `Driven`, are operators with the names or the comment of
the wire.  Where the code leaves the outcome to the evaluation order of
level-sensitive blocks (MIE and MPIE in `csr_reg.v`) the model takes either
value.  `held` is a history variable: the instruction in execute has already
acted in an earlier cycle and is still there.  Two things are left to other
modules: `data_err` stays 0 (it is `LoadStore`'s), and no store goes to
instruction memory.

**CSR instructions.**  The classes of `Riscv` are the three of the register forms and the
three of the immediate forms; `CsrData` is what each writes (`alu.v:349-354`), with
`OrBits` and `ClearBits` as parameters, which the instances give as the bitwise
operations.  The immediate forms name no destination (`decode_ctrl.v:69`).  `mie`
stands for a `csrrsi` or `csrrci` of `mstatus.MIE`.

**Isa.**  `Execute`, `Trap`, `Return` are exact.  `Interrupt` is deliberately
loose, because the code is not precise: the word it saves in `mepc` is not
constrained, the current instruction may or may not have taken effect, and a
load that waited for the bus may leave 0 in its destination.  What a precise
interrupt would be is `PreciseInterrupt`, which the code does not satisfy.

**MemSys.**  Each step pairs what the pipeline does (`Flush`, `Advance`, `Wait`)
with the clock of the rest (`MoveBus`, `MoveCaches`).  Words are told apart by
address; `Old` is whatever the read lines showed before.  The tree bits of the
replacement are latches that keep a bit nobody sets, so `Victims` is a set.
`taken` counts the writes the UART took for the store in execute.

**ReturnStack.**  `Move` is an edge on which the fetch advances, `Hold` one on
which it is stalled, `Squash` one whose instruction is on a wrong path: the stack
moves in all three.  `open` is the program's own list of calls.

**Divider.**  `Start`, `Iterate`, `Finish`, `DividerIdle` are the branches of the state
machine.  `before` records the operation register at the start.

**Multiplier.**  Every wire has its width and wraps at it.

**LoadStore.**  A step is the cycle of an access: `Dlm`, `Ilm`.  `Words` is what
the address wires tell apart, `Depth` what the memory holds.  The read lanes of the
DLM follow every cycle, those of a store, and of no access at all (`DlmAtRest`),
included.

**Mtimer.**  Every step is a clock edge (`Edge`) with at most one access of the
driver; each access is an action named after the statement.  `at` is the
driver's program counter.  `End` is a bound: the counter stops there.

**Units, Software.**  Parts that share nothing run one at a time: `unit` or
`part` is chosen in the first state and the others stand still, so the states
add up instead of multiplying, and one run checks them all.

**FreeRTOS.**  The memory of the kernel is the record `k`, whose fields have the
names of the variables in the source (`pxReadyTasksLists`, `xPendedTicks`,
`uxMutexesHeld`, ...).  A function that runs in one critical section, or with
the scheduler suspended where no interrupt touches the same data, is an operator
from `k` to `k`; it has the function's name.  Where the source leaves the critical
section, the call becomes several steps, with what only this task touches read and
written in the step beside it: `frame[t]` is what task `t` has on its
stack: the call, where it is in it (`pc`), the ticks left, the time it started
and what it will return.  Only the running task moves, unless `Tick` does.  In an
event list the tasks are in the order of `xItemValue`; `uxTopReadyPriority` is the
set of bits.  A failed `configASSERT` is recorded in `k.asserts`; left out are
those about an argument by itself (a NULL pointer, a priority, the bits of an event
group), about the end marker of a list, and about the build.  `elapsed`,
`due`, `sent`, `received`, `since`, `early` are ghosts: time that does not wrap
within the horizon, what a delay asked for, what went through a stream, what a
timer counts from.

What the application does is `Scenario`: the calls of `main`, for each task a
program whose every line is a set of calls to choose from, the number of ticks,
and the calls that the tick hook may make.  It keeps to the rules the API states
(no blocking call with the scheduler suspended, one reader and one writer of a
stream, a mutex given by its holder, no deletion of a queue that is waited on).
`Live` is one such rule that is in the model itself: no call, in a task or in the hook, is
given the handle of a task that was deleted, because the TCB may be gone.

The repository holds more of FreeRTOS than its demo builds.  `demo/Makefile` compiles
`list.c`, `tasks.c`, `queue.c` and `heap_1.c`, and `FreeRTOSConfig.h` sets
`configUSE_TIMERS` and `configUSE_CO_ROUTINES` to 0.  Event groups, stream buffers, timers,
co-routines and the other heaps are modelled as an application that adds them would
have them; the run `Services` turns the timers on, `Rtos` leaves them off.

**Croutine.**  A step is the code between two points where an interrupt may come.
A co-routine is a loop of the macros; `WaitFor` and `Transfer` are the two
critical sections of `xQueueCRSend` and `xQueueCRReceive`, and between them, as in
the code, whatever an interrupt does to the queue is seen.

**Heap.**  Addresses are numbers, sizes wrap at `SizeT`; `size` gives each block's,
`free` is the linked list, `wanted` is a ghost: what the caller asked for.  `MallocStep` and
`FreeStep` are one call each, whole, because the code makes it with the scheduler
suspended; `part` says which of the four files is linked in.

**CoreMark.**  The kernels are recursive operators on their inputs; a word of the
matrices wraps at `w` bits.  The state machine, in `CoreState`, is a recursive
*function* instead (`Walk`: the state after each number of symbols), so that it
can be proved about; `text` is what is scanned and `token` what the scan
returned, in the one step `Recognise`.

### Seeded faults

A definition whose comment begins "Seeded fault" is not part of the model.  It
is a wrong variant of the definition after it, as a slip in that line of Verilog or C
would make it; `PROJECT.json` pairs it with the property that fails when it takes
the place of the right one.  They show that each property depends on the code.

## 3. Runs

`tlc -config X.cfg M` for each row.

| run | module | what it asks | bounds | states |
|---|---|---|---|---|
| `PipelineIsa` | `MCPipeline` | does the pipeline implement `Isa`, with only the predicted path and current operands in flight? | four words, three registers, every program of four instructions from four pools: jumps, calls, returns; data hazards, division, loads, stores; CSR writes, traps, `mret`; CSRs written, set and cleared, `mret` | 157,857 |
| `PipelineLive` | `MCPipeline` | and with an interrupt in any cycle? does it ever stop executing? | every program of three instructions from a pool of five (add, load, division, `mret`, setting `mtvec`) behind one that enables interrupts; every program from a pool of four without a jump to itself | 85,732 |
| `PipelinePrecise` | `MCPipeline` | **violation**: is the saved address one that has not executed? | the first of these | |
| `Memory` | `MCMemSys` | fetches and loads correct, flash untouched, stores taken once, stalls end | lines of four words, two sets, six lines of flash; the programs `Quiet` and `DataLoads` | 15,648 |
| `Units` | `MCUnits` | the stack is the list of open calls; times, ticks, deadlines; divisions, products; accesses implement an array of bytes; everything ends | stack of 3, four open calls; timer halves of 8 values, interval 9, counter to 34; 3-bit divider, all operations on all operands in any order; 6-bit multiplier, all operands; one word of each memory, bytes 0 and 255 | 347,191 |
| `DividerSigns` | `Divider` | **violation**: is every quotient and remainder right? | 3 bits | |
| `Rtos` | `MCRtos` | one place, assertions, the most urgent runs, nobody overdue, no lost wake-up, mutexes counted, priorities lent, streams intact | eighteen applications of three tasks and idle; 8 tick values, five priorities, 2 to 5 ticks | 355,175 |
| `Services` | `MCRtos` | nobody waits for bits that are there; timers neither early nor forgotten; assertions | five applications with event groups and timers | 237,159 |
| `RtosLive` | `MCRtosLive` | does every call return? | three applications that loop for ever, 4 tick values | 3,690 |
| `WaiterRaised` | `MCRtos` | **violation**: do the kernel's assertions hold when a waiter's priority is raised? | one application | |
| `LenderTimedOut` | `MCRtos` | **violation**: has a take without time left lent no priority? | one application | |
| `Software` | `MCSoftware` | blocks tile the heap, requests are met, no co-routine forgotten, inputs restored, tokens exact | six allocations of seven sizes, up to the largest of a 7-bit `size_t`, in 24 bytes or two regions; three co-routines, a queue of one; every text of up to five characters of six kinds; lists of three items and the benchmark's own | 797,347 |

Why the bounds are enough.

* **Pipeline.**  Three stages hold three instructions, so an interaction spans a
  producer, a consumer and what is fetched behind them; four instructions in a
  wrapping address space give every such sequence, every loop over it and every
  target, right or wrong.  Three registers are x0, a link register, and another.
  One of the four data words is external.
* **Memory.**  Two sets tell indexing from tags; more lines than sets make lines
  compete; a line of four words has a first, two inner and a last word in the
  fill.
* **Units, divider and multiplier.**  The loop and the recoding repeat themselves per bit
  and per digit; at 3 bits a division has a first, an inner and a last iteration,
  and the most negative number; at 6 bits the product has three digits, the last
  reading the extension bits.
* **Units, load/store.**  An access touches one word, so one word and its neighbour that is
  not there suffice; 0 and 255 tell sign extension from zero extension.
* **Units, stack.**  Depth 3 and four open calls fill the stack and overflow it.
* **Units, timer.**  The counter carries into the high half four times, and three
  intervals of 9 fall at different places of a half of 8.  An interval longer than
  a half makes the high halves of consecutive deadlines differ.  When
  the counter has reached `End` the timer is only observed.

* **Rtos, Services.**  Two waiters and one that wakes them, of three priorities,
  are what the lists' order, inheritance and its loss need; a third queue is the
  set, or the second mutex.  The tick counter has eight values and starts at 5
  or 6 where the wrap is meant to come early; delays of 6 and 7 span it, and 7 is
  `portMAX_DELAY`.  A tick may come at any step, so two to four of them reach
  every pair of places in two calls.  `configMAX_PRIORITIES` is 5 instead of 7.
* **RtosLive.**  Two tasks share a priority and one is above them; with four tick
  values a wait of 3 is for ever.
* **Software.**  Blocks of 2 bytes' alignment and a header of 2 in 24 bytes split,
  merge with either neighbour and run out; of the sizes 0, 1, 4, 6, 64, 125 and
  127 the last three have the top bit of a `size_t` of 7 bits, and with the header
  the last two wrap, to 0 or to more; `low1` and `low2` compete for
  a queue of one.

Deadlock is not checked where programs end: in `Rtos`, `Services`, `WaiterRaised`,
`LenderTimedOut` the ticks and the programs run out, in `Software` the calls do.

### Fairness

* `Pipeline`: the clock runs, and waits end.  `Served` is a cycle in which
  fetch, bus and divider all answer; it keeps coming (`WF`).  Because a fetch
  once served stays served while the pipeline holds `pc`, such a cycle also
  comes while the divider shows a result that lasts one cycle (`SF`).  That
  stalls end is what `MemSys` (`StallsEnd`) and `Divider` (`Finishes`) show of
  the blocks behind those wires.
* `Memory`, and the divider in `Units`: only the clock.  A redirect is never
  required to come.
* The timer in `Units`: the clock, and the core executes the driver's next access
  eventually; `Pause` may last arbitrarily long but not for ever.
* `RtosLive`: ticks keep coming (`[]<><<TickStep>>`), as the timer's interrupt
  does, and at least `Slice` (16) steps lie between two ticks unless the processor
  is idle: a step stands for some tens of instructions, a tick for a millisecond,
  and no call takes 16 steps without waiting.  Nothing is assumed of the tasks:
  which of them runs is the kernel's choice.

### What the passing runs do not say

`Memory` holds of the programs in `Checked`: each says where code may run, what
it accesses, when it may be redirected (`"idle"`: only with nothing outstanding)
and whether an access may meet a fetch that misses.  Programs that run from
instruction memory are of this kind, except for interrupts during a store to
the UART; programs that run from flash are not, see below.
`CorrectAfterSameSign` is the guarantee the divider does keep; `ResultCorrect`
the one it does not.  `HoldsOpenCalls` stops at the first call that is lost or
counted twice, and resumes when all calls are closed and the stack is empty.
`KeepsExecuting` allows a program to stay at an `mret`: with an interrupt pending its own
address may be saved (`clint.v:41`).
`ImplementsBytes` speaks of accesses that are aligned and inside the memory, by
words in the ILM.  `HighestRuns`, `NoAssertFails` and `BytesIntact` hold of the listed
applications, not of `GiveTwo`, `WaiterRaised`, `LenderTimedOut`, `LengthAsked` and
`LengthPutBack`.  Among the listed is `SleepingHolder`, in which a task that is more
urgent takes a mutex between the time-out of a waiter and its second try, and sleeps
with it; there the waiter has not lent its priority.  `BlocksTile` asks for room in
the block of every request except, in `heap_2`, one whose size wraps.

### Counterexamples

The four violation runs, and further instances in these modules that are known
to fail.  For each, put the name where the configuration names the set that passes
(`Programs` of `Memory.cfg`, `Accesses` of `Units.cfg`, `Only` of `Rtos.cfg`,
`Programs` of `PipelineIsa.cfg`).

| instance | fails | what TLC shows |
|---|---|---|
| `PipelinePrecise` | `PreciseInterrupt` | `clint.v:75` saves the address of the last instruction in execute, which has acted in that cycle: after `mret` it acts again |
| `DividerSigns` | `ResultCorrect` | `div.v:131` picks the magnitudes with the operation register of the division before: a signed division after an unsigned one takes negative operands for large ones |
| `WaiterRaised` | `NoAssertFails` | `tasks.c:4254` clears the ready bit of the new priority instead of the old one; when the emptied list is the highest, the assertion at `tasks.c:175` fails |
| `LenderTimedOut` | `TimeLeftWhenLent` | a waiter that lent its priority times out and finds the mutex free (`queue.c:1598`); a more urgent task takes it before the second try and sleeps with it, and the assertion at `queue.c:1509` fails |
| `Software` with `RoomForRequest` | `RoomForRequest` | `heap_2.c:138` adds the header to the size in `size_t`: near the largest size the sum wraps to a few bytes, which are granted |
| `ReservedPrograms` | `ImplementsIsa` | an R encoding with undefined func7 does not trap: it writes 0 to its destination |
| `RedirectOnMiss` | `FetchCorrect` | a redirect in the cycle a miss is seen fills a line with words of another |
| `StoreOnMiss` | `FlashIntact` | a store to the UART that meets a fill writes flash |
| `LoadOnMiss` | `FetchCorrect` | a load that meets a fetch miss breaks the fill |
| `LoadInFlash` | `LoadCorrect` | a load from flash by code in flash returns another word |
| `StoreAfterLoad` | `StallsEnd` | after a load that left the dcache waiting, a store to the UART never ends |
| `IrqInStore` | `StallsEnd` | a flush in the SETUP phase of a store leaves the bus in PENABLE with nobody to answer, until the next flush |
| `ThreeLines` | `UsesFreeWays` | the replacement bits are cleared by the miss that needs them: a line is evicted with other ways free |
| `Misaligned`, `PastEnd`, `IlmBytes` | `ImplementsBytes` | a misaligned access does not trap; an access past the end traps a cycle late and the store or load behind it takes effect; byte and halfword accesses to the ILM act on words |
| `ReturnStack` with `ReturnPredicted` | `ReturnPredicted` | a return held in fetch pops once per clock |
| `Mtimer` with `TimerSpec`, `Half` 8, `Ticks` 9, `End` 34 | `NoFalseInterrupt` | `mtimer.c:33` says its first store prevents a false interrupt, but the second puts the new high half over the old low half, and the line may rise before the deadline; both callers have the interrupt masked then, which is why `TicksInTime` holds |
| `GiveTwo` | `HighestRuns` | giving the last mutex lowers the giver's priority; if a task waits for that mutex and is no more urgent, `queue.c:838` does not ask for the switch that `queue.c:852` would, and a ready task of higher priority waits for the next tick |
| `LengthAsked` | `NoAssertFails` | asking for the next length while a message is half written reads a length without its message, and the assertion behind it fails |
| `LengthPutBack` | `BytesIntact` | `stream_buffer.c:840` puts the tail back after an interrupt wrote into the room it had freed |

## 4. Proofs

`tlapm M_proofs.tla` checks them; they hold for every value of the constants
that satisfies the named assumptions, which TLC evaluates on the instances.

**`Pipeline_proofs`**, under `WordAssumption`, `RegAssumption` and
`InputAssumption` of `Riscv` (a word type closed under the operations, x0 is a
register, programs and inputs have their types; arithmetic is uninterpreted):

* `TypeCorrect`: `Spec => []TypeOK`.
* `InFlightCorrect`: `Spec => []InFlight`.  `InFlight` is inductive relative to
  `TypeOK` because it is three facts that need one another.  `PathOK`: the
  stages are consecutive instructions of the predicted path with no bubble behind
  a live one, so a flush may throw away exactly them.  `OperandsOK`: an
  instruction that has not acted holds the operands the registers have now,
  because what execute drives is forwarded into decode.  `HeldOK`: one that has
  acted redirects nothing and changes nothing when it drives again, without which
  `OperandsOK` would not survive a stall.  The step lemmas `PathStep`,
  `OperandsStep` and `HeldStep` follow that split.
* `Refinement`: `ASSUME Legal PROVE Spec => ImplementsIsa`.  `Legal` excludes the
  two encodings the decoder mishandles (undefined R encodings, and the immediate
  CSR forms with a destination).  Every step maps to a step of `Isa` or a
  stutter, one lemma for each: an instruction acts and moves on or is held
  (`FreshStep`), a held one drives again (`HeldStutters`), bubbles move
  (`BubbleStep`), the pipeline is emptied (`FlushStep`), an interrupt enters
  (`InterruptStep`).

**`Units_proofs`** is about five parts.

*The return stack*, under `StackAssumption`: `StackTyped` and
`StackCorrect` (`Spec => []HoldsOpenCalls`), for any depth, address set and
nesting.  The inductive invariant adds `Nested`: a return is fetched only while a
call is open.

*The timer and its driver*, under `TimerAssumption` (an interval is at least one
cycle, and the counter stops at some `End` early enough that no deadline reaches
the last value of the high half: the first store of the driver must lie beyond):
`TimeCorrect`, `TicksCorrect` and `DeadlinesCorrect` (`TimerSpec => []` of
`TimeReadInCall`, `TicksInTime`, `NoDrift`), wherever the core pauses between two
accesses.  The inductive invariant is `TimerInv`: who is in which call with the
interrupt enabled or not (`CallerOK`); between a read of the high half and the second
one, some time since the call has the halves read so far (`ReadingOK`: if the high
half is the same at both ends it did not change in between, lemma `Unique`); what
the compare register holds between its two stores (`CompareOK`: until the low half
is written the line may be wrong, and the interrupt is masked exactly then); and
the deadline is a point of the grid `start + n * Ticks` whose number is the ticks
counted, or one more (`GridOK`, with `MovedOn`: the loop of `mtime_handler` ends at
the first point past the time it read).

*Loads and stores*: `ByteRefinement`, `ASSUME Handled PROVE Spec =>
ImplementsBytes`, for any depth above 0, address width, image and program whose accesses
`Handles` (aligned, inside the memory, by words in the ILM).  A handled access
touches lanes of one word (`OneWord`), and the lanes are in one-to-one
correspondence with the bytes (`ByteOfWord`, `LaneOfByte`).

*The divider and the multiplier*, for every width: `DividesBitByBit` and `DividerCorrect`
(`DividerSpec => []` of `PartialDivision` and `CorrectAfterSameSign`), under
`DividerAssumption` and `DividerPowers`; `MultiplierExact` (`MultiplierSpec =>
[]Exact`), under `MultiplierAssumption` and `MultiplierPowers`.  The two `Powers`
are `2 ^ (n + 1) = 2 * 2 ^ n` as far as the width goes: the prover knows
exponentiation of numerals only, so this much is assumed and evaluated by TLC.  The
divider's invariant is `DividerInv`: what the registers hold of the operands goes by
the operation before (`Loaded`), so that the quotient of the magnitudes, which
`PartialDivision` builds a bit at a time (`SeenNext`) and `Divided` carries through the
last state, has the right sign exactly when that operation was of the same kind
(`DefinedIs`).  The multiplier has no state to induct over; the sum of the first
digits does.  `Booth(n)` says what the partial products up to `n` come to: the first
operand times the part of the second that they have read, corrected by the bit the
next digit will add back.  `BoothStep` is one digit more, `SecondOperand` the sign at
the end.

**`MemSys_proofs`**, under `CacheAssumption` and `AddressAssumption`, for any size
of cache, line and flash: `MemTyped` for every program; `FlashKept`,
`FetchesCorrect`, `LoadsCorrect` and `StoresOnce` for programs that keep clear of the fills
(`KeepsClear`: each waits for its fills, like `Quiet`, or only loads and runs from
instruction memory, like `DataLoads`).  The inductive invariant is `MemInv`:
the valid lines hold words of flash (`LinesOK`); a fill is for the fetch that
waits, its words so far are those of the line, and the address on the bus is the
one of the word counted (`FillOK`, which a redirect would break); a store finds
the bus at rest and is taken in the step to `PENABLE` (`StoreOK`).

**`Heap_proofs`**, under `HeapAssumption` (an alignment and a header no larger, an array
with room for a block, regions in the order of their addresses, a `size_t` that holds
every address and every request), for every heap, request and order of
calls, and for all four allocators: `BlocksAlwaysTile` and `RequestsAlwaysMet`
(`HeapSpec => []` of `BlocksTile` and `RequestsMet`).  The inductive invariant
`HeapInv` has a part for each file.  `Ledger` are the books of `heap_2`, `heap_4` and
`heap_5`: the blocks tile their regions (`Tiled`: none reaches past the next, and the sizes in a
region add up to it; two that meet can be joined and one can be divided, `JoinTiles`
and `DivideTiles`), all are aligned, those in use are as large as was asked (`InUse`), and the
free bytes are the sum of the *loose* blocks.  A loose block is free or just about
to be: in the middle of `pvPortMalloc` and `vPortFree` one is in no list, and the books
must hold there too for the lemmas to be about the code's own steps (`Take`,
`Split4`, `Release`, `InsertInOrder`).  The list holds each loose block once, in
the order of addresses (`heap_4`, `heap_5`) or sizes (`heap_2`); and no two free blocks
of `heap_4` and `heap_5` meet (`Apart`), which is what merging is for and what
`RequestsMet` needs.  Sizes are computed modulo `SizeT`: the tests of `heap_1`, `heap_4` and
`heap_5` leave only requests whose size does not wrap (`AlignUpWraps`).  `heap_2` has
no test; of a request that wraps the theorem says everything but that the block has
room, which it has not (`RoomForRequest`).  `heap_1` has no list: `Bump` says that everything handed out
lies below the next free byte.

**`Software_proofs`** has two theorems.

`TokensAlwaysExact` (`TextSpec => []TokensExact`, under `TextAssumption`: texts are
sequences of bytes) says of every text, however long, that the state machine of
CoreMark finds the first token and its kind as the grammar of numbers has it.
`SpelledTo` is the grammar of the first `n` symbols.  `SpelledNext` is the heart:
which kinds `n + 1` symbols are of follows from those of `n` and the next symbol,
just as `NextState` says (`NextStateIs`).  `WalkIs` gives the equation of the recursive
function, `WalkSpells` is the induction over the text, and `FirstStop` and `TokenIs`
find where the scan ends.

`CoRoutinesAlwaysHeeded` (`CoSpec => []CoRoutinesHeeded`, under `CoAssumption`) is for any
finite set of co-routines, their priorities and programs of macros, queues of any
length, any width of the tick and any interrupts.  `CoRoutinesHeeded` is not inductive;
`CoInv` is, and each of its parts is needed for another:

* `GoodLists`, `Apart3`, `Placed`: no list holds an item twice, and each co-routine is in
  exactly one of the ready, delayed and overflow lists.
* `StateOK`, `WaitsOK`: one that waits for a queue is not ready and is at the call it
  waits in; one that was told waits no more.
* `TimesOK`, `Asleep`: each wake time is as many ticks away, around the counter, as its
  co-routine still has to sleep, and the lists are sorted by it; so when the
  counter wraps the current list is empty, and the two can be swapped.
* `TopOK`: no ready co-routine is above `uxTopCoRoutineReadyPriority`.
* `QueueOK`: beside a waiting co-routine there are no more messages, or free places,
  than co-routines woken for them.  In the middle of a call this is out by the
  message just moved, so `HeededBy` takes the difference as a parameter: `ServedIs` and
  `MovedIs` follow it through the transfer and the waking, `ReadiedKeeps` through the
  pending list, `JoinedIs` through the wait.

What the operators on lists do is in lemmas of their own (`PutInList`, `TakenOutList`,
`ListInsertIs`, `DelayIs`); there is one lemma for each action.

`Software` starts each of these parts in a state of `HeapInit`, `TextInit` or `CoInit`, and
its steps for that part are those of `HeapNext`, `Recognise` or `CoNext`; so what holds
of `HeapSpec`, `TextSpec` and `CoSpec` holds of the run.

Two techniques make induction over data possible where the library's theorems do
not apply.  `Induction` and `SubsetInduction` have a *set* in the place of
the predicate, and follow from the well-foundedness of `<`.  A recursive function
is a `CHOOSE` of one that satisfies its equation: a witness is built by induction, and
the equation then holds of the function chosen (`SumsExist`, `SumsAreBooth`).

**`Rtos_proofs`** is about the scheduler, under `KernelAssumption` and
`~configUSE_TIMERS`: for any number of tasks, priorities and ticks, any width of the
counter and any programs, each of

    Spec /\ env.sc \in TaskPrograms /\ []NoAssertFails => []P

with `P` one of `TypeOK` (`NumbersInRange`), `OnePlace` (`EveryTaskInOnePlace`),
`HighestRuns` (`TheMostUrgentRuns`) and `NoOverdue` (`NobodyOversleeps`).  `TaskPrograms` are the
scenarios in which tasks make the calls of `task.h` in any order (delays,
notifications with and without a time, aborted waits, suspension of tasks and of the
scheduler, priorities, creation and deletion), the hook the three of `TaskOpsFromISR`,
and `main` creates each task once and starts the scheduler; the idle task is not delayed,
suspended or deleted.  `[]NoAssertFails` stands for what `FreeRTOSConfig.h:100` does: a
failed `configASSERT` masks the interrupts and loops for ever, so there is no state after
one to speak of.  `Spec` has no fairness; a behaviour that fails an assertion may as
well stutter for ever just before it, so that the theorem is about every state
until then.

The inductive invariant is `SystemOK`: before the scheduler starts, `Booting`; then
`System`, which is `Frames` (only the running task resumes the scheduler, and has suspended
it) and `Run`.  `Run` has three parts.

* `Base` is the books, which every function keeps however often it is
  interrupted.  `Homes`: each task in one state list.  `Ranked`: a ready one in that of its
  priority.  `Bits`: the lists that are not empty have their bit.  `Apart`: no event
  item in two lists.  `Times`: a sleeping task has less than a turn of the
  counter left, its item holds the count at which that ends, which list it is in says
  whether the counter wraps before, both lists are sorted, and `xNextTaskUnblockTime` is
  not after the first.  Each needs the others: the walk of `xTaskIncrementTick` ends at
  the first task whose time has not come, which is right only if the list is sorted;
  the lists may be switched only if the current one is empty, which follows from
  `Times` when the count is 0.  The idle task is ready, so that there is always one to select.
  In the middle of a function a task is in no list and a bit may be
  left over: `Sound(x, out, loose, least)` says who and which.
* `Quiet`: with the scheduler resumed nothing is pended.
* `Fine`: the running task is ready and none is above it, unless a switch is
  pending, or the task is `Settling`, on its way to the yield its call ends with.

`Kernel_proofs` proves what each function does, one lemma for each: the unblocking
of all expired tasks (`UnblockSteps`, an induction over the list), the catching up with the
pended ticks (`CatchUpAllKeeps`, one over their number), the switch
(`SelectKeeps`), and so on to the calls (`DelayRuns`, `NotifyRuns`, `PrioritySetRuns`, ...).
`Lists_proofs` is about sequences with an index.  `Rtos_proofs` has a lemma for each
action, and `InitOK`, `NextKeeps` put them together.  TLC finds `SystemOK` to hold on the
scenarios `Delays`, `Notifications` and `Lifecycle`, which are all in `TaskPrograms` (95,030
states).

Only model-checked:

* liveness (`KeepsExecuting`, `StallsEnd`, `Finishes`, `KeepsTicking`, `CallsReturn`), which
  is beyond the proof system;
* the replacement of `MemSys`;
* CoreMark's list and matrix kernels (`InputsRestored`), which are recursive operators, and
  no module with a proof may reach one;
* of `Rtos`: the assertions, and everything with queues, services or timers.
  Beyond `task.h` the invariants need more assumptions on the application: the third
  conjunct of `OnePlace`, for one, fails in some programs with mutexes, because
  `tasks.c:4254` clears the ready bit of the priority just assigned instead of the one whose
  list was emptied (the run `WaiterRaised`); in the applications of the run `Rtos`
  nobody raises a task that waits for a mutex.

## 5. Not modelled

Hardware:

* `gshare.v`: computed and unused (`predict.v:45-47` are commented out).
* `crg/*.v`: clock division and reset synchronisers, asynchronous to the rest.
* `cdc.v`: not in the build.  `int_switch.v`: two wires.
* The UART's serial side, the write-back of dirty lines (tied off), stores to
  flash (no program here makes one), the bypass of a store to the instruction
  fetched in the same cycle, writes to the timer's counter.
* The cycle counter CSR and the choice between two pending interrupts.

Software:

* `start.S` and the trap entry: straight-line set-up.  The registers a switch saves.
* `heap_3.c`: calls the C library.  Static allocation, the MPU, thread-local
  storage, task tags, tickless idle, trace numbers, run-time statistics, and the
  functions that only report.
* CoreMark's checksums, the values it fills the matrices with, `core_main.c`,
  its port layer.

Seen while modelling, without a property of their own:

* `csr_reg.v:115`: `data_err` is an exception to the pipeline but not to the
  CSRs.  `uart.v:35`: a load from the UART is answered in SETUP, where nobody looks.
  `decode_ctrl.v:69`: the immediate CSR forms do not write rd.  `alu.v:293`:
  `jalr` keeps the low bit.  `cache.v:47`: a fill over a dirty line waits for a wire
  tied to 0.  `mtimer.c:42`: the conversions overflow.  `mtimer.c:95`: an interval
  of 0 loops for ever.  `data_lm.v:40`: addresses far out alias.  `gshare.v:82`:
  update and taken are swapped.
* `portASM.S` takes every interrupt for a tick, and does not advance the compare
  register.
* `tasks.c:5156` returns the value of the calling task; `xTaskGetHandle` and the
  listing functions move `pxIndex` of the ready lists; `vTaskPrioritySet` can leave
  `uxPriority` below `uxBasePriority`; `ucDelayAborted` of a task aborted out of a
  wait without a timeout stays set until its next wait.
* `queue.c:277` wakes one sender although the whole queue is free; `queue.c:2402`
  lets a timed `xQueueCRSend` return `errQUEUE_FULL`.
* A stream's reader waits once: a notification of the application's own ends the
  wait early.  A message larger than the buffer, sent with `portMAX_DELAY`, never
  returns.
* A one-shot timer stays marked active when its command comes late
  (`timers.c:802`) or the counter wraps (`timers.c:905`).
* `event_groups.c:609` reads the group after the scheduler was resumed, when a
  woken task may have deleted it.
* `heap_4.c:449` walks past the end marker of a full heap; `heap_5.c:504` counts
  the markers between regions as free blocks.
* `core_state.c:89` does not undo the corruption of a character that became a comma.

## 6. Plan

Done, in order of importance: `Riscv`, `Isa`, `Pipeline` and its proofs;
`ReturnStack` and its proofs; `Cache`, `MemSys`; `Divider`; `Mtimer`;
`ByteMemory`, `LoadStore`; `Multiplier`; the proofs of `Mtimer`, `MemSys` and
`LoadStore`; `Lists`, `Kernel`, `Tasks`, `QueueMemory`,
`Queues`, `Rtos`; `StreamBuffers`, `EventGroups`, `Timers`; `Heap`, `Croutine`,
`CoreMark`; the proofs of `Divider`, `Multiplier`, `Heap`,
`CoreState` and `Croutine`; those of `Lists`, `Kernel` and `Rtos` with the calls of `task.h`.

Next:

1. Proofs: `Rtos_proofs` extended to queues and the services.
2. `Pipeline`: the `mret` loop of `clint.v:41` as a property of its own.
3. `MemSys`: combine with the fetch side of `Pipeline`, so that redirects and
   accesses are those a program can make.
4. `Gshare`: history and counters, with update and outcome swapped as they are
   at `gshare.v:82`.
