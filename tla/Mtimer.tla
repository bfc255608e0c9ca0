------------------------------- MODULE Mtimer -------------------------------
(***************************************************************************)
(* The machine timer (rtl/core/mtimer.v) and the driver that programs it   *)
(* (c_test/mtimer/mtimer.c).  The two 64-bit registers are read and        *)
(* written one half at a time over the 32-bit bus while the counter runs,  *)
(* and the interrupt line follows the comparison one clock edge late.      *)
(*                                                                         *)
(* Every step is a clock edge.  The driver makes at most one access per    *)
(* edge and may let any number of edges pass between two accesses (Pause:  *)
(* other instructions, fetch stalls, other code).  The core's own handling *)
(* of an interrupt is Pipeline's subject: here it clears MIE and enters    *)
(* the handler, and mret sets MIE again.                                   *)
(***************************************************************************)
EXTENDS Integers

CONSTANTS
    Half,    \* values of one half register: 2^32 in the hardware
    Ticks,   \* interval_ticks of mtimer_config
    End      \* bound: the counter stops here

ASSUME TimerAssumption ==
    /\ Half \in Nat \ {0}
    /\ Ticks \in Nat \ {0}
    /\ End \in Nat
    /\ End + Ticks < (Half - 1) * Half

VARIABLES
    mtimer_counter, mtimer_cmp, mtimer_happend,   \* mtimer.v
    mtie, mie,               \* MIE.MTIE and MSTATUS.MIE
    at,                      \* the driver's next access, or "idle"
    who,                     \* on whose behalf: "config" or "handler"
    hi, lo,                  \* its local variables hi, lo
    now,                     \* the last time mtimer_read_time returned
    next,                    \* the deadline it is writing, or wrote last
    system_startup_time, timer_tick_count,
    since                    \* history: the counter when the read was called

hardware  == <<mtimer_counter, mtimer_cmp, mtimer_happend>>
enables   == <<mtie, mie>>
driver    == <<hi, lo, now, next, system_startup_time, timer_tick_count, since>>
timerVars == <<hardware, enables, at, who, driver>>

Times  == 0 .. Half * Half - 1
Halves == 0 .. Half - 1

ReadsTime    == {"time_hi", "time_lo", "time_check"}
ReadsCompare == {"cmp_read_hi", "cmp_read_lo", "cmp_read_check"}
Writes       == {"write_max", "write_hi", "write_lo"}
Steps        == {"idle", "enable", "mret"} \cup ReadsTime \cup ReadsCompare \cup Writes

HiOf(t)    == t \div Half
LoOf(t)    == t % Half
Whole(h, l) == h * Half + l

-----------------------------------------------------------------------------
\* The timer: the counter runs, and the line follows the comparison of the
\* values before the edge.
Reached == mtimer_counter >= mtimer_cmp

Edge ==
    /\ mtimer_counter' = IF mtimer_counter < End THEN mtimer_counter + 1 ELSE End
    /\ mtimer_happend' = Reached

Untouched == UNCHANGED <<mtimer_cmp, mtie, mie>>

\* Seeded fault: the next deadline counts from the time of the call.
LaterFromNow(deadline) == now' + Ticks

\* mtimer_schedule_next: the first deadline of the grid after `now`.
Later(deadline) ==
    IF deadline > now' THEN deadline
    ELSE deadline + Ticks * ((now' - deadline) \div Ticks + 1)

\* Seeded fault: the second read of the high half is not compared.
HiUnchecked(t) == TRUE

\* The second read of the high half decides whether the pair is used.
SameHi(t) == hi = HiOf(t)

-----------------------------------------------------------------------------
TimerInit ==
    /\ mtimer_counter = 0
    /\ mtimer_cmp \in {0, End, Half * Half - 1}   \* not reset
    /\ mtimer_happend = FALSE
    /\ mtie = FALSE /\ mie = TRUE
    /\ at = "idle" /\ who = "config"
    /\ hi = 0 /\ lo = 0 /\ now = 0 /\ next = 0
    /\ system_startup_time = 0 /\ timer_tick_count = 0 /\ since = 0

\* mtimer_config: mask the interrupt, forget the ticks, read the time.
Config ==
    /\ at = "idle" /\ mtimer_counter < End
    /\ mtie' = FALSE /\ who' = "config" /\ at' = "time_hi"
    /\ timer_tick_count' = 0
    /\ since' = mtimer_counter
    /\ UNCHANGED <<mtimer_cmp, mie, hi, lo, now, next, system_startup_time>>

\* mtime_handler: count the tick, then read the deadline just passed.
Interrupt ==
    /\ at = "idle" /\ mie /\ mtie /\ mtimer_happend
    /\ mie' = FALSE /\ who' = "handler" /\ at' = "cmp_read_hi"
    /\ timer_tick_count' = timer_tick_count + 1
    /\ UNCHANGED <<mtimer_cmp, mtie, hi, lo, now, next, system_startup_time, since>>

\* The first two reads of hi, lo, hi, of the counter or of the compare register.
ReadHi ==
    /\ \/ at = "time_hi" /\ hi' = HiOf(mtimer_counter) /\ at' = "time_lo"
       \/ at = "cmp_read_hi" /\ hi' = HiOf(mtimer_cmp) /\ at' = "cmp_read_lo"
    /\ Untouched
    /\ UNCHANGED <<who, lo, now, next, system_startup_time, timer_tick_count, since>>

ReadLo ==
    /\ \/ at = "time_lo" /\ lo' = LoOf(mtimer_counter) /\ at' = "time_check"
       \/ at = "cmp_read_lo" /\ lo' = LoOf(mtimer_cmp) /\ at' = "cmp_read_check"
    /\ Untouched
    /\ UNCHANGED <<who, hi, now, next, system_startup_time, timer_tick_count, since>>

\* mtimer_read_time returns, and the deadline to write is known.
TimeRead ==
    /\ at = "time_check" /\ SameHi(mtimer_counter)
    /\ now' = Whole(hi, lo)
    /\ IF who = "config"
         THEN /\ system_startup_time' = now'
              /\ next' = now' + Ticks
         ELSE /\ next' = Later(next)
              /\ UNCHANGED system_startup_time
    /\ at' = "write_max"
    /\ Untouched /\ UNCHANGED <<who, hi, lo, timer_tick_count, since>>

\* The handler has the old deadline, moves it on and reads the time.
CompareRead ==
    /\ at = "cmp_read_check" /\ SameHi(mtimer_cmp)
    /\ next' = Whole(hi, lo) + Ticks
    /\ since' = mtimer_counter
    /\ at' = "time_hi"
    /\ Untouched
    /\ UNCHANGED <<who, hi, lo, now, system_startup_time, timer_tick_count>>

ReadAgain ==
    /\ \/ at = "time_check" /\ ~SameHi(mtimer_counter) /\ at' = "time_hi"
       \/ at = "cmp_read_check" /\ ~SameHi(mtimer_cmp) /\ at' = "cmp_read_hi"
    /\ Untouched /\ UNCHANGED <<who, driver>>

\* Seeded fault: the low half is never written.
StoredHighTwice == Whole(IF at = "write_max" THEN Half - 1 ELSE HiOf(next), LoOf(mtimer_cmp))

\* Seeded fault: the maximum is left in the high half.
StoredMaxKept ==
    Whole(Half - 1, IF at = "write_lo" THEN LoOf(next) ELSE LoOf(mtimer_cmp))

\* mtimer_write_compare, store by store: the register after the store at `at`.
Stored ==
    CASE at = "write_max" -> Whole(Half - 1, LoOf(mtimer_cmp))
      [] at = "write_hi"  -> Whole(HiOf(next), LoOf(mtimer_cmp))
      [] at = "write_lo"  -> Whole(HiOf(mtimer_cmp), LoOf(next))

WriteCompare ==
    /\ at \in Writes
    /\ mtimer_cmp' = Stored
    /\ at' = CASE at = "write_max" -> "write_hi"
               [] at = "write_hi"  -> "write_lo"
               [] at = "write_lo"  -> IF who = "config" THEN "enable" ELSE "mret"
    /\ UNCHANGED <<enables, who, driver>>

Enable ==
    /\ at = "enable"
    /\ mtie' = TRUE /\ at' = "idle"
    /\ UNCHANGED <<mtimer_cmp, mie, who, driver>>

Return ==
    /\ at = "mret"
    /\ mie' = TRUE /\ at' = "idle"
    /\ UNCHANGED <<mtimer_cmp, mtie, who, driver>>

Pause == Untouched /\ UNCHANGED <<at, who, driver>>

Access ==
    \/ Interrupt \/ ReadHi \/ ReadLo \/ TimeRead \/ CompareRead \/ ReadAgain
    \/ WriteCompare \/ Enable \/ Return

TimerNext == (Access \/ Config \/ Pause) /\ Edge

TimerSpec == TimerInit /\ [][TimerNext]_timerVars

\* The clock never stops, and the core executes the driver's instructions.
TimerFairSpec == TimerSpec /\ WF_timerVars(TimerNext) /\ WF_timerVars(Access /\ Edge)

-----------------------------------------------------------------------------
\* The values registers and driver variables can hold; no time passes End.
TimerTypeOK ==
    /\ mtimer_counter \in 0 .. End
    /\ mtimer_cmp \in Times
    /\ mtimer_happend \in BOOLEAN
    /\ mtie \in BOOLEAN /\ mie \in BOOLEAN
    /\ at \in Steps /\ who \in {"config", "handler"}
    /\ hi \in Halves /\ lo \in Halves
    /\ now \in 0 .. End /\ next \in 0 .. End + Ticks
    /\ system_startup_time \in 0 .. End
    /\ timer_tick_count \in 0 .. End
    /\ since \in 0 .. End

\* mtimer_read_time: although its halves are read at different edges, the time
\* it returns is one the counter showed during the call, whatever carries into
\* the high half meanwhile.
TimeReadInCall == at = "write_max" => since <= now /\ now <= mtimer_counter

\* mtime_handler runs at most once per interval: no read of a half-written
\* compare register, no late line and no reconfiguration ever makes it count a
\* tick whose time has not come.
TicksInTime ==
    mtie => timer_tick_count * Ticks <= mtimer_counter - system_startup_time

\* mtimer_schedule_next: the deadlines stay on the grid laid at startup however
\* late the handler runs, and each lies after the time at which it was chosen.
NoDrift ==
    mtie /\ at = "idle" =>
        /\ mtimer_cmp = next
        /\ (next - system_startup_time) % Ticks = 0
        /\ next > now

\* Every deadline is served and followed by a later one, so the deadline passes
\* any bound.
KeepsTicking == (mtie /\ next <= End) ~> (next > End)

\* mtimer_write_compare "Prevent false interrupt by first setting a value
\* larger than current time": from that store on, the line does not rise before
\* the new deadline.
NoFalseInterrupt ==
    [][(at \in {"write_hi", "write_lo"} /\ ~mtimer_happend /\ mtimer_happend')
          => mtimer_counter >= next]_timerVars

=============================================================================
