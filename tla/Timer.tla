------------------------------- MODULE Timer -------------------------------
(***************************************************************************)
(* Ticks and sleeping: hal.c, the timer part of irq0_handler (idt.c) and   *)
(* the second tick counter and callback of pit.c.  tick_count is a 64-bit  *)
(* number that a 32-bit CPU reads in two halves, low half first; the timer *)
(* interrupt comes between any two steps.                                  *)
(***************************************************************************)
EXTENDS Integers

CONSTANTS
    WORD,               \* 2^32
    START_TICK,         \* value of tick_count at the start
    MAX_TICK,           \* bound on tick_count, unless a sleeper needs more
    current_hz,
    MS_PER_S,           \* 1000
    MS                  \* arguments of hal_sleep_ms

ASSUME TimerAssumption ==
    /\ WORD \in Nat \ {0} /\ START_TICK \in Nat /\ MAX_TICK \in Nat
    /\ current_hz \in Nat \ {0} /\ MS_PER_S \in Nat \ {0}
    /\ MS \subseteq Nat
    /\ \A m \in MS : m * current_hz < WORD

VARIABLES
    tick_count,         \* hal.c, counted by irq0_handler
    pit_tick_count,     \* the static variable of the same name in pit.c
    callback,           \* timer_callback of hal.c is set
    pit_callback,       \* timer_callback of pit.c is set
    called,             \* history: the last tick called a callback
    pc,                 \* where the code that sleeps is
    ms, low, target,    \* argument, low half read last, tick to wait for
    began,              \* history: tick_count when the sleep began
    carried             \* history: the low half has overflowed since

callbackVars == <<pit_tick_count, callback, pit_callback, called>>
timerVars == <<tick_count, callbackVars, pc, ms, low, target, began, carried>>

TimerTypeOK ==
    /\ tick_count \in Nat /\ pit_tick_count \in Nat
    /\ callback \in BOOLEAN /\ pit_callback \in BOOLEAN /\ called \in BOOLEAN
    /\ pc \in {"awake", "start", "start_high", "loop", "loop_high", "hlt"}
    /\ ms \in MS \cup {0}
    /\ low \in 0..(WORD - 1)
    /\ target \in Nat /\ began \in Nat /\ carried \in BOOLEAN

TimerInit ==
    /\ tick_count = START_TICK /\ pit_tick_count = 0
    /\ callback = FALSE /\ pit_callback = FALSE /\ called = FALSE
    /\ pc = "awake" /\ ms = 0 /\ low = 0 /\ target = 0
    /\ began = START_TICK /\ carried = FALSE

\* A tick ends a hlt and counts.  Past the bound, ticks are no longer counted.
Counted == tick_count < MAX_TICK \/ tick_count < target

\* Faulty variant: the tick counts only if there is a callback to call.
CountIfCallback == IF Counted /\ callback THEN tick_count + 1 ELSE tick_count

NextCount == IF Counted THEN tick_count + 1 ELSE tick_count

irq0_handler ==
    /\ tick_count' = NextCount
    /\ called' = callback
    /\ carried' = (carried \/ tick_count' \div WORD # tick_count \div WORD)
    /\ pc' = IF pc = "hlt" THEN "loop" ELSE pc
    /\ UNCHANGED <<pit_tick_count, callback, pit_callback, ms, low, target, began>>

\* Sets the variable of pit.c, not the one irq0_handler calls.
pit_set_callback(set) ==
    /\ pit_callback' = set
    /\ UNCHANGED <<tick_count, pit_tick_count, callback, called,
                   pc, ms, low, target, began, carried>>

-----------------------------------------------------------------------------
(* hal_sleep_ms.                                                           *)

\* Faulty variant: a sleep of less than a tick needs none.
NeededOrNone == ((ms * current_hz) % WORD) \div MS_PER_S

\* At least one tick.
ticks_needed ==
    LET n == ((ms * current_hz) % WORD) \div MS_PER_S
    IN  IF n = 0 THEN 1 ELSE n

\* The value of tick_count once its high half is read as well.
ReadCount == (tick_count \div WORD) * WORD + low

Step(from, to) ==
    /\ pc = from
    /\ pc' = to
    /\ UNCHANGED <<tick_count, callbackVars>>

Sleep ==
    /\ tick_count < MAX_TICK
    /\ Step("awake", "start")
    /\ ms' \in MS
    /\ began' = tick_count /\ carried' = FALSE
    /\ target' = 0
    /\ UNCHANGED low

\* hal_get_ticks, low half; next is where the high half is read.
ReadLow(from, next) ==
    /\ Step(from, next)
    /\ low' = tick_count % WORD
    /\ UNCHANGED <<ms, target, began, carried>>

SetTarget ==
    /\ Step("start_high", "loop")
    /\ target' = ReadCount + ticks_needed
    /\ UNCHANGED <<ms, low, began, carried>>

\* Halt until the next interrupt, or return.
Test ==
    /\ Step("loop_high", IF ReadCount < target THEN "hlt" ELSE "awake")
    /\ UNCHANGED <<ms, low, target, began, carried>>

hal_sleep_ms ==
    \/ Sleep \/ ReadLow("start", "start_high") \/ SetTarget
    \/ ReadLow("loop", "loop_high") \/ Test

TimerNext == irq0_handler \/ hal_sleep_ms \/ \E set \in BOOLEAN : pit_set_callback(set)
TimerSpec ==
    /\ TimerInit /\ [][TimerNext]_timerVars
    /\ WF_timerVars(irq0_handler) /\ WF_timerVars(hal_sleep_ms)

-----------------------------------------------------------------------------
(* Properties.                                                             *)

\* hal_sleep_ms returns after the ticks that ms milliseconds take, and after
\* one at least, unless the low half overflowed meanwhile: the two halves read
\* may then belong to different counts.
SleepsEnough ==
    [][/\ TimerTypeOK'
       /\ pc = "loop_high" /\ pc' = "awake" /\ ~carried
             => /\ tick_count > began
                /\ (tick_count - began + 1) * MS_PER_S > ms * current_hz]_timerVars

\* hal_sleep_ms returns, although a tick may come between the test and the hlt
\* and be noticed only at the next one.
SleepEnds == pc # "awake" ~> pc = "awake"

-----------------------------------------------------------------------------
(* What comments in the source say and the code does not do.               *)

\* "Get the current tick count", of pit_get_ticks.
PitCounts == pit_tick_count = tick_count - START_TICK

\* "Set the tick callback function": a tick calls the callback that is set.
CallbackCalled ==
    [][pit_callback /\ tick_count' # tick_count => called']_timerVars

=============================================================================
