------------------------------ MODULE MCClock ------------------------------
(***************************************************************************)
(* Interrupts and Timer, two views of the same interrupts, side by side:   *)
(* a behaviour is one of the first or one of the second.                   *)
(*                                                                         *)
(* Interrupts has the timer, the keyboard, a line of the slave and a later *)
(* one of the master, and three contexts; the kernel may enable and        *)
(* disable all lines but the timer, the cascade line 2 included.           *)
(*                                                                         *)
(* In Timer, half a count has seven values and the first overflow is two   *)
(* ticks away; sleeps take less than a tick, one tick and a half, and      *)
(* three ticks.                                                            *)
(***************************************************************************)
EXTENDS Interrupts, Timer

MCIrqs == {0, 1, 9, 7}
MCSwitched == {1, 2, 9, 7}
MCMs == {1, 3, 6}

VARIABLE view
clockVars == <<intVars, timerVars, view>>

ClockInit == IntInit /\ TimerInit /\ view \in {"interrupts", "timer"}

InInterrupts(A) == view = "interrupts" /\ A /\ UNCHANGED <<timerVars, view>>
InTimer(A) == view = "timer" /\ A /\ UNCHANGED <<intVars, view>>

ClockNext == InInterrupts(IntNext) \/ InTimer(TimerNext)

\* The fairness of IntFairSpec and of TimerSpec.
ClockSpec ==
    /\ ClockInit /\ [][ClockNext]_clockVars
    /\ WF_clockVars(InInterrupts(Cpu))
    /\ WF_clockVars(InTimer(irq0_handler)) /\ WF_clockVars(InTimer(hal_sleep_ms))

=============================================================================
