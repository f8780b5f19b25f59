----------------------------- MODULE Interrupts -----------------------------
(***************************************************************************)
(* Interrupt requests, the two interrupt controllers as pic.c programs     *)
(* them, the stubs of interrupt.asm and the handlers of idt.c.  The timer  *)
(* handler calls scheduler_tick, which may go on in another context: one   *)
(* that was itself interrupted there, or a new one.                        *)
(***************************************************************************)
EXTENDS Integers, FiniteSets, FiniteSetsExt

CONSTANTS
    IRQS,               \* lines on which devices raise requests
    SWITCHED,           \* lines the kernel enables and disables
    CONTEXTS, Boot      \* threads of execution, and the first one

ASSUME InterruptsAssumption ==
    /\ IRQS \subseteq 0..15 /\ 2 \notin IRQS
    /\ SWITCHED \subseteq 0..15
    /\ Boot \in CONTEXTS

VARIABLES
    irr,                \* requested lines
    isr,                \* lines in service, of both controllers
    imr,                \* masked lines
    iflag,              \* the interrupt flag of the CPU
    current,            \* the context that runs
    at,                 \* where each context is
    irq,                \* the line whose handler runs, or ran last
    enabled             \* history: lines enabled by pic_enable_irq

picVars == <<irr, isr, imr>>
intVars == <<picVars, iflag, current, at, irq, enabled>>

CASCADE == 2
Master(S) == {n \in S : n < 8}
Slave(S) == {n \in S : n >= 8}

IntTypeOK ==
    /\ irr \subseteq IRQS /\ isr \subseteq 0..15 /\ imr \subseteq 0..15
    /\ iflag \in BOOLEAN
    /\ current \in CONTEXTS
    /\ at \in [CONTEXTS -> {"fresh", "run", "handler", "tick", "iret"}]
    /\ irq \in 0..15
    /\ enabled \subseteq 0..15

\* pic_init masks every line; hal_init then enables the timer and the keyboard
\* and executes sti.
IntInit ==
    /\ irr = {} /\ isr = {}
    /\ imr = 0..15 \ {0, 1}
    /\ iflag = TRUE
    /\ current = Boot
    /\ at = [c \in CONTEXTS |-> IF c = Boot THEN "run" ELSE "fresh"]
    /\ irq = 0
    /\ enabled = {}

-----------------------------------------------------------------------------
(* The controllers.                                                        *)

\* The line of the master on which a request arrives.
Line(n) == IF n < 8 THEN n ELSE CASCADE

Unmasked(n) == n \notin imr /\ Line(n) \notin imr

\* Lines are served in the order of their numbers, those of the slave in the
\* place of the cascade; a line waits for those in service before it.
Waits(n) ==
    \/ \E s \in Master(isr) : s <= Line(n)
    \/ n >= 8 /\ \E s \in Slave(isr) : s <= n
Deliverable == {n \in irr : Unmasked(n) /\ ~Waits(n)}
Precedes(n, k) == Line(n) < Line(k) \/ (Line(n) = Line(k) /\ n < k)

\* A non-specific end of interrupt ends the first line in service.
Eoi(S) == IF S = {} THEN {} ELSE {Min(S)}
EndMaster(S) == S \ Eoi(Master(S))
EndSlave(S) == S \ Eoi(Slave(S))

\* A device raises a line.
Raise(n) ==
    /\ n \notin irr
    /\ irr' = irr \cup {n}
    /\ UNCHANGED <<isr, imr, iflag, current, at, irq, enabled>>

-----------------------------------------------------------------------------
(* The CPU.                                                                *)

Runs(place) == at[current] = place
Goto(place) == at' = [at EXCEPT ![current] = place]

\* An interrupt is accepted: the gate clears the flag.
Accept(n) ==
    /\ iflag /\ Runs("run")
    /\ iflag' = FALSE
    /\ irq' = n
    /\ Goto("handler")
    /\ UNCHANGED <<imr, current, enabled>>

Deliver(n) ==
    /\ n \in Deliverable
    /\ \A k \in Deliverable \ {n} : Precedes(n, k)
    /\ irr' = irr \ {n}
    /\ isr' = isr \cup {n, Line(n)}
    /\ Accept(n)

\* A request that has gone before it is accepted: the master reports line 7,
\* with nothing in service.
Spurious ==
    /\ Deliverable = {}
    /\ Accept(7)
    /\ UNCHANGED <<irr, isr>>

\* The end of interrupt that the handlers send first.
Ended(n) == IF n >= 8 THEN EndMaster(EndSlave(isr)) ELSE EndMaster(isr)

\* Faulty variant: the timer handler calls the scheduler first.
HandlerTickFirst ==
    /\ Runs("handler")
    /\ isr' = IF irq = 0 THEN isr ELSE Ended(irq)
    /\ Goto(IF irq = 0 THEN "tick" ELSE "iret")
    /\ UNCHANGED <<irr, imr, iflag, current, irq, enabled>>

\* irq0_handler to irq15_handler.
Handler ==
    /\ Runs("handler")
    /\ isr' = Ended(irq)
    /\ Goto(IF irq = 0 THEN "tick" ELSE "iret")
    /\ UNCHANGED <<irr, imr, iflag, current, irq, enabled>>

\* scheduler_tick goes on in a context c: this one, one that left in its own
\* scheduler_tick, or a new one, which starts with interrupts off.
Tick(c) ==
    /\ Runs("tick")
    /\ current' = c
    /\ at' = [at EXCEPT ![current] = "iret", ![c] = IF @ = "fresh" THEN "run" ELSE "iret"]
    /\ UNCHANGED <<picVars, iflag, irq, enabled>>

\* The stub returns; iretd restores the flag.
Iret ==
    /\ Runs("iret")
    /\ Goto("run")
    /\ iflag' = TRUE
    /\ UNCHANGED <<picVars, current, irq, enabled>>

\* Code that runs enables interrupts, as the entry function of a new context
\* may; the trampoline that starts it does not.
Sti ==
    /\ Runs("run") /\ ~iflag
    /\ iflag' = TRUE
    /\ UNCHANGED <<picVars, current, at, irq, enabled>>

\* Faulty variant: the mask is written without reading it first.
EnableOverwrites(n) ==
    /\ Runs("run")
    /\ imr' = 0..15 \ {n}
    /\ enabled' = enabled \cup {n}
    /\ UNCHANGED <<irr, isr, iflag, current, at, irq>>

pic_enable_irq(n) ==
    /\ Runs("run")
    /\ imr' = imr \ {n}
    /\ enabled' = enabled \cup {n}
    /\ UNCHANGED <<irr, isr, iflag, current, at, irq>>

pic_disable_irq(n) ==
    /\ Runs("run")
    /\ imr' = imr \cup {n}
    /\ enabled' = enabled \ {n}
    /\ UNCHANGED <<irr, isr, iflag, current, at, irq>>

Cpu ==
    \/ \E n \in IRQS : Deliver(n)
    \/ Handler \/ Iret
    \/ \E c \in CONTEXTS : Tick(c)

Kernel == \E n \in SWITCHED : pic_enable_irq(n) \/ pic_disable_irq(n)

IntNext == Cpu \/ Sti \/ Kernel \/ Spurious \/ \E n \in IRQS : Raise(n)
IntSpec == IntInit /\ [][IntNext]_intVars

\* The controllers and the CPU go on, and handlers and stubs come to their end.
\* Nothing makes the code that runs enable interrupts.
IntFairSpec == IntSpec /\ WF_intVars(Cpu)

-----------------------------------------------------------------------------
(* Properties.                                                             *)

\* Whenever interrupts are on no line is in service, so none is held back by
\* a handler that has not ended it: not by one whose context was switched away
\* inside scheduler_tick, nor after a spurious interrupt.
NothingInService == IntTypeOK /\ (iflag => isr = {})

\* A timer request is served, whatever the keyboard sends, whichever lines are
\* enabled and disabled and wherever the scheduler goes, unless it goes on in a
\* new context that leaves interrupts off for ever.
TimerServed == 0 \in irr ~> 0 \notin irr \/ []~iflag

-----------------------------------------------------------------------------
(* What a comment in the source says and the code does not do.             *)

\* "Enable a specific IRQ": a line that is enabled can reach the CPU.
EnabledUnmasked == \A n \in enabled : Unmasked(n)

=============================================================================
