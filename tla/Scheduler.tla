----------------------------- MODULE Scheduler -----------------------------
(***************************************************************************)
(* The process scheduler: kernel/process/scheduler.c, the context switch   *)
(* it performs from the timer interrupt, and sys_exit / sys_fork.          *)
(*                                                                         *)
(* One CPU.  Whatever code it executes belongs to the process cpu; the     *)
(* only other actor is the timer interrupt, which is taken between two     *)
(* steps of that code exactly when the interrupt flag iflag is set.        *)
(* Handlers entered through an interrupt gate (IRQ 0, and int 0x80 with    *)
(* sys_fork and sys_exit) run with it clear and are therefore one step;    *)
(* scheduler_sleep_current is split at every store the timer handler can   *)
(* observe.                                                                *)
(***************************************************************************)
EXTENDS Integers, Sequences, FiniteSets, Functions

CONSTANTS
    MAX_PROCESSES,      \* size of process_pool (64)
    PRIORITY_COUNT,     \* number of priority levels (4); 0 is REALTIME
    WAKE_MOD,           \* wake_tick is a uint32_t: values are taken mod 2^32
    NUM_PAGES,          \* physical pages the page allocator can hand out
    SLEEP_MS,           \* arguments of scheduler_sleep_current
    MAX_TICK            \* bound: tick_count stops advancing here

ASSUME SchedulerAssumption ==
    /\ MAX_PROCESSES \in Nat \ {0}
    /\ PRIORITY_COUNT \in Nat \ {0}
    /\ WAKE_MOD \in Nat \ {0}
    /\ NUM_PAGES \in Nat
    /\ SLEEP_MS \subseteq Nat
    /\ MAX_TICK \in Nat

NULL == -1
idle_process == 0
process_pool == 1..MAX_PROCESSES
Process == process_pool \cup {idle_process}
Priority == 0..(PRIORITY_COUNT - 1)
PRIORITY_LOW == PRIORITY_COUNT - 1

\* process_state_t; BLOCKED and ZOMBIE are never assigned by the code.
process_state_t == {"RUNNING", "READY", "SLEEPING", "TERMINATED"}

\* What the saved stack pointer of a PCB leads to: nothing yet, the frame
\* built by scheduler_create_process (context_switch returns into
\* process_entry_trampoline), a frame inside the timer interrupt (the switch
\* returns through iretd), or a frame that the process has since run past.
Context == {"none", "entry", "irq", "stale"}

\* Where a process is in its own code.
Location == {"run", "sleep_set", "sleep_wait", "halted"}

VARIABLES
    free_list,          \* unused PCBs, head first
    queues,             \* one ready queue for each priority, head first
    sleep_list,         \* sleeping PCBs, most recently added first
    current_process,    \* PCB the scheduler believes is running, or NULL
    state, priority, wake_tick, page_directory, stack_ptr,  \* PCB fields
    tick_count,         \* timer ticks since boot
    next_page,          \* pages 1..next_page-1 have been handed out
    cr3,                \* page of the directory in use, 0 for the kernel's
    iflag,              \* the CPU's interrupt flag (EFLAGS.IF)
    cpu,                \* process whose stack the CPU is on
    pc,                 \* where each process is in its code
    deadline            \* history: tick each process asked to sleep until

lists == <<free_list, queues, sleep_list>>
memory == <<page_directory, next_page, cr3>>
vars == <<lists, current_process, state, priority, wake_tick, stack_ptr,
          memory, tick_count, iflag, cpu, pc, deadline>>

TypeOK ==
    /\ free_list \in Seq(Process)
    /\ queues \in [Priority -> Seq(Process)]
    /\ sleep_list \in Seq(process_pool)
    /\ current_process \in Process \cup {NULL}
    /\ state \in [Process -> process_state_t]
    /\ priority \in [Process -> Priority]
    /\ wake_tick \in [Process -> 0..(WAKE_MOD - 1)]
    /\ page_directory \in [Process -> 0..NUM_PAGES]
    /\ stack_ptr \in [Process -> Context]
    /\ tick_count \in 0..MAX_TICK
    /\ next_page \in 1..(NUM_PAGES + 1)
    /\ cr3 \in 0..NUM_PAGES
    /\ iflag \in BOOLEAN
    /\ cpu \in Process
    /\ pc \in [Process -> Location]
    /\ deadline \in [Process -> 0..MAX_TICK]

-----------------------------------------------------------------------------
(* The lists.                                                              *)

\* The members of s that are in S, in the order of s.
Keep(s, S) ==
    LET kept[i \in 0..Len(s)] ==
            IF i = 0 THEN <<>>
            ELSE IF s[i] \in S THEN Append(kept[i-1], s[i])
            ELSE kept[i-1]
    IN  kept[Len(s)]

release_process(p) == free_list' = <<p>> \o free_list

\* Faulty variant: the process goes to the head of its queue.
EnqueueAtHead(q, prio, p) == [q EXCEPT ![prio] = <<p>> \o @]

\* Faulty variant: every process joins the lowest queue.
EnqueueLow(q, prio, p) == [q EXCEPT ![PRIORITY_LOW] = Append(@, p)]

enqueue_process(q, prio, p) == [q EXCEPT ![prio] = Append(@, p)]

dequeue_process(q, prio) == [q EXCEPT ![prio] = Tail(@)]

\* Faulty variant: the old list is not linked behind the new head.
EnqueueSleepUnlinked(s, p) == <<p>>

enqueue_sleep(s, p) == <<p>> \o s

\* Faulty variant: one tick early.
DueEarly(now) == {p \in Range(sleep_list) : now + 1 >= wake_tick[p]}

\* Faulty variant: a tick that is past is not recognised.
DueExactly(now) == {p \in Range(sleep_list) : now = wake_tick[p]}

\* The processes check_sleepers wakes when the tick count is now.
Due(now) == {p \in Range(sleep_list) : now >= wake_tick[p]}

\* The ready queues after check_sleepers has appended the processes in due,
\* in the order in which it meets them on the sleep list.
WakeInto(q, due) ==
    [k \in Priority |-> q[k] \o Keep(sleep_list, {p \in due : priority[p] = k})]

\* Faulty variant: the loop runs from the lowest priority.
LowestReady(q) ==
    CHOOSE k \in Priority : q[k] # <<>> /\ \A j \in (k+1)..PRIORITY_LOW : q[j] = <<>>

HighestReady(q) ==
    CHOOSE k \in Priority : q[k] # <<>> /\ \A j \in 0..(k-1) : q[j] = <<>>

pick_next_process(q) ==
    IF \E k \in Priority : q[k] # <<>> THEN Head(q[HighestReady(q)]) ELSE NULL

-----------------------------------------------------------------------------
(* Process creation: scheduler_create_process, sys_fork.                   *)

Init ==
    /\ free_list = [i \in process_pool |-> i]
    /\ queues = [k \in Priority |-> <<>>]
    /\ sleep_list = <<>>
    /\ current_process = idle_process
    /\ state = [p \in Process |-> "RUNNING"]     \* zeroed storage is RUNNING
    /\ priority = [p \in Process |-> IF p = idle_process THEN PRIORITY_LOW ELSE 0]
    /\ wake_tick = [p \in Process |-> 0]
    /\ page_directory = [p \in Process |-> 0]
    /\ stack_ptr = [p \in Process |-> "none"]
    /\ tick_count = 0
    /\ next_page \in 1..(NUM_PAGES + 1)          \* others have taken pages before
    /\ cr3 = 0
    /\ iflag = TRUE
    /\ cpu = idle_process
    /\ pc = [p \in Process |-> "run"]
    /\ deadline = [p \in Process |-> 0]

\* The page vmm_create_address_space obtains, 0 when there is none left.
NewDirectory == IF next_page <= NUM_PAGES THEN next_page ELSE 0

\* pmm_alloc_page for the stack, called after the directory was allocated.
StackAvailable == next_page + 1 <= NUM_PAGES

\* scheduler_create_process(name, entry, arg, prio).  The three outcomes:
\* no PCB; no page for the stack (the PCB goes back to the free list, a
\* directory page already taken does not go back to the page allocator);
\* success.  The directory is switched and switched back, so cr3 is kept.
scheduler_create_process(prio) ==
    \/ /\ free_list = <<>>
       /\ UNCHANGED <<lists, state, priority, stack_ptr, memory, pc>>
    \/ /\ free_list # <<>>
       /\ LET p == Head(free_list)
              dir == NewDirectory
          IN  /\ state' = [state EXCEPT ![p] = "READY"]
              /\ priority' = [priority EXCEPT ![p] = prio]
              /\ page_directory' = [page_directory EXCEPT ![p] = dir]
              /\ \/ /\ ~StackAvailable
                    /\ next_page' = IF dir # 0 THEN next_page + 1 ELSE next_page
                    /\ UNCHANGED <<lists, stack_ptr, pc>>
                 \/ /\ StackAvailable
                    /\ next_page' = next_page + 2
                    /\ free_list' = Tail(free_list)
                    /\ stack_ptr' = [stack_ptr EXCEPT ![p] = "entry"]
                    /\ pc' = [pc EXCEPT ![p] = "run"]
                    /\ queues' = enqueue_process(queues, prio, p)
                    /\ UNCHANGED sleep_list
              /\ UNCHANGED cr3

\* Kernel code creates a process with interrupts masked.
Create ==
    /\ pc[cpu] = "run"
    /\ ~iflag
    /\ \E prio \in Priority : scheduler_create_process(prio)
    /\ UNCHANGED <<current_process, wake_tick, tick_count, iflag, cpu, deadline>>

\* int 0x80 with SYS_FORK: the child gets the parent's entry point, argument
\* and priority.  The gate masks interrupts, iretd restores the flag.  Any
\* process may fork, the idle process included; the child of that one has no
\* entry point and may do whatever a process may do.
sys_fork ==
    /\ pc[cpu] = "run"
    /\ current_process # NULL
    /\ scheduler_create_process(priority[current_process])
    /\ UNCHANGED <<current_process, wake_tick, tick_count, iflag, cpu, deadline>>

-----------------------------------------------------------------------------
(* The running process's other steps.                                      *)

\* Kernel code masks or unmasks interrupts.
Cli ==
    /\ pc[cpu] = "run"
    /\ iflag
    /\ iflag' = FALSE
    /\ UNCHANGED <<lists, current_process, state, priority, wake_tick, stack_ptr,
                   memory, tick_count, cpu, pc, deadline>>

Sti ==
    /\ pc[cpu] = "run"
    /\ ~iflag
    /\ iflag' = TRUE
    /\ UNCHANGED <<lists, current_process, state, priority, wake_tick, stack_ptr,
                   memory, tick_count, cpu, pc, deadline>>

\* ms / 10, at least one tick.
SleepTicks(ms) == IF ms \div 10 = 0 THEN 1 ELSE ms \div 10

\* scheduler_sleep_current up to the store to wake_tick, a uint32_t that is
\* assigned from the 64-bit tick count.
SleepSetWake ==
    /\ pc[cpu] = "run"
    /\ current_process \notin {NULL, idle_process}
    /\ \E ms \in SLEEP_MS :
          LET until == tick_count + SleepTicks(ms)
          IN  /\ until <= MAX_TICK
              /\ wake_tick' = [wake_tick EXCEPT ![current_process] = until % WAKE_MOD]
              /\ deadline' = [deadline EXCEPT ![cpu] = until]
    /\ pc' = [pc EXCEPT ![cpu] = "sleep_set"]
    /\ UNCHANGED <<lists, current_process, state, priority, stack_ptr, memory,
                   tick_count, iflag, cpu>>

SleepSetState ==
    /\ pc[cpu] = "sleep_set"
    /\ state' = [state EXCEPT ![current_process] = "SLEEPING"]
    /\ pc' = [pc EXCEPT ![cpu] = "sleep_wait"]
    /\ UNCHANGED <<lists, current_process, priority, wake_tick, stack_ptr, memory,
                   tick_count, iflag, cpu, deadline>>

\* The hlt loop ends when the process finds itself no longer SLEEPING.
SleepReturn ==
    /\ pc[cpu] = "sleep_wait"
    /\ state[current_process] # "SLEEPING"
    /\ pc' = [pc EXCEPT ![cpu] = "run"]
    /\ UNCHANGED <<lists, current_process, state, priority, wake_tick, stack_ptr,
                   memory, tick_count, iflag, cpu, deadline>>

\* Faulty variant: the state is left RUNNING.
EntryUnmarked ==
    /\ pc[cpu] = "run"
    /\ cpu # idle_process
    /\ pc' = [pc EXCEPT ![cpu] = "halted"]
    /\ UNCHANGED <<lists, current_process, state, priority, wake_tick, stack_ptr, memory,
                   tick_count, iflag, cpu, deadline>>

\* The entry function returns into process_entry_trampoline, which the idle
\* process, kernel_main, was not entered through.
EntryReturns ==
    /\ pc[cpu] = "run"
    /\ cpu # idle_process
    /\ state' = [state EXCEPT ![cpu] = "TERMINATED"]
    /\ pc' = [pc EXCEPT ![cpu] = "halted"]
    /\ UNCHANGED <<lists, current_process, priority, wake_tick, stack_ptr, memory,
                   tick_count, iflag, cpu, deadline>>

\* Faulty variant: the state is not looked at.
YieldAnyState(st) ==
    IF current_process \notin {NULL, idle_process}
    THEN /\ queues' = enqueue_process(queues, priority[current_process], current_process)
         /\ current_process' = NULL
    ELSE UNCHANGED <<queues, current_process>>

\* A process that is still RUNNING is put back in its queue, with its state
\* left as it is; nothing is switched until the next timer tick.  st holds the
\* states when it is called.
scheduler_yield(st) ==
    IF current_process \notin {NULL, idle_process}
    THEN /\ queues' = IF st[current_process] = "RUNNING"
                      THEN enqueue_process(queues, priority[current_process], current_process)
                      ELSE queues
         /\ current_process' = NULL
    ELSE UNCHANGED <<queues, current_process>>

\* int 0x80 with SYS_EXIT, its only caller, by any process, the idle process
\* included: mark the PCB, release it (scheduler_destroy_process does nothing
\* else), yield, and halt.  The gate has masked interrupts and the hlt loop is
\* never left.
sys_exit ==
    /\ pc[cpu] = "run"
    /\ IF current_process # NULL
       THEN /\ state' = [state EXCEPT ![current_process] = "TERMINATED"]
            /\ release_process(current_process)
       ELSE UNCHANGED <<state, free_list>>
    /\ scheduler_yield(state')
    /\ pc' = [pc EXCEPT ![cpu] = "halted"]
    /\ iflag' = FALSE
    /\ UNCHANGED <<sleep_list, priority, wake_tick, stack_ptr, memory,
                   tick_count, cpu, deadline>>

-----------------------------------------------------------------------------
(* The timer interrupt.                                                    *)

\* Faulty variant: the directory is not switched.
DirectoryKept(next) == cr3

\* The directory in use once next runs: its own, or the one in use now.
DirectoryFor(next) == IF page_directory[next] # 0 THEN page_directory[next] ELSE cr3

\* Faulty variant: the old stack pointer is not saved.
SavedOnlyFresh(prev, next) == [stack_ptr EXCEPT ![next] = "stale"]

\* The saved stack pointers after context_switch(&prev->stack_ptr,
\* next->stack_ptr).  prev may be NULL: the stack pointer is then stored
\* outside any PCB.  next runs past its frame.
SavedContexts(prev, next) ==
    [p \in Process |-> IF p = next THEN "stale"
                       ELSE IF p = prev THEN "irq"
                       ELSE stack_ptr[p]]

\* The end of scheduler_tick, when the process changes.  The frame built at
\* creation leads straight into the trampoline, with interrupts still masked by
\* the gate; a frame saved in an earlier timer interrupt leads to iretd.
context_switch(prev, next) ==
    IF prev = next
    THEN UNCHANGED <<cr3, stack_ptr, cpu, iflag>>
    ELSE /\ cr3' = DirectoryFor(next)
         /\ stack_ptr' = SavedContexts(prev, next)
         /\ cpu' = next
         /\ iflag' = (stack_ptr[next] # "entry")

\* A tick puts a process that is still RUNNING back in its queue.
Preempted(prev) == prev # NULL /\ state[prev] = "RUNNING"

\* irq0_handler: count the tick, then scheduler_tick.
scheduler_tick ==
    /\ iflag
    /\ tick_count' = IF tick_count < MAX_TICK THEN tick_count + 1 ELSE tick_count
    /\ LET prev == current_process
           due == Due(tick_count')
           woken == WakeInto(queues, due)
           preempted == Preempted(prev)
           slept == prev # NULL /\ state[prev] = "SLEEPING"
           ready == IF preempted THEN enqueue_process(woken, priority[prev], prev)
                                 ELSE woken
           waiting == Keep(sleep_list, Process \ due)
           next == pick_next_process(ready)
       IN  /\ sleep_list' = IF slept THEN enqueue_sleep(waiting, prev) ELSE waiting
           /\ queues' = IF next # NULL THEN dequeue_process(ready, priority[next])
                                       ELSE ready
           /\ state' = [p \in Process |->
                           IF p = next THEN "RUNNING"
                           ELSE IF p \in due \/ (preempted /\ p = prev) THEN "READY"
                           ELSE state[p]]
           /\ current_process' = IF next # NULL THEN next ELSE idle_process
           /\ context_switch(prev, current_process')
    /\ UNCHANGED <<free_list, priority, wake_tick, page_directory, next_page, pc,
                   deadline>>

-----------------------------------------------------------------------------

\* A step of the code on the CPU.
ProcessStep ==
    \/ Create \/ sys_fork \/ Cli \/ Sti
    \/ SleepSetWake \/ SleepSetState \/ SleepReturn
    \/ EntryReturns \/ sys_exit

Next == ProcessStep \/ scheduler_tick

Spec == Init /\ [][Next]_vars

-----------------------------------------------------------------------------
(* Safety.                                                                 *)

Queued == {p \in Process : \E k \in Priority : p \in Range(queues[k])}

\* The CPU is in a hlt loop that it never leaves, with interrupts masked.
Stopped == pc[cpu] = "halted" /\ ~iflag

\* No PCB is linked into two lists or twice into one: the free list, the ready
\* queues and the sleep list share the single next field of process_t, so a
\* second link would cut or close a chain.  The running process is in no list,
\* except that the idle process, which scheduler_yield leaves current, is on the
\* free list once it has executed sys_exit and the machine is stopped.
PCBOwnedOnce ==
    /\ IsInjective(free_list)
    /\ IsInjective(sleep_list)
    /\ \A k \in Priority : IsInjective(queues[k])
    /\ \A j, k \in Priority : j # k => Range(queues[j]) \cap Range(queues[k]) = {}
    /\ Range(free_list) \cap (Queued \cup Range(sleep_list)) = {}
    /\ Queued \cap Range(sleep_list) = {}
    /\ current_process \notin Queued \cup Range(sleep_list)
    /\ current_process \in Range(free_list) => current_process = idle_process /\ Stopped

\* A PCB that no list holds and that is not running is that of a process that
\* terminated: the lists never lose a process that still has work to do.
NoProcessLost ==
    \A p \in Process :
        \/ p \in Range(free_list) \cup Queued \cup Range(sleep_list)
        \/ p = current_process
        \/ state[p] = "TERMINATED"

\* The state field says which list a PCB is in, and a queued PCB is in the
\* queue of its own priority (scheduler_tick dequeues by next->priority).
StateMatchesList ==
    /\ \A k \in Priority : \A p \in Range(queues[k]) :
          state[p] = "READY" /\ priority[p] = k
    /\ \A p \in Range(sleep_list) : state[p] = "SLEEPING"
    /\ current_process # NULL =>
          state[current_process] \in {"RUNNING", "SLEEPING", "TERMINATED"}

\* Every process the scheduler can pick, now or after it wakes, has in its PCB
\* a stack pointer from which it can go on: the initial frame, or the one saved
\* when it was last switched out.
SavedBeforeResume ==
    \A p \in (Queued \cup Range(sleep_list)) \ {cpu} : stack_ptr[p] \in {"entry", "irq"}

\* The idle process is running or ready, so pick_next_process always finds a
\* process and the fallback in scheduler_tick is never taken.
IdleRunnable ==
    idle_process \in Queued \cup {current_process}

\* scheduler_sleep_current does not return before the tick it was asked to
\* sleep until, whatever preempts it between its stores.
NoEarlyWake ==
    \A p \in Process :
        pc[p] = "sleep_wait" /\ state[p] # "SLEEPING" => tick_count >= deadline[p]

\* A process with an address space of its own runs in it, also after any
\* number of switches through processes that have none.
OwnAddressSpaceLoaded ==
    current_process # NULL /\ page_directory[current_process] # 0
        => cr3 = page_directory[current_process]

\* After every tick no ready process has a higher priority than the running
\* one, the sleepers this very tick woke included.
TickRunsHighest ==
    [][scheduler_tick =>
          \A k \in Priority : queues'[k] # <<>> => priority'[current_process'] <= k]_vars

\* What the CPU is doing agrees with the PCB the scheduler takes for the
\* running one.  There is none only when sys_exit has stopped the machine, a
\* process that waits is at a place it can be resumed at, and a PCB that can be
\* handed out again is not one the CPU still executes.
CpuMatchesScheduler ==
    /\ current_process \in {NULL, cpu}
    /\ current_process = NULL => Stopped
    /\ pc[cpu] \in {"run", "sleep_set"} => state[cpu] = "RUNNING"
    /\ pc[cpu] = "sleep_wait" => state[cpu] \in {"RUNNING", "SLEEPING"}
    /\ pc[cpu] = "halted" => state[cpu] = "TERMINATED"
    /\ pc[idle_process] = "run" \/ (cpu = idle_process /\ Stopped)
    /\ priority[idle_process] = PRIORITY_LOW
    /\ \A p \in Queued : pc[p] \in {"run", "sleep_set", "sleep_wait"}
    /\ \A p \in Range(sleep_list) : pc[p] = "sleep_wait"
    /\ \A p \in Range(free_list) : pc[p] = "run" \/ (p = cpu /\ Stopped)

-----------------------------------------------------------------------------
(* Liveness.                                                               *)

\* The timer keeps firing and the interrupt controller holds a request that
\* arrives while interrupts are masked: a tick that is possible again and
\* again is taken.  Code on the CPU is not suspended for ever.  kernel_main, the
\* idle process, which starts with interrupts on, does not leave them masked;
\* nothing is assumed of the other processes, which start with them masked.
Fairness ==
    /\ SF_vars(scheduler_tick)
    /\ WF_vars(cpu = idle_process /\ Sti)
    /\ WF_vars(SleepSetState)
    /\ WF_vars(SleepReturn)

FairSpec == Init /\ [][Next]_vars /\ Fairness

\* A sleeping process becomes runnable again, unless from some time on no tick
\* is taken because the process on the CPU never unmasks interrupts.
SleepersWake ==
    \A p \in process_pool :
        pc[p] = "sleep_wait" /\ state[p] = "SLEEPING" ~>
            state[p] # "SLEEPING" \/ []~iflag

\* As long as ticks are taken, a process ready at the highest priority gets the
\* CPU however many others are ready beside it, created, or woken meanwhile.
TurnsWhileTicking ==
    \A p \in process_pool :
        p \in Range(queues[0]) ~> current_process = p \/ []~iflag

-----------------------------------------------------------------------------
(* What comments in the source say and the code does not do.               *)

\* "This gives round-robin within the priority": a process ready at the highest
\* priority gets the CPU.  A process that is switched to for the first time
\* starts in process_entry_trampoline with interrupts masked by the gate of the
\* timer, and sys_exit halts with them masked: no further tick is taken.
RoundRobin ==
    \A p \in process_pool : p \in Range(queues[0]) ~> current_process = p

\* "NULL = uses kernel's": a process without a page directory of its own runs
\* in the kernel's.
NullDirectoryIsKernels ==
    current_process # NULL /\ page_directory[current_process] = 0 => cr3 = 0

\* "for fork/cleanup": the pages of a process that is gone are given back, so
\* only processes that exist hold pages, a directory and a stack each.
PagesHeldByLive ==
    next_page - 1 <= 2 * Cardinality(process_pool \ Range(free_list))

=============================================================================
