------------------------------- MODULE Traps -------------------------------
(***************************************************************************)
(* The ways into the kernel and back: system calls through gate 0x80, the  *)
(* timer interrupt and exceptions, from kernel code and from ring 3.  The  *)
(* stubs of syscall_stub.asm and interrupt.asm build on the stack what the *)
(* handlers of syscall.c and idt.c read as a registers_t; cmd_ring3 and    *)
(* enter_usermode go to ring 3.                                            *)
(*                                                                         *)
(* The stack is the sequence of its words, top first.  A word or register  *)
(* holds a tagged number, so that what one register held is never mistaken *)
(* for what another held.                                                  *)
(***************************************************************************)
EXTENDS Integers, Sequences, SequencesExt

CONSTANTS
    CALLS,              \* system call numbers that callers use
    FDS, COUNTS,        \* the arguments of sys_write that matter
    PIDS,               \* process numbers that fork may return
    FAULTS,             \* exceptions that code raises
    MAX_TRAPS           \* bound: faults in handlers nest no deeper

ASSUME TrapsAssumption ==
    /\ CALLS \subseteq 0..255 /\ FDS \subseteq Nat /\ COUNTS \subseteq Nat
    /\ PIDS \subseteq Nat
    /\ FAULTS \subseteq 0..31
    /\ MAX_TRAPS \in Nat \ {0}

VARIABLES
    cpu,                \* the registers
    stack,              \* the kernel stack in use; in ring 3, the one of the TSS
    esp0,               \* the TSS names a stack
    at,                 \* where the code that runs is
    result,             \* the value the last system call returned
    traps               \* history: the traps not yet left, last first

trapVars == <<cpu, stack, esp0, at, result, traps>>

Word(tag, n) == <<tag, n>>
KERNEL_CS == Word("selector", 8)
KERNEL_DS == Word("selector", 16)
USER_CS == Word("selector", 27)
USER_DS == Word("selector", 35)
Flags(if) == Word("eflags", IF if THEN 1 ELSE 0)
Junk == Word("junk", 0)

SEGMENTS == <<"ds", "es", "fs", "gs">>
GENERAL == <<"eax", "ecx", "edx", "ebx", "esp", "ebp", "esi", "edi">>
REGISTERS == {"eip", "cs", "eflags", "ss"} \cup ToSet(SEGMENTS) \cup ToSet(GENERAL)

\* What C code may leave in the registers that a callee need not preserve.
CALLER_SAVED == {"eax", "ecx", "edx"}

\* The offsets that the compiler gives the fields of a registers_t.
registers_t ==
    <<"gs", "fs", "es", "ds", "edi", "esi", "ebp", "esp", "ebx", "edx", "ecx",
      "eax", "int_no", "err_code", "eip", "cs", "eflags">>

Ring3(c) == c["cs"] = USER_CS
Depth(s) == Word("esp", Len(s))

\* hal_init has run: flat kernel segments, interrupts on.
TrapsInit ==
    /\ cpu = [r \in REGISTERS |->
                CASE r = "cs" -> KERNEL_CS
                  [] r \in ToSet(SEGMENTS) \cup {"ss"} -> KERNEL_DS
                  [] r = "eflags" -> Flags(TRUE)
                  [] r = "esp" -> Depth(<<>>)
                  [] OTHER -> Word(r, 0)]
    /\ stack = <<>>
    /\ esp0 = FALSE
    /\ at = "run"
    /\ result = 0
    /\ traps = <<>>

-----------------------------------------------------------------------------
(* Entering.                                                               *)

\* The words that pushing the registers of names in this order puts on top.
Pushed(c, names) == Reverse([i \in DOMAIN names |-> c[names[i]]])

\* Only these exceptions push an error code.
ERROR_CODES == {8, 10, 11, 12, 13, 14, 17}
HasError(v) == v \in ERROR_CODES
MayPush(v, err) == HasError(v) \/ err = 0

\* What the CPU pushes on its way through a gate.
Frame(v, err) ==
    (IF HasError(v) THEN <<Word("err_code", err)>> ELSE <<>>)
        \o Pushed(cpu, (IF Ring3(cpu) THEN <<"ss", "esp">> ELSE <<>>)
                           \o <<"eflags", "cs", "eip">>)

\* Faulty variant: one macro for all exceptions, without the dummy code.
NumberOnly(v) == IF v < 32 THEN <<Word("int_no", v)>> ELSE <<>>

\* The stubs of exceptions push their number, after a dummy error code where
\* the CPU pushed none; those of interrupts and system calls push neither.
Number(v) ==
    IF v >= 32 THEN <<>>
    ELSE <<Word("int_no", v)>>
           \o (IF HasError(v) THEN <<>> ELSE <<Word("err_code", 0)>>)

\* pushad, and the segment registers, above what is there already.
Saved(below) ==
    Pushed([cpu EXCEPT !["esp"] = Depth(below)], GENERAL \o SEGMENTS)

\* All gates are interrupt gates: the interrupt flag is cleared.
Enter(v, err) ==
    LET below == Number(v) \o Frame(v, err)
                   \o (IF Ring3(cpu) THEN <<>> ELSE stack) IN
    /\ IF Ring3(cpu) /\ ~esp0
       THEN /\ at' = "lost"
            /\ UNCHANGED <<cpu, stack, traps>>
       ELSE /\ stack' = Saved(below) \o below
            /\ cpu' = [r \in REGISTERS |->
                         CASE r = "cs" -> KERNEL_CS
                           [] r \in ToSet(SEGMENTS) \cup {"ss"} -> KERNEL_DS
                           [] r = "eflags" -> Flags(FALSE)
                           [] r = "esp" -> Depth(stack')
                           [] r \in {"eax", "eip"} -> Junk
                           [] OTHER -> cpu[r]]
            /\ traps' = <<[vector |-> v, err |-> err, cpu |-> cpu,
                           stack |-> stack, at |-> at]>> \o traps
            /\ at' = "handler"
    /\ UNCHANGED <<esp0, result>>

\* Code in either ring loads the arguments of a system call and executes
\* int 0x80, the only gate open to ring 3.
SystemCall(nr, fd, count) ==
    /\ at = "run"
    /\ cpu' = [cpu EXCEPT !["eax"] = Word("eax", nr), !["ebx"] = Word("ebx", fd),
                          !["edx"] = Word("edx", count)]
    /\ at' = "int"
    /\ UNCHANGED <<stack, esp0, result, traps>>
Int80 == at = "int" /\ Enter(128, 0)

\* The timer interrupts code that runs with interrupts on.
irq0 == at \in {"run", "int", "ring3"} /\ cpu["eflags"] = Flags(TRUE) /\ Enter(32, 0)

\* Code raises an exception, the handlers of the kernel too.
Fault(v, err) ==
    /\ at \in {"run", "handler"}
    /\ Len(traps) < MAX_TRAPS
    /\ MayPush(v, err)
    /\ Enter(v, err)

-----------------------------------------------------------------------------
(* Handling.                                                               *)

Vector == Head(traps).vector

\* A field of the registers_t at the top of the stack.
Offset(f) == CHOOSE i \in DOMAIN registers_t : registers_t[i] = f
Regs(f) == stack[Offset(f)]
Arg(f) == Regs(f)[2]

\* A call of C code, whatever it leaves in the registers it may use.
AfterC == [r \in REGISTERS |-> IF r \in CALLER_SAVED THEN Junk ELSE cpu[r]]

EBADF == 9
ENOSYS == 38

\* sys_write knows one file, the serial port.
sys_write(fd, count) == IF fd = 1 THEN count ELSE -EBADF

\* The values a call that comes back may return: fork fails or makes a
\* process; sys_msgget fails or finds a slot whose id is 0, as nothing calls
\* alloc_msgqueue, and for want of an id the other message calls fail (so the sti
\* of a successful sys_msgsnd is never reached); three stubs return -1, all
\* others, and the default, -ENOSYS.
Results(nr, fd, count) ==
    CASE nr = 2 -> {-1} \cup PIDS
      [] nr = 4 -> {sys_write(fd, count)}
      [] nr = 67 -> {-1, 0}
      [] nr \in 68..70 \cup {43, 44, 74} -> {-1}
      [] OTHER -> {-ENOSYS}

\* Faulty variant: the result is written to the slot after the one of eax.
SyscallOffByOne ==
    /\ at = "handler" /\ Vector = 128 /\ Arg("eax") # 1
    /\ result' \in Results(Arg("eax"), Arg("ebx"), Arg("edx"))
    /\ stack' = [stack EXCEPT ![Offset("eax") + 1] = Word("eax", result')]
    /\ cpu' = AfterC
    /\ at' = "leave"
    /\ UNCHANGED <<esp0, traps>>

\* syscall_handler dispatches on eax and puts the result in its place.
syscall_handler ==
    /\ at = "handler" /\ Vector = 128 /\ Arg("eax") # 1
    /\ result' \in Results(Arg("eax"), Arg("ebx"), Arg("edx"))
    /\ stack' = [stack EXCEPT ![Offset("eax")] = Word("eax", result')]
    /\ cpu' = AfterC
    /\ at' = "leave"
    /\ UNCHANGED <<esp0, traps>>

\* sys_exit stops in its hlt, with interrupts off, and never comes back.
sys_exit ==
    /\ at = "handler" /\ Vector = 128 /\ Arg("eax") = 1
    /\ at' = "exited"
    /\ UNCHANGED <<cpu, stack, esp0, result, traps>>

\* The C handler of the timer interrupt, as far as this context can tell.
irq0_handler ==
    /\ at = "handler" /\ Vector = 32
    /\ cpu' = AfterC
    /\ at' = "leave"
    /\ UNCHANGED <<stack, esp0, result, traps>>

\* exception_handler reports the exception and stops the machine.
exception_handler ==
    /\ at = "handler" /\ Vector < 32
    /\ at' = "halted"
    /\ UNCHANGED <<cpu, stack, esp0, result, traps>>

-----------------------------------------------------------------------------
(* Leaving, and going to ring 3.                                           *)

\* What the pops of the stub, popad and iretd take off the stack.
POPPED == <<"gs", "fs", "es", "ds", "edi", "esi", "ebp", "skipped", "ebx", "edx",
            "ecx", "eax", "eip", "cs", "eflags">>

\* iretd to ring 3 takes its stack too.
Popped ==
    IF stack[Len(POPPED) - 1] = USER_CS THEN POPPED \o <<"esp", "ss">> ELSE POPPED

Leave ==
    /\ at = "leave"
    /\ stack' = SubSeq(stack, Len(Popped) + 1, Len(stack))
    /\ cpu' = [r \in REGISTERS |->
                 IF Contains(Popped, r)
                 THEN stack[CHOOSE i \in DOMAIN Popped : Popped[i] = r]
                 ELSE IF r = "esp" THEN Depth(stack') ELSE cpu[r]]
    /\ at' = Head(traps).at
    /\ traps' = Tail(traps)
    /\ UNCHANGED <<esp0, result>>

\* cmd_ring3 names a stack for the way back before it goes to ring 3.
tss_set_kernel_stack ==
    /\ at = "run" /\ ~Ring3(cpu)
    /\ esp0' = TRUE
    /\ at' = "ring3"
    /\ UNCHANGED <<cpu, stack, result, traps>>

\* enter_usermode clears the interrupt flag, builds an interrupt frame and
\* returns into it; the kernel stack it ran on is not used again.
enter_usermode ==
    /\ at = "ring3"
    /\ cpu' = [r \in REGISTERS |->
                 CASE r = "cs" -> USER_CS
                   [] r \in ToSet(SEGMENTS) \cup {"ss"} -> USER_DS
                   [] r = "eflags" -> Flags(FALSE)
                   [] r = "esp" -> Word("user", 0)
                   [] r = "eax" -> Junk
                   [] OTHER -> cpu[r]]
    /\ stack' = <<>>
    /\ at' = "run"
    /\ UNCHANGED <<esp0, result, traps>>

TrapsNext ==
    \/ \E nr \in CALLS, fd \in FDS, count \in COUNTS : SystemCall(nr, fd, count)
    \/ Int80
    \/ irq0
    \/ \E v \in FAULTS, err \in {0, 1} : Fault(v, err)
    \/ syscall_handler \/ sys_exit \/ irq0_handler \/ exception_handler
    \/ Leave
    \/ tss_set_kernel_stack \/ enter_usermode

TrapsSpec == TrapsInit /\ [][TrapsNext]_trapVars

-----------------------------------------------------------------------------
(* Properties.                                                             *)

\* Types; in particular every trap finds a stack (never "lost"), also the
\* first one from ring 3.
TrapsTypeOK ==
    /\ DOMAIN cpu = REGISTERS
    /\ Len(stack) <= Len(traps) * (Len(registers_t) + 2)
    /\ esp0 \in BOOLEAN
    /\ at \in {"run", "int", "ring3", "handler", "leave", "exited", "halted"}
    /\ result \in Int
    /\ Len(traps) <= MAX_TRAPS

\* What a handler reads through its registers_t is what the registers held
\* when the trap was taken: the arguments of a system call, and the number,
\* the error code and the address that exception_handler reports.
FieldsRead ==
    /\ TrapsTypeOK
    /\ at = "handler" =>
         LET t == Head(traps) IN
         /\ t.vector = 128 =>
              \A f \in {"eax", "ebx", "ecx", "edx", "esi", "edi"} : Regs(f) = t.cpu[f]
         /\ t.vector < 32 =>
              /\ Regs("int_no") = Word("int_no", t.vector)
              /\ Regs("err_code") = Word("err_code", t.err)
              /\ Regs("eip") = t.cpu["eip"]

\* A trap is left with every register and the stack as they were when it was
\* taken, in the same ring, but for the result of a system call in eax.
ReturnExact ==
    [][Leave =>
         LET t == Head(traps) IN
         /\ stack' = t.stack
         /\ cpu' = IF t.vector = 128
                   THEN [t.cpu EXCEPT !["eax"] = Word("eax", result)]
                   ELSE t.cpu]_trapVars
=============================================================================
