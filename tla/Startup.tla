------------------------------ MODULE Startup ------------------------------
(***************************************************************************)
(* From kernel_main to the prompt, after Boot: kernel_main (main.c) and    *)
(* hal_init (hal.c) set up the tables, registers and devices one after the *)
(* other, while the timer ticks, keys are pressed and the serial port      *)
(* sends; interrupts are accepted as soon as the flag allows it.  The      *)
(* devices (8259, 8042, 16550) are modelled from how the code uses them.   *)
(***************************************************************************)
EXTENDS Boot, Sequences, Functions, FiniteSetsExt

CONSTANTS
    MESSAGE,            \* bytes of a message to the serial port
    MAX_KEYS            \* bound on the keys that are pressed

ASSUME StartupAssumption == MESSAGE \in Nat \ {0} /\ MAX_KEYS \in Nat

VARIABLES
    at,                 \* the next step of the kernel
    byte,               \* bytes of the current message that are written
    cpu,                \* control registers, table registers, interrupt flag
    gdt, idt,           \* descriptors, and vectors that have a gate
    ready,              \* what the kernel has initialised in memory
    pic,                \* vector base, masked lines, requests
    pit,                \* the timer's divisor
    uart,               \* the serial port's holding register
    wire,               \* history: the bytes it sent
    written,            \* history: how many bytes were written to it
    before_init,        \* history: how many before hal_serial_init
    kbc,                \* the keyboard controller
    status,             \* hal_keyboard_init's copy of the configuration
    keys                \* keys still to be pressed

coreVars == <<cpu, gdt, idt, ready, pit, status>>
serialVars == <<uart, wire, written, before_init>>
keyVars == <<kbc, keys>>
startVars == <<at, byte, coreVars, pic, serialVars, keyVars>>

NONE == 0
LINES == 0..15
PG == 31
PIT_HZ == 1193180       \* the timer's clock

StartupInit ==
    /\ BootInit
    /\ at = 1 /\ byte = 0
    /\ cpu = [if |-> FALSE, cr0 |-> {0}, cr3 |-> "none", cr4 |-> {}, gdtr |-> "loader",
              idtr |-> "bios", tr |-> 0]
    /\ gdt = [i \in 0..5 |-> "null"] /\ idt = {} /\ ready = {}
    /\ pic = [base |-> 8, mask |-> {}, irr |-> {}]
    /\ pit = WORD
    /\ uart = NONE /\ wire = <<>> /\ written = 0 /\ before_init = 0
    /\ \E obf \in {"none", "code"}, int1 \in BOOLEAN :
          kbc = [obf |-> obf, ibf |-> "none", pending |-> {}, int1 |-> int1, off |-> FALSE,
                 rest |-> "config"]
    /\ status = "none" /\ keys = MAX_KEYS

-----------------------------------------------------------------------------
(* The order of things.                                                    *)

hal_interrupt_init == <<"pic_init", "idt_init">>
vmm_init == <<"page_tables", "message", "vmm_switch_directory", "message",
              "vmm_enable_paging", "message">>
hal_keyboard_init == <<"enable", "ask", "read", "write", "data", "scan">>

\* Faulty variant: the keyboard comes before the interrupt controllers.
HalKeyboardFirst ==
    <<"gdt_init", "hal_cpu_init">> \o hal_keyboard_init \o hal_interrupt_init \o
    <<"tss_init">> \o vmm_init \o <<"hal_timer_init", "hal_serial_init", "dma_init",
      "pic_enable_irq0", "pic_enable_irq1", "sti">>

hal_init ==
    <<"gdt_init", "hal_cpu_init">> \o hal_interrupt_init \o <<"tss_init">> \o
    vmm_init \o <<"hal_timer_init", "hal_serial_init">> \o hal_keyboard_init \o
    <<"dma_init", "pic_enable_irq0", "pic_enable_irq1", "sti">>

\* Faulty variant: the scheduler is initialised last.
MainSchedulerLast ==
    <<"message", "message">> \o hal_init \o
    <<"message", "kmalloc_init", "message", "hal_set_timer_frequency", "message", "commands",
      "message", "scheduler_init", "run_command_interpreter">>

kernel_main ==
    <<"message", "scheduler_init", "message">> \o hal_init \o
    <<"message", "kmalloc_init", "message", "hal_set_timer_frequency", "message", "commands",
      "message", "run_command_interpreter">>

Doing(step) == pc = "kernel_main" /\ kernel_main[at] = step
Prompt == Doing("run_command_interpreter")
Done == at' = at + 1 /\ byte' = 0

-----------------------------------------------------------------------------
(* Tables and registers.                                                   *)

gdt_init ==
    /\ Doing("gdt_init")
    /\ gdt' = [i \in 0..5 |-> CASE i = 1 -> "kernel code" [] i = 2 -> "kernel data"
                                [] i = 3 -> "user code" [] i = 4 -> "user data"
                                [] OTHER -> "null"]
    /\ cpu' = [cpu EXCEPT !.gdtr = "kernel"]
    /\ UNCHANGED <<idt, ready, pit, status, pic>>

\* Keeps PG and PE, sets bits 1 and 4, and lets SSE be used.
hal_cpu_init ==
    /\ Doing("hal_cpu_init")
    /\ cpu' = [cpu EXCEPT !.cr0 = (@ \cap {0, PG}) \cup {1, 4}, !.cr4 = @ \cup {9, 10}]
    /\ UNCHANGED <<gdt, idt, ready, pit, status, pic>>

\* The initialisation of the controllers drops the requests they had latched.
pic_init ==
    /\ Doing("pic_init")
    /\ pic' = [base |-> 32, mask |-> LINES, irr |-> {}]
    /\ UNCHANGED coreVars

idt_init ==
    /\ Doing("idt_init")
    /\ idt' = (0..47) \cup {128}
    /\ cpu' = [cpu EXCEPT !.idtr = "kernel"]
    /\ UNCHANGED <<gdt, ready, pit, status, pic>>

tss_init ==
    /\ Doing("tss_init")
    /\ gdt' = [gdt EXCEPT ![5] = "tss"]
    /\ cpu' = [cpu EXCEPT !.tr = 5]
    /\ UNCHANGED <<idt, ready, pit, status, pic>>

vmm_switch_directory ==
    /\ Doing("vmm_switch_directory")
    /\ cpu' = [cpu EXCEPT !.cr3 = "kernel_page_directory"]
    /\ UNCHANGED <<gdt, idt, ready, pit, status, pic>>

vmm_enable_paging ==
    /\ Doing("vmm_enable_paging")
    /\ cpu' = [cpu EXCEPT !.cr0 = @ \cup {PG}]
    /\ UNCHANGED <<gdt, idt, ready, pit, status, pic>>

pic_enable_irq ==
    /\ \E n \in {0, 1} :
          /\ Doing(IF n = 0 THEN "pic_enable_irq0" ELSE "pic_enable_irq1")
          /\ pic' = [pic EXCEPT !.mask = @ \ {n}]
    /\ UNCHANGED coreVars

sti ==
    /\ Doing("sti")
    /\ cpu' = [cpu EXCEPT !.if = TRUE]
    /\ UNCHANGED <<gdt, idt, ready, pit, status, pic>>

\* The divisor is kept between 2 and 65535.
pit_set_frequency(hz) ==
    pit' = Min({Max({PIT_HZ \div hz, 2}), WORD - 1})

pit_init ==
    /\ Doing("hal_timer_init") \/ Doing("hal_set_timer_frequency")
    /\ pit_set_frequency(100)
    /\ UNCHANGED <<cpu, gdt, idt, ready, status, pic>>

\* What other modules model in detail: the scheduler, the page tables, the DMA
\* controller's mask, the heap and the table of the seven commands.
InMemory ==
    /\ \E part \in {"scheduler_init", "page_tables", "dma_init", "kmalloc_init", "commands"} :
          Doing(part) /\ ready' = ready \cup {part}
    /\ UNCHANGED <<cpu, gdt, idt, pit, status, pic>>

Tables ==
    /\ gdt_init \/ hal_cpu_init \/ pic_init \/ idt_init \/ tss_init \/ InMemory
       \/ vmm_switch_directory \/ vmm_enable_paging \/ pic_enable_irq \/ sti \/ pit_init
    /\ Done
    /\ UNCHANGED <<serialVars, keyVars>>

-----------------------------------------------------------------------------
(* The serial port.  A byte stands for its number among those written.    *)

\* Faulty variant: does not wait.
WriteByteAtOnce(b) == uart' = b

\* serial_write_byte waits until the holding register is empty.
serial_write_byte(b) == uart = NONE /\ uart' = b

hal_serial_write ==
    /\ Doing("message")
    /\ serial_write_byte(written + 1)
    /\ written' = written + 1
    /\ IF byte + 1 = MESSAGE THEN Done ELSE byte' = byte + 1 /\ UNCHANGED at
    /\ UNCHANGED <<coreVars, pic, keyVars, wire, before_init>>

\* Setting up the FIFO drops what is in the holding register.
hal_serial_init ==
    /\ Doing("hal_serial_init")
    /\ uart' = NONE
    /\ before_init' = written
    /\ Done
    /\ UNCHANGED <<coreVars, pic, keyVars, wire, written>>

\* The port sends the byte.
Send ==
    /\ uart # NONE
    /\ wire' = Append(wire, uart)
    /\ uart' = NONE
    /\ UNCHANGED <<at, byte, coreVars, pic, keyVars, written, before_init>>

-----------------------------------------------------------------------------
(* The keyboard controller: an output buffer (obf) that raises line 1 while *)
(* it is full, an input buffer (ibf), and a configuration of which only the *)
(* interrupt enable (int1), the clock (off) and the rest are told apart.    *)

LineHigh(k) == k.obf # "none" /\ k.int1

\* The edge of the line is latched; a request whose line falls before it is
\* acknowledged may stay or go.
Becomes(k) ==
    /\ kbc' = k
    /\ \E irr \in CASE LineHigh(k) /\ ~LineHigh(kbc) -> {pic.irr \cup {1}}
                    [] ~LineHigh(k) /\ LineHigh(kbc) -> {pic.irr, pic.irr \ {1}}
                    [] OTHER -> {pic.irr} :
          pic' = [pic EXCEPT !.irr = irr]

\* A command or data byte is written once the input buffer is empty.
Outb(step, what) ==
    /\ Doing(step) /\ kbc.ibf = "none"
    /\ Becomes([kbc EXCEPT !.ibf = what])
    /\ UNCHANGED status

\* The answer is whatever the output buffer holds once it is full.
ReadConfiguration ==
    /\ Doing("read") /\ kbc.obf # "none"
    /\ status' = (IF kbc.obf = "config" THEN kbc.rest ELSE kbc.obf)
    /\ Becomes([kbc EXCEPT !.obf = "none"])

KeyboardInit ==
    /\ \/ Outb("enable", "0xAE") \/ Outb("ask", "0x20") \/ ReadConfiguration
       \/ Outb("write", "0x60") \/ Outb("data", "status") \/ Outb("scan", "0xF4")
    /\ Done
    /\ UNCHANGED <<cpu, gdt, idt, ready, pit, serialVars, keys>>

\* The controller takes the byte in its input buffer.
Controller ==
    /\ kbc.ibf # "none"
    /\ LET taken == [kbc EXCEPT !.ibf = "none"]
       IN  Becomes(CASE kbc.ibf = "0xAE" -> [taken EXCEPT !.off = FALSE]
                     [] kbc.ibf = "0x20" -> [taken EXCEPT !.pending = @ \cup {"config"}]
                     [] kbc.ibf = "0x60" -> taken
                     [] kbc.ibf = "status" -> [taken EXCEPT !.int1 = TRUE, !.off = FALSE,
                                                            !.rest = status]
                     [] kbc.ibf = "0xF4" -> [taken EXCEPT !.pending = @ \cup {"ack"}])
    /\ UNCHANGED <<at, byte, coreVars, serialVars, keys>>

\* The answer to 0x20 and the acknowledgement of 0xF4 wait for the output buffer.
Answer ==
    /\ kbc.obf = "none"
    /\ \E a \in kbc.pending : Becomes([kbc EXCEPT !.obf = a, !.pending = @ \ {a}])
    /\ UNCHANGED <<at, byte, coreVars, serialVars, keys>>

\* The keyboard sends a scan code.
Keyboard ==
    /\ kbc.obf = "none" /\ ~kbc.off
    /\ keys > 0 /\ keys' = keys - 1
    /\ Becomes([kbc EXCEPT !.obf = "code"])
    /\ UNCHANGED <<at, byte, coreVars, serialVars>>

-----------------------------------------------------------------------------
(* Interrupts, with their handlers as far as they concern the devices.     *)

Accepted == IF cpu.if THEN pic.irr \ pic.mask ELSE {}

Tick ==
    /\ pic' = [pic EXCEPT !.irr = @ \cup {0}]
    /\ UNCHANGED <<at, byte, coreVars, serialVars, keyVars>>

irq0_handler ==
    /\ 0 \in Accepted
    /\ pic' = [pic EXCEPT !.irr = @ \ {0}]
    /\ UNCHANGED <<at, byte, coreVars, serialVars, keyVars>>

\* irq1_handler reads the output buffer, which lowers the line.
irq1_handler ==
    /\ 1 \in Accepted
    /\ pic' = [pic EXCEPT !.irr = @ \ {1}]
    /\ kbc' = [kbc EXCEPT !.obf = "none"]
    /\ UNCHANGED <<at, byte, coreVars, serialVars, keys>>

Kernel == Tables \/ hal_serial_write \/ hal_serial_init \/ KeyboardInit
Devices == Send \/ Controller \/ Answer \/ Keyboard \/ Tick \/ irq0_handler \/ irq1_handler

\* Until kernel_main starts, the devices are the BIOS's.  What starts is
\* kernel_main only if stage 2 found the kernel; what else may have been loaded
\* does is not modelled.
Running == pc = "kernel_main" /\ KernelOnDisk

StartupNext ==
    \/ Loader /\ UNCHANGED startVars
    \/ Running /\ (Kernel \/ Devices) /\ UNCHANGED bootVars

allVars == <<bootVars, startVars>>
StartupSpec ==
    /\ StartupInit /\ [][StartupNext]_allVars
    /\ WF_allVars(Loader /\ UNCHANGED startVars)
    /\ WF_allVars(Running /\ Kernel /\ UNCHANGED bootVars)
    /\ WF_allVars(Running /\ Send /\ UNCHANGED bootVars)
    /\ WF_allVars(Running /\ Controller /\ UNCHANGED bootVars)
    /\ WF_allVars(Running /\ Answer /\ UNCHANGED bootVars)

-----------------------------------------------------------------------------
(* Properties.                                                             *)

\* The types of the registers, tables and devices.
StartupTypeOK ==
    /\ at \in DOMAIN kernel_main /\ byte \in 0..(MESSAGE - 1)
    /\ cpu.if \in BOOLEAN /\ cpu.cr0 \subseteq {0, 1, 4, PG} /\ cpu.cr4 \subseteq {9, 10}
    /\ cpu.cr3 \in {"none", "kernel_page_directory"} /\ cpu.tr \in DOMAIN gdt
    /\ cpu.gdtr \in {"loader", "kernel"} /\ cpu.idtr \in {"bios", "kernel"}
    /\ DOMAIN gdt = 0..5 /\ idt \subseteq 0..255 /\ ready \subseteq Range(kernel_main)
    /\ pic \in [base : {8, 32}, mask : SUBSET LINES, irr : SUBSET {0, 1}]
    /\ pit \in Nat /\ 2 <= pit /\ pit <= WORD
    /\ written \in Nat /\ before_init \in 0..written
    /\ uart \in 0..written /\ wire \in Seq(1..written)
    /\ kbc \in [obf : {"none", "code", "config", "ack"}, int1 : BOOLEAN, off : BOOLEAN,
                ibf : {"none", "0xAE", "0x20", "0x60", "status", "0xF4"},
                pending : SUBSET {"config", "ack"}, rest : {"config", "code", "ack"}]
    /\ status \in {"none", "config", "code", "ack"} /\ keys \in 0..MAX_KEYS

\* Nothing is used before it is set up: an interrupt that is accepted, at any
\* moment from the first sti on, finds its vector's gate, the code segment the
\* gate names and a scheduler to call; paging is on only over a directory that is
\* filled and loaded; the task register names a TSS; and at the prompt all parts
\* are ready and the timer runs at 100 Hz.
SetupBeforeUse ==
    /\ StartupTypeOK
    /\ Accepted # {} =>
          /\ cpu.idtr = "kernel" /\ {pic.base + n : n \in Accepted} \subseteq idt
          /\ cpu.gdtr = "kernel" /\ gdt[1] = "kernel code"
          /\ "scheduler_init" \in ready
    /\ PG \in cpu.cr0 => cpu.cr3 = "kernel_page_directory" /\ "page_tables" \in ready
    /\ cpu.tr # 0 => cpu.gdtr = "kernel" /\ gdt[cpu.tr] = "tss"
    /\ Prompt =>
          /\ ready = {"scheduler_init", "page_tables", "dma_init", "kmalloc_init", "commands"}
          /\ {0, PG} \subseteq cpu.cr0 /\ cpu.cr0 \cap {2, 3} = {}
          /\ cpu.if /\ pic.mask = LINES \ {0, 1} /\ PIT_HZ \div pit = 100

\* The serial port sends bytes in the order hal_serial_write wrote them, and of
\* those written since hal_serial_init every one, however slowly it sends.
SerialDelivers ==
    /\ \A i, j \in DOMAIN wire : i < j => wire[i] < wire[j]
    /\ (before_init + 1)..written \subseteq Range(wire) \cup {uart}

\* The keyboard never falls silent: once interrupts are on, a byte in the output
\* buffer has its interrupt requested, although pic_init drops requests while the
\* buffer may be full and keys are pressed all through hal_keyboard_init; and the
\* controller is left with its interrupt and clock on, whatever was read as its
\* configuration.
KeyboardAlive ==
    cpu.if => /\ kbc.obf # "none" => 1 \in pic.irr
              /\ kbc.int1 /\ ~kbc.off

\* The machine boots, with all its waiting for the disk, the serial port and the
\* keyboard controller: it ends with a disk error, at the prompt, or with something
\* that is not the kernel where stage 2 did not find it.
BootsToPrompt ==
    <>(pc = "disk_error" \/ Prompt \/ (pc = "kernel_main" /\ ~KernelOnDisk))

-----------------------------------------------------------------------------
(* What comments in the source say and the code does not do.               *)

\* "Read the configuration byte": what is written back is what was configured.
ConfigurationRead == Prompt => kbc.rest = "config"

\* "NE (bit 5) = 1", "WP (bit 16) = 1", "AM (bit 18) = 1".
Cr0AsCommented == Prompt => {5, 16, 18} \subseteq cpu.cr0

\* "Write a string to the serial port": every byte written is sent.
AllBytesSent == Prompt /\ uart = NONE => Range(wire) = 1..written

=============================================================================
