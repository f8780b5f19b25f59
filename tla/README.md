# A TLA+ verification of JarvOs

JarvOs is a small 32-bit x86 kernel in C and assembly. This directory models
its parts in TLA+, checks small instances of them with TLC, and proves with TLAPS
the safety of most of them for every size: the scheduler, the message queues, pages
and address spaces, the heap, the file system, traps, the way from the boot sector to
the prompt, keyboard input, interrupt service and sleeping. Definitions keep the names
of the functions and fields they stand for; `PROJECT.json` maps each one to its lines.

## The system and its parts

| Part | Source | Module | Extent |
|---|---|---|---|
| Process scheduler, fork, sleep, exit | `kernel/process/*`, `kernel/syscall.c` | `Scheduler` | all operations with a caller |
| Message queues | `kernel/ipc/msg.c` | `MsgQueue`, `MsgFifo` | all operations |
| Physical pages | `kernel/memory/pmm.c` | `Pmm` | all operations that change state |
| Address spaces | `kernel/memory/vmm.c` | `Vmm` (on top of `Pmm`) | of the entry flags only PAGE_USER |
| Kernel heap | `kernel/memory/kmalloc.c`, `libc/stdlib.c` | `Kmalloc` | all operations, without contents |
| Keyboard, command line, cursor | `kernel/drivers/keyboard.c`, `kernel/main.c`, `kernel/core/idt.c` | `Input` | without running the commands |
| Interrupt controllers and handlers | `kernel/drivers/pic.c`, `kernel/core/idt.c`, `interrupt.asm` | `Interrupts` | set-up in `Startup` |
| Timer and busy sleeps | `kernel/hal.c`, `kernel/drivers/pit.c` | `Timer` | divisor in `Startup` |
| System calls, exceptions, ring 3 | `kernel/syscall.c`, `interrupt/syscall_stub.asm`, `core/interrupt.asm`, `core/usermode.c`, `core/tss.c` | `Traps` | without descriptor bits |
| Boot loader and entry | `boot/*.asm`, `kernel/entry.asm` | `Boot` | without A20, GDT and screen |
| Start-up: HAL, GDT, IDT, PIC, TSS, PIT, paging, CPU, serial port, keyboard controller | `kernel/main.c`, `kernel/hal.c`, `kernel/core/*`, `kernel/drivers/*` | `Startup` (on top of `Boot`) | to the prompt |
| Virtual file system, ramfs | `kernel/fs/vfs.c` | `Vfs`, `FileStore` | all operations; nothing calls it |
| String functions | `libc/string.c` | `Strings` | all functions |
| Device list, command table | `kernel/drivers/driver.c`, `kernel/shell/commands.c` | `Registry` (on top of `Strings`) | all operations |

How they interact. The boot loader reads the kernel from disk and enters it at
1 MB. `kernel_main` initialises the controllers, memory and scheduler and then
runs the command line as the idle process. Everything else happens in
interrupts: the timer handler counts a tick and calls `scheduler_tick`, which may
go on in another process; the keyboard handler stores one scan code; `int 0x80`
runs a system call behind an interrupt gate, with interrupts masked. Processes
get pages from the page allocator for stacks and directories, and the heap maps
pages through the virtual memory manager. The dangerous places are therefore
code that runs with interrupts on and is seen half-way by a handler, a context
that is left inside one handler and resumed inside another, and the paths taken
when pages run out.

## Modules, state and actions

**Scheduler.** State: the free list, the ready queues and the sleep list as
sequences of PCBs; the fields of each PCB (`state`, `priority`, `wake_tick`,
`stack_ptr`, `page_directory`); `current_process`; and, beside what the code
stores, who is really on the CPU (`cpu`), where in the kernel's code each
process is (`pc`), the interrupt flag, CR3 and the tick count. `stack_ptr` is
abstracted to what `context_switch` would find there: the frame built at
creation (`entry`), a frame saved by a timer interrupt (`irq`), or one that was
already used (`stale`). `scheduler_sleep_current` is split at each store, because it
can run with interrupts on and a tick may fall between any two. `scheduler_tick`,
behind the timer's gate, and `sys_fork` and `sys_exit`, behind that of `int 0x80`, are
one step each. Any process may fork and exit, the idle process, which is the command
line, included. `sys_exit` releases the PCB, yields and halts with interrupts masked:
the machine is then `Stopped`. `Create` is the kernel calling
`scheduler_create_process` with interrupts masked. `deadline` is a history variable,
the full-width time a sleeper asked for. The pages taken before are any number of
those there are.

`SchedulerProofs` holds the lemmas and theorems (below), as `ServiceProofs` (for
`MsgQueue`, `Interrupts` and `Timer`), `VmmProofs`, `KmallocProofs`, `VfsProofs`,
`TrapsProofs`, `StartupProofs` and `InputProofs` do for the modules that follow.

**MsgQueue / MsgFifo.** `MsgQueue` is the array of ring buffers with the four
system calls, each one step. `MsgFifo` says what a set of queues promises, and
`ImplementsFifo` maps each ring to the sequence of its messages. `alloc_msgqueue`
is an action although nothing calls it: without it no queue ever has an id and
nothing could be said about rings. In `Spec` receivers take the oldest message,
selected by type or not; in `TypedNext` they may take one from the middle.

**Pmm, Vmm.** `Pmm` works on byte addresses, with the code's rounding and
clipping, over the bitmap (`page_bitmap` is the set of free pages). Callers give
back only what they hold and reserve only what nobody holds. `pmm_alloc_page` takes no
lock between its search and its store, and is one step all the same: in this kernel it
is reached by fork, behind the gate of `int 0x80`, and before there are other processes.
Code that allocated with interrupts on beside them would need a finer model. `Vmm`
extends it:
directories and tables live in allocated pages, `cr3` selects one, the TLB caches
translations, with whether ring 3 may use them, until they are flushed, and
`Walk` is the processor filling it. `vmm_mark_user_range` opens the pages of a
range of bytes, as `cmd_ring3` does for its test code.

**Kmalloc.** Block headers with their links, sizes and free bits; first fit,
split, merge, growth page by page (which may fail half-way), `kfree`, `krealloc`
and libc's `realloc`. The history variable of live allocations tells what callers
hold. The walk of `kmalloc` along the list is `Met`, the least set of blocks with the
first one and the successor of each that does not stop it: the code's loop ends
where the set does, and a proof can reason about it without recursion.

**Input.** The interpreter's loop is split at every access to the two variables
it shares with `irq1_handler`: the check of the flag, the read of the code, the
reset of the flag, and the `hlt`. Codes are kinds (letter, enter, shift, ...). The
cursor follows `vga_putchar`; the two strings that are printed, the prompt and the
erasure of a character, have three characters each.

**Interrupts.** Request, mask and in-service sets of both controllers; the CPU
accepts the first deliverable line, the handler sends its ends of interrupt, the
timer's goes on into `scheduler_tick`, which may continue in any context: its own,
one suspended in its own tick, or a new one that starts with interrupts masked.
The controllers are modelled as the code uses them (non-specific end of
interrupt, cascade on line 2, spurious line 7).

**Timer.** `hal_sleep_ms` with its reads of the two halves of the 64-bit counter
as separate steps, and the two pairs of counter and callback in `hal.c` and `pit.c`.

**Traps.** The stack as the CPU and the stubs push it, the `registers_t` through
which C code reads it, the dispatcher's result for every call number, the way
back, nested traps, and the switch to ring 3. The result of a call is abstracted to the
values it may have, exactly one where the code returns a constant. `sys_msgsnd` ends
with an `sti`, which is not reached: for want of an id it fails on every queue there is.

**Boot.** The loader's registers at their widths, one sector per step, a read
that may fail at any sector, the copy to 1 MB and the zeroing of `.bss`. Stage 1 reads
the drive it was booted from; stage 2 reads drive 0x80 and counts with 18 sectors and
two heads. `drive` is the one, `disk` the real geometry of the other, by which the BIOS
turns a position into a sector or refuses it. `KernelOnDisk` says that the machine was
booted from drive 0x80 and that this has the loader's geometry.

**Startup.** Goes on where `Boot` ends, if the kernel was there to be loaded
(`Running`): nothing can be said of other code. `at` is the next step of `kernel_main` and,
inside it, of `hal_init` and the initialisers it calls, in the code's order; the
state is what they set: control and table registers, the GDT, the vectors that
have a gate, the controllers' base, masks and requests, the divisor, and what is
initialised in memory. Three devices run against it, modelled from how the code
uses them: the UART sends the byte in its holding register some time after it was
written; the keyboard controller takes commands, answers them, and puts keys into
its one output buffer at any moment; line 1 is requested when that buffer becomes
full. Each polling loop is a step that waits for its condition. Interrupts are
accepted as soon as the flag and the masks allow it.

**Vfs / FileStore.** Nodes with their parent, sibling and child links; the table
of descriptors with their offsets; ramfs data with size, capacity and content. A
path is the sequence of its components, `.` and `..` included. Both allocations of
`ramfs_write` may fail, each on its own. `ramfs_stat` of a file without data reads the
size through a null pointer; `StatSizes` is what may be found there. `FileStore` says
what callers may rely on: files are sequences of bytes, descriptors are positions in
them, and a call that fails changes nothing (`Fails`), except that a write beyond the
end that finds no memory may empty the file it writes to (`Loses`).
`ImplementsFiles` maps a node's data to the sequence. The walk of `vfs_dir_find_child`
along the siblings is `Met`, the least set with the first child and the successor of each
that does not have the name. The code is in no build and
has no callers: nodes are created, taken out and put elsewhere by external
actions that follow the comment in `ramfs_open`.

**Strings.** A memory of bytes; each function of `string.c` is an operator that
returns its result and the memory it leaves. A loop that copies is done byte by
byte, because its areas may overlap; a loop that only looks is the first address
where it stops. `strtok`'s static pointer is a variable.

**Registry.** The linked list of devices and the command table, both searched with
`strcmp` of `Strings` over names in memory.

Operators commented as a *faulty variant* are the mutations of their neighbour
that `PROJECT.json` lists: with the variant in its place TLC finds the property
named there violated.

## Runs

| Run | What it checks |
|---|---|
| `scheduler` | No PCB is in two lists or lost; states, priorities, saved contexts and CR3 fit; no early wake; a tick runs the highest priority. As long as ticks are taken, sleepers wake and equal top priorities take turns |
| `syscalls` | Handlers read the fields the stubs pushed; returning restores everything but the result; ring 3 runs masked. Rings are FIFO queues (refinement); rings and ids are consistent; slots are reused cleanly |
| `typed_receive` | *Violation*: a receive from the middle loses messages |
| `vmm` | A page has one purpose and is not also free, what reserving took away is not handed out, address spaces share the kernel's tables and nothing else, the identity mapping survives, the TLB is never stale, also when pages run out |
| `kmalloc` | Blocks tile the heap with free neighbours merged, allocations are disjoint and big enough, a call touches no other allocation |
| `input` | Codes are used once and in order, characters follow the modifiers, the line fits and matches the cursor, a signalled key is taken |
| `clock` | Nothing stays in service with interrupts on, also across context switches inside the timer handler; every timer request is served. Sleeps of `hal_sleep_ms` are long enough (except across an overflow of the low half) and end |
| `startup` | From the boot sector to the prompt: `kernel_main` finds an intact image, if drive 0x80 was booted from and has the loader's geometry, and a zeroed `.bss` in any case; nothing is used before it is set up; no serial byte is overwritten; the keyboard does not fall silent; the prompt is reached |
| `vfs` | The links of the tree agree in both directions and paths find their nodes after any moves; files behave as sequences of bytes (refinement) |
| `strings` | Every function of `string.c` agrees with a definition by sequences; repeated `strtok` gives the tokens; devices and commands are found by exactly their names |
| `round_robin` | *Violation*: a process that starts or exits keeps the CPU for ever |
| `kernel_image` | *Violation*: the first page handed out is part of the kernel |

`syscalls` and `clock` each put two modules side by side that share no variable
(`MCSyscalls`, `MCClock`): a behaviour is one of the first or one of the second, and each
property is about its own module.

The type invariant of a module is the first conjunct of one of its safety
properties; that of `Scheduler`, `TypeOK`, is proved and in no run, as is
`IdleRunnable`, a conjunct of the inductive invariant.

### Bounds, and why they are enough

- **scheduler**: two PCBs beside the idle process, two priorities, six ticks,
  sleeps of one and three ticks, four pages. Two PCBs give contention for a
  queue, a sleeper beside a runner, and reuse of a PCB after its creation failed; with
  none to four of the pages taken already, creations succeed, fail between directory
  and stack, and fail at once. The tick count stops at its bound, but ticks go on.
  `WAKE_MOD` stands for 2^32 and is out of reach. The theorems remove all of these
  bounds for the safety properties. **round_robin** is the same instance.
- **syscalls**: at most two nested traps; numbers of every kind of call; exceptions
  with and without an error code. Two queues of two messages, two keys, two types, two
  ids: full, empty, wrap-around and a reused slot all occur. **typed_receive**: three
  slots, so that a queue has a middle.
- **vmm**: pages of two bytes, so that ranges begin and end on, inside and outside
  the free pages; five free pages, so that memory runs out in the middle of every
  operation; one reservation; three heap addresses in two directory entries.
  **kernel_image**: the addresses of the source, with 64 pages above `kernel_end`, and as
  the end of the image the least it can be, that of `msgqueues` placed first.
- **kmalloc**: pages of 24 units, headers of 4, requests of 0, 1, 9 and 21 units,
  one free frame beside the initial heap and one given back later: exact fits,
  fits with a remainder too small to split, growth and failed growth occur.
- **input**: up to four codes of eight kinds, a buffer of three, a screen of two
  rows of five, which wraps within a line.
- **clock**: lines 0, 1, 7 and 9 (timer, keyboard, the spurious line, one of
  the slave), three contexts; a low half of seven values, starting near its overflow.
- **startup**: the loader's geometry and sizes, with `.bss` cut off a little after the
  sectors that are loaded; booting from the floppy or from drive 0x80, which has the
  loader's geometry, that of a hard disk, shorter tracks, or one side; messages of two
  bytes and two keys: one key fills the controller's buffer, the other finds it full.
- **vfs**: three bounds, one per behaviour: three nodes beside the root that are
  opened and moved, two files of one byte, and one file of three bytes with two
  descriptors. `MAX_NODES` and `MAX_OPEN_FILES` are the largest of these. Contents
  start with room for one byte instead of 256, so that they are doubled twice.
- **strings**: every memory of five bytes over three values, one negative as a
  `char`; `strtok` on every text of five bytes; six devices, some of one name, one without a
  name and one without operations;
  commands of which one is a prefix of another.

Deadlock is checked except where the system really stops: the scheduler (the CPU
halted with interrupts masked), `Startup` (at the prompt, after a disk error, or with
something else than the kernel loaded) and `Traps` (exception handlers stop the machine,
`MAX_TRAPS`).

### Fairness

- **Scheduler**: strong fairness of the timer tick, since the timer keeps firing
  and the controller holds a request while interrupts are masked; weak fairness
  of the steps of code on the CPU that cannot block; and of `Sti` by the idle process,
  that is, the command line does not leave interrupts masked. Nothing is assumed of
  other processes: `context_switch` enters them without `iretd`, with interrupts
  still masked, and nothing in the trampoline enables them. `SleepersWake` and
  `TurnsWhileTicking` therefore except behaviours in which interrupts stay masked from
  some time on; without the exception they fail (`round_robin`).
- **Interrupts**: weak fairness of the CPU, and none of `Sti`: `TimerServed` has the same
  exception.
- **Input, Timer**: weak fairness of the interpreter or sleeper and of the timer
  interrupt. None is assumed of the keyboard.
- **Startup**: weak fairness of the loader and the kernel, of the UART sending the
  byte it holds, and of the keyboard controller taking a byte and answering a
  command: the polling loops of `serial.c` and `keyboard.c` rely on these. None is
  assumed of the keys or the timer.

## Proofs

### The scheduler

The theorems of `SchedulerProofs` hold for any number of PCBs, priorities, pages
and ticks (`SchedulerAssumption`: the numbers are naturals, and there is at least
one PCB and one priority).

| Theorem | Property |
|---|---|
| `SchedulerInvariant` | `Spec => []Inv` |
| `TypeCorrect` | `TypeOK` |
| `OwnedOnce` | `PCBOwnedOnce`: no PCB is in two lists or twice in one |
| `NoneLost` | `NoProcessLost`: whoever has not terminated is running or in a list |
| `StatesMatch` | `StateMatchesList`: state and priority fit the list |
| `ContextSaved` | `SavedBeforeResume`: whoever can be picked has a saved context |
| `AlwaysRunnable` | `IdleRunnable`: `pick_next_process` always finds a process |
| `CurrentRuns` | `CpuMatchesScheduler` |
| `HighestRuns` | `TickRunsHighest` |
| `OwnSpace` | `OwnAddressSpaceLoaded` |
| `SleepsLongEnough` | `NoEarlyWake`, if tick counts fit `wake_tick` (`MAX_TICK < WAKE_MOD`) |

The argument. `PCBOwnedOnce` is not inductive: that `scheduler_tick` may enqueue the
previous process, or a woken one, depends on its state and on the list it is in
(`StateMatchesList`), on the previous process being in no list, which depends on
where in its code it is (`CpuMatchesScheduler`), and on the pick being non-empty
(`IdleRunnable`). `sys_exit` leaves a state that these facts would not survive: no
current process, or an idle process that is current and on the free list. Both go with
a halted CPU and masked interrupts (`Stopped`), in which neither a tick nor a step of code
is possible. `Inv` is the conjunction of these, and it is inductive. The proof
has three layers. The first reads the list operations as sets: what
enqueueing, removing the due sleepers and picking the first of the highest queue
do to the members of a list. The second proves that each step of code on the CPU
keeps `Inv`. The third describes the outcome of a tick by sets
(`TickLists`) and proves each conjunct (`TickInv`). `NoEarlyWake`
needs in addition `SleepInv`, which relates `wake_tick` to the full deadline and
fails without the bound.

### Message queues

`ServiceProofs` proves, for any number of queues, messages, keys and types
(`MsgQueueAssumption`):

| Theorem | Property |
|---|---|
| `QueuesStayConsistent` | `QueuesConsistent`: `tail` is `count` places after `head`, and live ids differ |
| `RingsAreFifo` | `ImplementsFifo`: the array of rings implements `MsgFifo` |

The inductive invariant `QInv` adds to `QueuesConsistent` that a slot without an id
is empty, without which a new queue could inherit messages, and that ids given
out are below `next_msgqueue_id`, without which a new id could repeat one. The
lemmas first read a ring as a sequence (`ContentsSeq`: its places are consecutive
modulo the capacity), then say what a send and a receive do to that sequence
(`SentContents`, `RemovedContents`); `FifoStep` maps each step of the system calls
to a step of `MsgFifo` or to none. Both theorems are about `Spec`, whose receivers
take the oldest message. They do not hold of `TypedNext`.

### Pages and address spaces

`VmmProofs` proves, for any size of memory and of a page, any number of entries
and any order of calls, with allocations that fail anywhere (`PmmAssumption`,
`VmmAssumption`: the managed memory starts on a page boundary, as 0x100000 does, is
a whole number of pages and lies within what the kernel's tables map; the static
tables and the test code of `cmd_ring3` lie in the kernel; heap addresses are whole
pages above the identity mapping):

| Theorem | Property |
|---|---|
| `OnePurposeAlways` | `OnePurpose`: a page is a directory, a table or data, and not free |
| `ReservedNotFreeAlways` | `ReservedNotFree`: pages of reserved ranges and below `kernel_end` stay out of use, and so those of the image, if it ends by `kernel_end` |
| `SpacesApartAlways` | `SpacesApart`: spaces share the kernel's tables only, and all map the managed memory onto itself |
| `TlbCoherentAlways` | `TlbCoherent` |

The argument. That a new table or directory is not already another's depends on its
page having been free, so on `OnePurpose`; that the pages handed out are outside what
was reserved must be known of the held ones too, since they are given back; the
identity mapping depends on the static tables being the first of every directory and
on no mapping being written into them. `VmmInv` has three parts. `PagesInv` says what
each page is used for and that none, free or held, is inside a reserved range.
`SpacesInv` says what each directory and table holds: the static tables first, above
them tables of its own, each in one entry of one directory. `CacheInv` says that only
entries that exist have flags, so that a table in a fresh page inherits none, and
that the TLB agrees with the tables. The lemmas first turn addresses into pages and
indices, then say what a change of a directory's own table (`OwnChanged`) and a new one
(`OwnAdded`) do to the invariant; `VmmInvStep` has a lemma for each action.

### The heap

`KmallocProofs` proves, for any sizes of headers, pages, requests and alignment, any
number of blocks, and growth that fails anywhere (`KmallocAssumption`: a page holds more
than a header, the heap does not start at address 0; sizes do not wrap):

| Theorem | Property |
|---|---|
| `HeapTiled` | `Tiled`: the walk meets every block, the blocks tile the heap, `prev` undoes `next`, free neighbours are merged |
| `LiveAlwaysOwned` | `LiveOwned`: the used blocks are those of the pointers in use, and large enough |
| `CallsLeaveOthers` | `OthersUntouched`: no call changes the size of another pointer's block |
| `SearchFindsLowest` | `FirstFitLowest`: the search takes the lowest block that fits, and the heap grows only if none does |

The argument. `KmInv` says that the blocks tile the heap without mention of the walk:
each lies between `KHEAP_START` and `heap_end`, its `next` leads to the block that
starts where it ends and its `prev` to the one that ends where it starts, and of two
blocks the lower ends before the higher starts (`Tiles`). That the walk then meets every
block (`KmInvTiled`) follows from the least block it misses: that one is not the
first, so it is the successor of a lower block, which the walk meets. For the same reason
the walk that stops at a fitting block stops at the lowest one (`StopsAtLowest`).
`Apart` says that no two neighbours are free; within `kfree` it has an exception, the
block just freed, since the two merges restore it one side at a time. `Owns`, that the used
blocks are those of the pointers in use, is what makes the argument of `kfree` a block,
and together with `Tiles` it makes the blocks that are split or merged nobody else's. The
lemmas describe a split, a block added at the end and a merge as changes of a heap that
is a value, so that `krealloc`, which allocates and then frees, is two of them in a row.

### The file system

`VfsProofs` proves, for any number of nodes, names, descriptors and bytes, any sequence of
calls, creations and moves, and allocations that fail anywhere (`VfsAssumption`: contents
start with room for at least one byte, no name is `.` or `..`; sizes do not wrap):

| Theorem | Property |
|---|---|
| `VfsInvHolds` | `VfsSpec => []VfsInv` |
| `TreeStaysConsistent` | `TreeConsistent`: the lists of children agree in both directions, and paths find their nodes |
| `FilesImplemented` | `ImplementsFiles`: the calls implement `FileStore` |

The argument. `TreeInv` says of every directory that its children are linked in both
directions (`Linked`) and that a set of them which contains the first and is closed under
`next_sibling`, or the last and `prev_sibling`, is all of them (`Reaches`), so that the walk
meets each of them (`WalkMeets`); adding at the end and taking out anywhere keep that
(`JoinedLists`, `LeftLists`). That of each name there is one child (`Named`) is what makes a
path lead to its node and to no other. `Filled` says that the bytes of a content behind the
size were never written: a write behind the end makes them part of the file, and
`FileStore` allows there only what fresh memory holds.

`resolve_path`, `PathTo` and the doubling of the capacity are recursive functions. None can
be unfolded before it is known to exist, so each is first described by what its values up to
some argument are (`Rounds`, `Paths`, `Loops`). That such values exist, and that any two
agree, follows from the least argument at which they would not (`LeastOf`), or for paths
from the least set of nodes that hang on the root (`TreeInduction`). `DoubledIs` then shows
that the doubled capacity is enough, `PathFinds` that a path leads to its node.
For the refinement there is a lemma for each call (`OpenStep` to `StatStep`), which maps it to
the corresponding action of `FileStore` or to a failure; creating and moving nodes
change no file (`NodesMove`). That a failing write is a step of `Loses` only if it would have
grown its file is part of `WriteStep`.

### Traps

`TrapsProofs` proves, for any calls, arguments and exceptions and faults in handlers
to any depth (`TrapsAssumption`; `MAX_TRAPS` is any positive number):

| Theorem | Property |
|---|---|
| `FieldsReadAlways` | `FieldsRead`: what a handler reads through `registers_t` is what the trap found |
| `ReturnExactAlways` | `ReturnExact`: the way back restores all but the result of a call |

The invariant `TrapsInv` says what the words on the stack are while a handler runs
(`Holds`): those that `pusha` and the stub saved, for an exception also its number and
error code, and for an interrupt or a system call the frame that `iretd` will take,
with `esp` and `ss` if and only if it came from ring 3. On the way back from a system
call the place of `eax` has the result. The invariant also says that interrupts and
system calls come only from code that is in no handler, since the gates mask
interrupts and handlers make no calls: a trap that is left is never a nested one.
Exceptions nest, and are not left. The lemmas say where each word is when a sequence
of pushes ends (`StackWords`) and which pop takes it (`LeaveExact`).

### From the boot sector to the prompt

`StartupProofs` proves, for any geometry the loader may be built for, any geometry of
the disk it meets and any kernel it has room for (`BootAssumption`: 10 to 63 sectors in a
track, since the first read starts at the tenth; up to 255 heads; at most 127 sectors, so
that `bx` does not wrap before the last; an image that is not larger), messages of any
length and any number of keys (`StartupAssumption`):

| Theorem | Property |
|---|---|
| `KernelLoadedAlways` | `KernelLoaded`: `kernel.bin` in order if `KernelOnDisk`, then zeros on any disk |
| `SetupBeforeUseAlways` | `SetupBeforeUse` |
| `SerialDeliversAlways` | `SerialDelivers`: order kept, and after `hal_serial_init` no loss |
| `KeyboardAliveAlways` | `KeyboardAlive`: a full output buffer has its interrupt |

The loader's invariant, `BootInv`, ties the position on the disk to the place in
memory: the loader's count of the position is that of the sector that belongs at `bx`,
also across the end of a track and of a cylinder (`TrackEnd`), and where disk and loader
agree on the geometry it is the sector under the head (`AsCounted`). It fails after the last
read, which may end within a track, so it is stated while sectors are left.
`StartupInv` then says for each step of `kernel_main` that is over what it has set up,
in the processor (`CpuInv`), its tables (`TablesInv`), memory (`PartsInv`), the timer
(`StepInv`) and the interrupt controllers (`PicInv`). For that the list of steps,
which the model builds from the lists of the functions it calls, is worked out once
(`KernelMain`, `Places`). `SerialInv` says that the bytes on the wire precede the one
in the holding register. `KeyboardInv` carries the argument about the keyboard: a key
pressed early may have had its request dropped by `pic_init`, but the
step "read" of `hal_keyboard_init` empties the output buffer, so that every byte that comes
after it requests the line anew; and the step after "scan" is not reached before
the controller has taken the configuration with the interrupt on.

### Keyboard input

`InputProofs` proves, for any codes, any size of the line buffer and any screen
(`InputAssumption`):

| Theorem | Property |
|---|---|
| `CharsMatchCodesAlways` | `CharsMatchCodes`: each code at most once, in order, with the modifiers before it |
| `EchoMatchesLineAlways` | `EchoMatchesLine`: the line fits, and the cursor is behind it |

`DriverInv` is needed because the flag and the code are two variables: unless the
driver is between the read and the reset, a flag that is set announces a code later
than all that were taken, so that reading it cannot repeat one; between the two the
code just read is the last taken. `CharsInv` counts: the
characters returned are as many as the codes handled that have one, and the
modifiers are what the codes before say, the last of the shift codes and the parity
of the caps locks. `LineInv` relates cursor and line until the line has wrapped
around the screen.

### Interrupts

`ServiceProofs` proves `ServiceEnds`, that `NothingInService` always holds, for any
contexts, lines and use of the masks (`InterruptsAssumption`: lines are 0 to 15,
and line 2 is the cascade). `NothingInService` alone is not inductive, since a
context resumed by `scheduler_tick` could have left something in service.
`ServiceInv` says that every context that is not running has not begun or has
already sent its end of interrupt, and that at most the line being handled, with
the cascade, is in service. `EndedAll` shows that the handlers' non-specific ends
of interrupt, one or two, end exactly that.

### Sleeping

`ServiceProofs` also proves `SleepLongEnough`: `SleepsEnough` holds for every width of
half a count, every frequency and every duration whose product with the frequency
fits a word (`TimerAssumption`). The property itself excepts sleeps during which the
low half overflows. `SleepTimeInv` relates what was read of the count to when the
sleep began.

### Only model-checked

- Every liveness property (ENABLED and fairness are beyond the prover):
  `SleepersWake`, `TurnsWhileTicking`, `TimerServed`, `SleepEnds`, `KeyTaken`,
  `BootsToPrompt`.
- `Strings` and `Registry`: each function is compared with a definition over whole
  sequences, which needs induction over data.

The inductive invariants of `VmmProofs`, `TrapsProofs`, `StartupProofs` and `InputProofs`
were also checked by TLC on the instances of the runs.

## Where comments and code differ

The models follow the code. Three differences are checked as runs:

- `typed_receive`: `msg.h` says that `tail` is the next free slot and `count` the number
  of messages, and a `sys_msgrcv` that takes a message from the middle moves `head` past
  the messages before it (`msg.c:179`).
- `round_robin`: `scheduler.c:144` says that a process is put back "at the tail when
  preempted", which "gives round-robin within the priority", and `syscall.c:208` that
  `sys_exit` gives up the CPU. A new process is entered with interrupts masked by the
  timer's gate, and `sys_exit` halts with them masked by that of `int 0x80`: unless the new
  process unmasks them itself, no further tick is taken and nobody else runs.
- `kernel_image`: `pmm.c:36` assumes that the kernel is "less than 2MB" and reserves up to
  2 MB. The image starts at 1 MB, and `msgqueues` alone takes more than 1 MB: the first page
  handed out is part of it.

The following properties say what a comment says, or a caller may expect. They are stated at
the end of their modules, are in no run because they are false of the code, and adding one
to the module's configuration shows how.

| Property | Comment | Code |
|---|---|---|
| `Scheduler!NullDirectoryIsKernels` | `scheduler.h:38` "NULL = uses kernel's" | CR3 is left as the previous process had it |
| `Scheduler!PagesHeldByLive` | `scheduler.h:37` "for fork/cleanup" | the pages of a process are never freed |
| `MsgQueue!CreatedHasId` | `msg.c:46` "we create it" | `find_msgqueue` sets a key and no id |
| `Pmm!ReservedUnusable` | `pmm.h:21` "reserved (unusable)" | the last page of a range that ends inside it stays free |
| `Vmm!KernelMappingsEverywhere` | `vmm.c:89` "the kernel's own mappings" | heap mappings are not shared |
| `Kmalloc!FreshPages` | `kmalloc.c:27` "Map fresh pages" | after a failed growth the same pages are mapped again (`FRAMES = 2`) |
| `Input!SignalledUntilRead` | `idt.c:251` "Signal that a key is available" | a key between the read and the reset is not signalled |
| `Input!NoneOverwritten` | `idt.c:247` "Store the scan code in a buffer" | the buffer holds one code |
| `Input!NonBlocking` | `main.c:230` "Non-blocking" | `getchar` waits after a modifier |
| `Interrupts!EnabledUnmasked` | `pic.h:28` "Enable a specific IRQ" | the cascade line stays masked |
| `Timer!PitCounts`, `Timer!CallbackCalled` | `pit.h:34`, `pit.h:37` | `pit.c` has a counter and a callback of its own, which nothing uses |
| `Startup!ConfigurationRead` | `keyboard.c:60` "Read the configuration byte" | a key pressed meanwhile is taken for the answer |
| `Startup!Cr0AsCommented` | `cpu.c:138` NE, WP and AM set | the mask written sets bits 1 and 4 |
| `Startup!AllBytesSent` | `serial.c:75` "Write a string" | `hal_serial_init` clears the FIFO while a byte of an earlier message may be in it |
| `Vfs!FailedWriteKeepsFile` | none; what a caller of write may expect | a write that cannot grow the content empties the file |
| `Vfs!NoJunkRead` | none; what a caller of read may expect | a write behind the end leaves the bytes before it as allocated |
| `Boot!KernelFromBootDrive` | `Makefile:98` "-fda floppy.img" | stage 2 reads drive 0x80 |
| `Boot!KernelOnAnyDisk` | `boot2.asm:68` "chunked to respect 18 sectors/track limit" | with other tracks or heads the same positions are other sectors |

Some comments differ in ways no property is about: `keyboard.c:70` "Disable keyboard
clock" enables it; `pit.c:24` says mode 2 and the command 0x36 is mode 3;
`serial.c:54` says interrupts are left disabled and enables one; `vmm_disable_paging`
clears the bit of PAGE_PRESENT in CR0 instead of PG; comments of `vmm.c` speak of
8 MB where 80 MB are mapped.

One more follows from the models. `NoEarlyWake` fails once `WAKE_MOD` is within
reach of the tick count: `wake_tick` has 32 bits and the count 64.

## Not modelled

- **Power management**: placeholders that return constants.
- **DMA transfers, CPUID queries**: sequences of port or register accesses for one
  caller, without callers; `dma_init` and `hal_cpu_init` are in `Startup`.
- **The text on the screen**: of `vga_putchar` only the cursor is modelled; the
  commands that print are not.
- **Creation with interrupts on**: its only caller in the kernel is fork, behind the
  system call gate, and `Create` of `Scheduler` needs them masked.
- **Several processes in ring 3**: only `cmd_ring3` goes there, once; the one `esp0`
  is modelled for it.
- **Unused operations**: `scheduler_yield` for a process that stays runnable (the
  code would then switch away without saving its context), `pit_handler` and
  `vmm_disable_paging`. `pmm_mark_reserved`, `vmm_unmap_page`, `pic_disable_irq`,
  `alloc_msgqueue`, the file system and the device list have no callers either,
  but are modelled.
- **Paths as characters**: `resolve_path` splits with a `strtok_r` that the
  repository does not have; a path is the sequence of its components.
- **Absolute paths**: `resolve_path` skips the leading slash by moving the pointer to its
  copy (`vfs.c:282`) and then frees the moved pointer (`vfs.c:306`, `:314`), which is not one
  the heap gave out. Only relative paths are modelled; the current directory is the root.
- **Sizes near 2^32**: the rounding in `kmalloc` and the doubling in `ramfs_write` would
  wrap; the models take sizes that do not.
- **Descriptor bits, entry flags but PAGE_USER, bytes of heap blocks and of
  messages, headers**: no property depends on them.

Two hazards have no property: the pages and PCBs of ended processes are never
reclaimed, and a created message queue gets no id. In both the model does what
the code does, and the property that says otherwise is in the table above. Five
properties cover a part of their hazard, as `PROJECT.json` notes with each: `SpacesApart`
does not say that later kernel mappings reach every space, `CharsMatchCodes` not that no
code is lost, `EchoMatchesLine` excepts lines that wrap around the screen, `SleepsEnough`
sleeps across an overflow of the low half of the count, and `KernelLoaded` other drives
and geometries.
