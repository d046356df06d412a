# RetaOS in TLA+

A verification project for RetaOS, a 32-bit x86 hobby kernel in C. It holds TLA+
models of the kernel's parts, TLC configurations that check them on small instances,
and TLAPS proofs for instances of every size. Every definition is translated from the
source; `PROJECT.json` maps it to the lines it stands for, lists the hazards the
properties are aimed at, and the places where the code and its comments disagree.

Run a check with `tlc -config MCKHeap.cfg MCKHeap`, a proof with
`tlapm MemoryProofs.tla`.

## 1. The system

| Component | State it keeps | Operations | Used by | What is hard |
|---|---|---|---|---|
| Keyboard driver (`drivers/keyboard/keyboard.c`) | ring of 128 keys with head and tail, Shift, Caps, pending `E0` | interrupt handler, non-blocking readers | `read_line`, `sys_read`, splash, shell | the interrupt between any two accesses of a reader; keys of several bytes; the full ring |
| Kernel heap (`kernel/kheap.c`) | list of block headers in the arena | kmalloc, kcalloc, kmalloc_a, krealloc, kfree | everyone | long sequences of splits and merges, boundary sizes, failure |
| Threads and scheduler (`kernel/sched.c`, `kernel/thread.c`, `switch.S`) | ready queue, current thread, saved contexts, time slices | create, start, tick, yield, exit | the timer interrupt, boot, the shell | ticks in the middle of the start; who is interruptible after a switch; starvation |
| Virtual file system (`kernel/vfs.c`) | tree of nodes, a *copy* of its root, a table of 32 descriptors each holding a *copy* of a node | lookup, open, close, read, write, lseek, read_all, list, directory streams, create, mkdir, remove, rmdir, mount | ELF loader, processes, system calls, shell | stale copies, wrapping positions, the full table, errors half way |
| Initial RAM disk (`kernel/initrd.c`) | the mounted tree, file contents in the archive's buffer | mount from an archive or a block device, read | boot, VFS | truncated archives, missing parents |
| Block devices, ATA (`kernel/block.c`, `drivers/ata/ata.c`) | device table; the drive's registers | register, find, read; polled PIO | initrd, FAT32 | devices that do not answer |
| Physical memory (`memory/pmm.c`, `kernel/pmm.c`) | bitmap of frames, a counter | init (three ways), alloc, free, mark | boot, heap, paging | initialised twice; the bitmap's end |
| Processes (`kernel/process.c`) | list of processes, current process | create, exec, exit, schedule, switch, block | system calls | states that nobody updates; partial failures of exec |
| ELF loader (`kernel/elf.c`) | nothing of its own: a descriptor and a buffer while it runs | elf_exec, elf_load | boot, process_exec | release on each error path |
| System calls (`kernel/syscalls.c`, `isr.S`) | handler table | dispatch, exit, fork, read, write, open, close, execve, getpid | `int 0x80` | descriptors 0 to 2, blocking reads |
| FAT32 (`fs/fat32.c`, `fs/fat32_vfs.c`) | boot sector, FAT cache, nodes | init, find, read, readdir, mount | (not mounted at run time) | cyclic cluster chains, error paths |
| File table (`kernel/fs.c`) | file systems, `struct file` with counts | register, open, fget, fput, close | (no caller) | reference counts |
| Window manager (`kernel/gui.c`) | list of windows, count, focus | create, destroy, focus, keys | shell | the list and its counter |
| Timer (`kernel/timer.c`, IRQ 0 in `idt.c` and `isr.c`) | tick counter, handler, callback; the sleepers of `thread.c` | tick, timer_wait, kernel_sleep, thread_sleep | boot, drivers, threads | a counter that wraps; a tick between a test and `hlt`; a second sleep of the same thread |
| Console, diagnostics, blue screen (`kernel/console.c`, `console_utils.c`, `debug.c`, `bsod.c`) | cells, cursor, colours, log level | output of characters, numbers and dumps, scrolling | exceptions, panic, the debugger's commands | tabs and wraps at the edges; an exception in the middle of an output; printing numbers |
| Kernel main, terminal, splash, shell (`kernel/kernel.c`, `splash.c`, `shell.c`) | a second screen cursor, the progress bar, the line being edited | boot sequence, wait for ENTER, read_line, commands | power-on | a wait for a key that never comes; erasing across the end of a row |
| GDT, IDT, paging, boot, ACPI | descriptor tables | set-up, once | boot | - |
| Serial line, libc, user programs | - | output, parsing | - | - |

How they interact. Boot runs on its own stack with interrupts enabled, creates a
thread and calls `sched_start`. The timer interrupt is the only source of preemption,
the keyboard interrupt the only other asynchronous actor. Everything else is a chain of
calls on one CPU: a system call enters the VFS, which calls the operations of the file
system a node came from; the ELF loader and `process_exec` go through VFS and heap.

Facts about this commit that the models take into account:

* The call of the scheduler in `irq0_handler` (`isr.c:70`) is commented out
  ("Temporarily disabled to prevent triple fault"), `irq_init_basic` installs the
  handler of `isr.c`, and `timer_init` and `timer_set_callback` have no caller. `Sched`
  therefore models the scheduler as its interface is meant to be driven.
* `syscalls_init`, `vfs_init` and `vfs_mount` are never called; the tree that is used
  is the one `mount_initrd` hands to `vfs_set_root`.
* `kheap_init` calls `pmm_init()` without arguments, which links to the four-parameter
  function of `memory/pmm.c`. `Pmm` models that call, with whatever lies on the stack for
  its arguments; the heap's own list does not depend on it.
* `console_init` is called by `kernel_init` only, which nothing calls; the terminal of
  `kernel.c` writes to the same video memory with a cursor of its own.
* `pmm_alloc_frame`, `shell_thread` and `kernel_sleep` have no caller: the clients of
  these modules are those that their interfaces allow.

### What makes each component correct

* Keyboard: the ring is a FIFO that drops whole keys when full; the Shift flags agree with
  the keys that are down, and the CapsLock flag with the bytes of CapsLock, of which a held
  key sends many; a pending key is read.
* Heap: live regions are disjoint and inside the arena; no byte is lost; free
  neighbours are merged; failure means that no block fits; each call returns.
* Scheduler: every thread is queued once or running; a switch saves the stack of the
  thread it names; what can be interrupted is preempted.
* VFS: a descriptor goes on describing the object it was opened for; reads return what
  the file holds from the position on and never more; refused calls change nothing. Calls
  that announce to create or remove something change nothing either, which is no merit
  but four findings (`vfs.c:162`, `905`, `1013`, `1074`); `NothingCreatedOrRemoved` records it.
* Processes, ELF loader, system calls: a load gives back its descriptor and its buffers
  on every path and touches no descriptor of another program; every load ends.
* Initrd, block devices, ATA: nothing is mounted from a partial read; a member is found
  under its path with its size, permissions and place; memory that runs out puts no file
  in the wrong directory; the mount ends although the drive may stop answering.
* FAT32: reads, searches and listings agree with the chains on the disk; the cached table
  is the disk's; nothing stays allocated after a failed call; each walk ends.
* Physical memory: no frame is handed out twice; low memory and kernel never; the counter
  agrees with the bitmap.
* Timer: no wait is shorter than asked; every wait ends whose thread keeps getting the CPU with
  interrupts on.
* Console: the screen shows the last lines of what was printed; numbers read back.
* Terminal: boot goes on without a key; the line returned, and the line shown, is what was
  typed minus what was erased.

## 2. Modules

| Module | Models | Checked by | Proofs |
|---|---|---|---|
| `Keyboard` | `keyboard.c`; the keyboard and its typist are external | `MCKeyboard` | `KeyboardProofs` |
| `KeyQueue` | abstract: a bounded FIFO of keys | refined by `Keyboard` | |
| `KHeap` | `kheap.c` | `MCKHeap` | `MemoryProofs` |
| `Allocator` | abstract: disjoint ranges of an arena | refined by `KHeap` | |
| `Sched` | `sched.c`, `thread.c`, `switch.S`, the timer's handler | `MCSched` | `ThreadProofs` |
| `ReadySet` | abstract: one running thread, a set of ready ones | refined by `Sched` | |
| `Vfs` | `vfs.c`, with the operations of `initrd.c` | `MCVfs` | `VfsProofs` |
| `OpenFiles` | abstract: a table of descriptors in unbounded arithmetic | refined by `Vfs` | |
| `Loader` | `elf.c`, `process_exec`; uses `Vfs` | through `Syscalls` | `SyscallsProofs` |
| `Syscalls` | extends `Loader`: `syscalls.c`, `process.c`, the launcher of `kernel.c` | `MCSyscalls` | `SyscallsProofs`, over `VfsProofs` |
| `Initrd` | `ata.c`, `block.c`, the mount of `initrd.c`; uses `vfs_lookup` of `Vfs` | `MCInitrd` | `InitrdProofs` |
| `Fat32` | `fat32.c`, `fat32_vfs.c` | `MCFat32` | `Fat32Proofs` |
| `Pmm` | `memory/pmm.c`, `memory_init`, the second initialisation from `kheap_init` | `MCPmm` | `MemoryProofs` |
| `Frames` | abstract: a set of free frames | refined by `Pmm` | |
| `Timer` | `timer.c`, dispatch of IRQ 0, `thread_sleep` and the sleepers of `sched.c` | `MCTimer` | `ThreadProofs` |
| `Numerals` | the printers of numbers | through `Console`, `Terminal` | `ScreenProofs` |
| `Console` | `console.c`, `console_utils.c`, `debug.c`, `bsod.c` | `MCConsole` | `ScreenProofs` |
| `Terminal` | `_kernel_main`, the terminal and `read_line` of `kernel.c`, `splash.c`, `shell.c` | `MCTerminal` | `ScreenProofs` |

### Keyboard

One action per interrupt (`keyboard_irq_handler`, split by the class of the byte into
`IrqPrefix`, `IrqExtended`, `IrqRelease`, `IrqModifier`, `IrqChar`), since a handler
runs to its end on the only CPU. The reader is cut at each of its accesses to shared
memory: test of head against tail (`GetkeyTest`), load of the slot (`GetkeyLoad`),
store of tail (`GetkeyStore`). A scancode is abstracted to the class the driver tells
apart: the letters behave alike, so do the other printable keys, the navigation keys
and the codes without a table entry. The typist presses, repeats and releases keys; the
controller sends the bytes in order, with the fake Shift bytes of prefixed keys. Every key
repeats while it is held, CapsLock too, and the driver toggles its flag on each of those
bytes (finding at `keyboard.c:95`). `capsLock` is the lock as pressed, `flipped` whether the
repeats of CapsLock so far are odd in number; the flag, and with it the case of the letters,
follows the two together (`LetterLock`), which is what `ModifiersInSync` and `TypedInOrder`
say. `flipped`, `expected`, `delivered` and `lost` are history variables.

### KHeap

Addresses are numbers; `hdr` maps the address of each header on the list to its size,
its used flag and its link. The search of `kmalloc` and the merge pass of `kfree` take
one step per block with the code's cursors. `live` is a history variable: the pointers
callers own and the bytes they asked for. Callers free only what they own.
`KHeapAssumption` leaves out requests of about 1 GiB and more, for which
`kheap_end + new_size` wraps. Contents are not modelled: the copy of `krealloc` is part
of `KreallocRelease`.

### Sched

The ready queue is the code's chain of `next` fields, which the thread list shares. The
CPU is three variables: whose stack it is on (`cpu`), its interrupt flag, and for each
thread what its saved context is (a fresh frame, entered by `ret` with interrupts
as they are in the handler; a frame of its own; or boot's). `sched_tick` is one action,
because handlers are not interrupted. `thread_create` is two actions, cut between the store
of the link and the store of the head; a tick there returns at once, since there is no
current thread before `sched_start`. `sched_start` is two,
because a tick can come between its assignment of the current thread and its switch. In
that window a tick stores boot's stack pointer in the first thread's context. If boot is
then resumed and switches through that dead frame, the result is undefined:
`StartSwitchDeadFrame` either resumes boot or lets the CPU run away (`cpu = NULL`).
Threads are created before the scheduler starts, as boot does. The first time slice is
whatever `kmalloc` returned (`FirstSlice`). What is on the queue is said without recursion:
`Chain(next, ready_queue)` is what every set holds that contains the head and that no link
leads out of.

### Vfs

A node is a record of the fields that some operation tests; a child list is the sequence
of the children's addresses. A lookup returns a *copy*; a descriptor holds a copy;
`vfs_root` is a copy. A path is the sequence of its components, `.` and `..` included,
and `vfs_lookup` folds over it. Sizes, positions and counts are words that wrap at
`WORD`; `off_t` is the word read as signed. The mounted tree is a constant. Calls do not
interleave. The answer of a call is `res`: an error name or a value. `vfs_list`,
`vfs_opendir` and `vfs_readdir` answer with children of the node; `vfs_mount` at `/`
replaces the root, at another path it changes a local copy and answers 0, and at a missing
path it makes a directory and returns. `vfs_create` and `vfs_mkdir` allocate a node, link it
into a copy of its parent, and answer 0; `vfs_remove` and `vfs_rmdir` search for the address
of a copy and answer -ENOENT for what exists. Symbolic links do not occur in the initrd.

### Loader and Syscalls

`Loader` is composed with `Vfs`: every step of `elf_exec`, `elf_load` and `process_exec`
ends in one call of the file system, taken from `Vfs` through `INSTANCE`, and the next
step tests its answer. `kmalloc` may fail wherever it is called; buffers are tracked by
the name of the variable that holds them. The copy of the segments after a complete read
is a branch that is not reached, for the reason the finding at `elf.c:186` gives
(`NoProgramEverStarts` proves it for every tree).
`Syscalls` adds the process list, the system calls as `syscalls_init` would register them
and the boot launcher (mount, `init.elf`, `sh`, then the blue screen). The gate of
`int 0x80` disables interrupts, so a call runs to its end; `sys_read` from the terminal
takes one step per character, because it waits for the keyboard.

### Initrd

The drive is external and answers each read of its status register with anything; the
limit of `ata_poll` is `POLLS`, the wait in the identification has none. A sector is a
header (path, kind, size, permissions), contents or zeros. Memory is a counter of units
because in the code a request that failed keeps failing while nothing is freed: with
independent failures a file could be misplaced in the model and not in the kernel.
An archive is well formed (`Archive`): the sector behind a member's contents is the next
header or zeros. It may be cut off anywhere, have directories that are missing, late or
repeated, and be followed by anything.
`TreeIsArchive` looks the members up with `vfs_lookup` of `Vfs`, on the tree built here.

### Fat32

A loop over the disk takes one step per read: a chunk of the table, a sector of a
directory, a cluster of a file. Each read and each allocation may fail. The volume is a
function from sector numbers to contents, laid out by the boot sector's fields, so that
the arithmetic of clusters and sectors is the code's. The properties compare answers with
the chains on the *disk* (`Chain`, `InChain`), not with the cached table. Two assumptions on
callers: offset and size of a request do not wrap (both clipping tests, here and in
`vfs_read`, would), and `fat32_cleanup` follows a successful mount (after a failed one
`g_fat` still points to the freed table). Nothing mounts FAT32 at run time, and
`vfs_lookup` could not use it (finding at `vfs.c:269`), so it is not composed with `Vfs`.

### Pmm

The bitmap is the set of its set bits, addresses are numbers that wrap at `AddrMod`. Each of
the three ways `memory_init` can take is an action, then the `pmm_init` of the first
`kmalloc`, whose arguments are any member of `Stack`. Where its loops leave the bitmap
(`Overruns`) nothing can be said of what follows, and the model stops in `overrun`. Three
facts of the code shape the rest: `used_frames` is not reset by an initialisation
(`carried` records what it was), `pmm_init_basic` stores the number of frames in a local
variable (so the search runs over all `MaxFrames`, and only the set bits protect memory that
does not exist), and `pmm_free_frame` tests the bit before it counts.

### Timer

One caller waits at a time; its loop is cut at the test and at `hlt`, and a tick, another
interrupt or a `thread_yield` of another thread may come at each place. `thread_yield` is
`int $0x20`, the vector of IRQ 0, so that it advances the clock. `thread_sleep` always puts
`thread.c`'s `current_thread` to sleep, which is the boot context; it is two actions, because
a tick can come between the two stores of `sched_add_sleeping_thread`. Sleeping twice links
the boot context to itself, and a tick that then looks at the list does not end (`stuck`).
`turn` says whether the waiter has the CPU, `irqs` is the interrupt flag of whoever has it.
Once a callback is set (the scheduler) a tick may hand the CPU to others and a later one back
(`Resume`). What is resumed by `iret` has its interrupts on; a thread that such a tick enters
for the first time starts at the `ret` of `switch.S:41` with interrupts off, and if it waits,
no tick ends its `hlt` (finding at `switch.S:41`). Which thread is resumed is `Sched`'s affair.
`wait` and `sleep` are histories: ticks asked for, ticks passed, and whether the arithmetic
stayed inside the word.

### Console, Numerals, Terminal

An operation of the console works out its text and then puts one character per step, because
an exception, and with it a blue screen, may come between any two. Text without control
characters is one character; a directive that `console_vprintf` does not know is text too,
as in the code. `Numerals` holds the printers of numbers, digit by digit, because
`NumbersReadBack` is about them. `log` is what was put since the last clear; `Place` lays it
out on a page without end, and `ScreenIsTail` compares the screen with the last lines of it.

`Terminal` has the boot sequence with its messages and its progress bar in the same video
memory, the bounded wait for ENTER, and the shell with its line editor, a key per step. The
reference of `LineEditing` (`LineIsKept`) is stated on the keys typed, not on the buffer: a
printable key stays if, from it to any later moment, no more backspaces follow than printable
keys, and the line is the keys that stay, in order. `slipped` records that an erasure met the
top left corner, across which the terminal does not go back.

## 3. Runs

| Run | Shows | Instance |
|---|---|---|
| `keyboard` | modifiers in step with the bytes of their keys, keys in order, ring refines `KeyQueue`, pending keys are read | ring of 3 slots, 4 key events, 3 bytes in flight |
| `kheap` | tiling, merging, no leak, honest failure, refinement of `Allocator`, calls return | arena of 76 bytes at 16, alignment 16, requests of 0, 9, 16 and 18 bytes |
| `sched` | queue holds each thread once, saved stacks belong to their threads, refinement of `ReadySet`, preemption | 3 threads, quantum 2, first slices 0 and 2, one returning thread, one tick in the start window |
| `vfs` | descriptors stay current, no call creates, removes or frees anything, refinement of `OpenFiles` | 2 descriptors, word 8, 4 nodes, 7 paths |
| `syscalls` | loads give back descriptor and buffers, leave other descriptors alone, and end | 3 descriptors, 2 processes, valid `init.elf`, a program with only the magic, a file shorter than a header |
| `initrd` | all or nothing, headers in step, every member found in its place and nothing elsewhere, the mount ends | sectors of 2 bytes, 7 of them, 2 polls, 4 archives, 0 to 24 units of memory |
| `fat32` | reads, searches and listings as on the disk, cached table complete, no leak, calls end | 7 clusters of 2 sectors of 2 bytes, table of 3 sectors read 2 at a time, 3 nodes; a volume of another kind |
| `pmm` | frames that are held exist, are marked and are nobody else's; the counter agrees; refinement of `Frames` | 7 frames of 2 bytes, 20 addresses, 6 memory sizes, 10 contents of the stack |
| `timer` | no wait or sleep too short, every wait ends whose thread keeps getting the CPU with interrupts on | counter of 8 ticks, a tick every 2 ms, waits of 0, 2 and 3 ticks, sleeps of 0, 1, 2 and 5 ms |
| `console` | the screen is the tail of the output, numbers read back | 2 lines of 3 characters, tab stop 2, words of 8 bits |
| `terminal` | boot continues, the line is what was typed | 3 rows of 4 cells, buffer of 5, 6 keys, wait of 3 rounds |
| `sched_round_robin` | **violated**: two polling threads starve a third | as `sched` |

The violated run states what a document and a comment of the repository say; its finding in
`PROJECT.json` quotes them. The other findings are disagreements met while modelling; the
modules do what the code does, and the properties are stated so that they hold. Each property of a passing run has a mutant: a
plausible bug (a missing test, an off-by-one, a lost reset) that TLC finds with it.

Why the bounds are enough:

* Keyboard: two keys fill a ring of 3 slots, so with four events it is full, empty, wraps
  around and overflows, while the reader stands at each of its accesses. 3 bytes in
  flight hold a prefixed key in the middle of its sequence. The proofs cover each size.
* Heap: three blocks fit, which gives a merge with a left neighbour, with a right one
  and with both, the exact fit, the fit too tight to split, and exhaustion. The proofs
  cover each arena and each set of sizes.
* Scheduler: three threads are the fewest with which one can be passed over; slices 0
  and 2 give a first slice that is over at once and one that is not. One tick in the
  start window is enough to reach the dead frame; more of them repeat it.
* VFS: two descriptors give the full table and reuse. A word of 8 with a file of 3 bytes
  gives sums that wrap, seeks before the start and beyond the end. The paths reach the
  root, a file, a directory, a file in a directory, `.` and `..`, a missing name, and a
  file used as a directory.

* System calls: three descriptors are filled by the caller's own files, so that a load
  meets the full table at each of its opens; the three programs take each early return.
* Initrd: the archives have directories before, after and without their files, a member
  twice, one that reaches beyond the buffer, and none; every amount of memory up to what
  the largest archive needs makes the heap run out at each allocation.
* FAT32: a directory and two files of two clusters, offsets inside a cluster, at its end
  and in the second one, a file that ends inside a cluster and one that ends with it, and
  hits in each sector. Three nodes are the root, a directory in it and a file in that.
* Physical memory: the memory ends inside the kernel, behind it, behind the bitmap or wraps;
  low memory and kernel end inside a frame; maps with a hole, out of order, or past the end.
  The proofs cover every size and every content of the stack.
* Timer: with eight ticks the counter wraps in reach of every wait, and the product of
  `kernel_sleep` in reach of the longest. `Delay` of two ticks between two tests lets a waiter
  halt although its time has come, and lets the CPU go to others and come back; more ticks
  only widen the zone before the wrap that `WaitEnds` leaves out. `NeverEarly` is also proved.
* Console: the longest texts scroll a screen of two lines several times; the tab stop does
  not divide the width, so a tab wraps; the numbers are both sides of the sign, the most
  negative one and one of several digits. `MaxLog` limits what is on the page when an
  operation begins, not what it prints.
* Terminal: a line of four characters that starts in the last row crosses the end of a row
  and the bottom of the screen, forwards and, with the keys that are left, backwards.

Fairness. `Keyboard`: the controller raises IRQ 1 while a byte waits, and the readers
poll in loops without an exit; the typist may stop. `KHeap`: a call that has started goes
on, since nothing suspends its caller for good. `Sched`: the timer keeps ticking
(`FairSpec`); for `RoundRobin` also boot goes on and threads keep polling with
`thread_yield` (`PollingSpec`), as `read_line` and `sys_read` do. `Syscalls`, `Initrd` and
`Fat32`: a call that has started goes on; what the drive and the keyboard do is left open.
`Timer`: the PIT keeps ticking, which is heard while interrupts are on, and a waiter that has
the CPU and is not halted runs on (test and `hlt`); other interrupts need not come, and nobody
need ever give the CPU back. A tick alone does not bring back a preempted waiter (the run
`sched_round_robin` shows that the scheduler may pass it over for ever), so `WaitEnds` has
the premise `[]<>InTurn`: again and again the waiter has the CPU with interrupts on, or nobody
waits. A waiter that was first entered inside the handler has it never, and never ends. `Terminal`: the boot processor goes on;
no key need ever be pressed.

Deadlock is checked except where the system really may stop: in `Sched` a thread that was
entered with interrupts off and executes `hlt` stops the machine, in `Syscalls` the exit of
the root process and the blue screen, in `Console` the blue screen, in `Timer` a tick handler
caught in the ring of sleepers and a waiter that halts with interrupts off (or, by the bound
`Delay`, is kept from the CPU for more ticks than that), in `Pmm` the overrun, in `Terminal` a boot without memory for
its thread (and the bound on the keys).

## 4. Proofs

`KeyboardProofs`, from `KeyboardAssumption` (a ring of at least 2 slots) and `NoKeyAssumption`
(the answer "no key" is not a key):

* `TypeCorrect`: `Spec => []TypeOK`.
* `RingRefinesQueue`: `Spec => RefinesKeyQueue`. The pending keys are written without the
  modulus (`Count`, `SlotOf`); `PushPending` and `StorePending` say what a push and a
  store of tail do to that sequence. The refinement is not inductive from types alone:
  `ReaderInv` says that a reader past its test sees a ring that is not empty, and past its
  load holds the oldest key. The interrupt preserves it because a push never
  writes the slot at tail.
* `ModifiersAlwaysInSync`, `AlwaysTypedInOrder`: `Spec => []ModifiersInSync` and
  `Spec => []TypedInOrder`. Both speak of the moment when every byte has arrived, or of the keys
  that are still to come, so neither is inductive. The invariant says what the bytes in flight
  will do: run through the handler from where the flags are now, they end in the flags
  that `ModifiersInSync` asks for, and yield the keys that are expected and not yet pushed. A step of the
  controller takes the first byte off that run, an event of the typist adds to its end.
  `LockTurns` says that the byte of CapsLock, from a press or a repeat, turns `LetterLock` over
  as it does the flag.

`ThreadProofs`, from `SchedAssumption` (boot and NULL are no threads, a positive quantum), for
any set of threads:

* `QueueAlwaysSound`, `AlwaysRunningCurrent`: `Spec => []QueueSound` and
  `Spec => []RunningIsCurrent`. Lemmas on `Chain` say what a push at the head and a removal of
  the head do to it, as long as no thread is reached twice. `SInv` adds to the two that a thread
  in the middle of `thread_create` already points to the head it will replace, that the
  scheduler is started exactly when there is a current thread, and that only one context can
  hold boot's stack pointer: while boot has the CPU it is the current thread's, which is why
  the tick in the start window does no more harm than the finding at `sched.c:225` says.
* `SchedRefinesReadySet`: `Spec => RefinesReadySet`, with the set of ready threads the chain.

`MemoryProofs`, from `KHeapAssumption` (positive start, an arena larger than a header,
requests that do not wrap the expansion test):

* `HeapInvariant`: `Spec => []Inv`, with `Inv` the conjunction of `TypeOK`, `Tiled`,
  `Empty` (nothing exists before the first call), `Owned` (blocks in use and live
  pointers correspond, and a block is at least as long as was asked for), `Searched` (no
  block behind the search cursor fits), `Merged` (no block behind the merge cursor can be
  merged with its neighbour; outside a merge none can), `Releasing` (the old block of a
  `krealloc` is live until it is released). None of `Coalesced`, `FailsOnlyWhenFull` and
  `NothingLeaks` is inductive: each needs what the cursors have already passed.
* From it `HeapTypeCorrect`, `AlwaysTiled`, `AlwaysCoalesced`, `NothingEverLeaks`,
  `FailureIsHonest` (an action property), and `HeapRefinesAllocator`, for which disjoint
  live regions follow from `Tiled` and `Owned`.

`MemoryProofs`, from `PmmAssumption` (low memory and kernel lie inside what the bitmap
describes, and the address space holds one frame more than it):

* `FramesAlwaysSound`, `CountAlwaysMatches`: `Spec => []FramesSound` and
  `Spec => []CountMatches`, for every memory size, place of the kernel and content of the
  stack. `PInv` adds to the two that nothing is held before the first initialisation and
  after an overrun. `Rounding` and `InsideBitmap` are the arithmetic: an address below the
  end of a region lies in one of the frames the region marks, and those are in the bitmap.
  Counting rests on the cardinality theorems of the library.
* `PmmRefinesFrames`: `Spec => RefinesFrames`.

`ThreadProofs`, from `TimerAssumption` (positive sizes, durations that are naturals):

* `NeverEverEarly`: `Spec => []NeverEarly`. The property says nothing of a wait under way, so
  `TimerInv` adds `Reaches`: the ticks still missing fit between the counter and the target.
  A tick moves both by one, and cannot wrap the counter while some are missing, because the
  target is a word itself (`TickKeepsReaching`); `BeginKeeps` and `ThreadSleepKeeps`
  establish it, since a sum or product that stayed inside the word is its own remainder.

`VfsProofs`, from `VfsAssumption` (an even word, no more descriptors than a word counts, a tree
whose links stay in it and whose files are smaller than half a word, names that are not empty,
paths of strings):

* `DescriptorsAlwaysCurrent`, `NothingEverCreatedOrRemoved`: `Spec => []DescriptorsCurrent` and
  `Spec => NothingCreatedOrRemoved`. `VInv` says that the mounted nodes are on the heap as `mount_initrd` made
  them, that `vfs_root` is a copy of the mounted root, and that each descriptor is free or a copy
  of a mounted node but for its position, which stays below the sign bit. What a path leads to
  is a recursive function over its components. The library's induction cannot be instantiated,
  so `LookupIsWalk` is shown with a least counterexample: if the function differed from the walk
  somewhere, there would be a least number of components at which it does (`LowestExists`). From
  it a lookup depends on the mounted nodes alone and ends in one of them; nodes that
  `vfs_create` makes are never reached. Each step also keeps every node that is allocated
  (`Kept`), a new one being at an address that was free.
* `VfsRefinesOpenFiles`: `Spec => RefinesOpenFiles`. Lemmas on `ReadLen`, the sums and the signed
  words of `vfs_lseek` show that the wrapping arithmetic agrees with the unbounded one in every
  state of `VInv`.

`SyscallsProofs`, from `LoaderAssumption` and `SyscallsAssumption` (those of `Vfs`, at least one
descriptor, a header smaller than a word), with `VfsProofs` instantiated for the file system:

* `LoadsAlwaysBalanced`, `AlwaysOthersUntouched`: `Spec => []HeldExactly` and
  `Spec => OthersUntouched`. `SInv` consists of `VInv`, of what each step of a load holds
  (`Locals`, `Held`), of what it knows of its file (`Progress`: after the first read the
  position is behind the header), and of the process list and the terminal's read.
* `NoProgramEverStarts`: `Spec => [](pc # "user")`. This came out of the first attempt at
  `HeldExactly`: on the branch behind a complete read the buffers stay allocated, and the
  invariant is inductive only because `Progress` shows that the branch is dead.

`InitrdProofs`, from `InitrdAssumption` (positive sizes, a `tar_file_meta_t` not larger than a
node, well-formed archives):

* `AlwaysAllOrNothing`, `AlwaysInStep`: `Spec => []AllOrNothing` and `Spec => []InStep`. `IInv`
  says that the buffer is a prefix of the disk (`Copied`), which phase has which resources
  (`Phase`), and that the walk stands at a multiple of a sector where a header may be
  (`InWalk`), which `NextHeader` preserves by the arithmetic of rounding up.
* `NothingEverMisplaced`: `Spec => []EachInItsPlace`, the half of `TreeIsArchive` that says that
  nothing is in a wrong place. `EnsureDoes` says what `ensure_dir`, a recursive function over a
  path, makes of a tree, by the same kind of induction. The step that matters is
  `MountFileStep`: when memory ran out in `ensure_dir` the file would go into the last directory
  reached, but then there is too little memory for its node, because a node takes as much as
  each directory did.

`Fat32Proofs`, from `Fat32Assumption` (positive sizes, requests that do not wrap, and volumes
that are `Sound` if they are FAT32):

* `DriverHoldsExactly`, `DriverCachesTable`, `DriverReadsContents`, `DriverSearchesChain`:
  `Spec => []HeldExactly`, `Spec => []CacheIsTable`, `Spec => []ReadsContents` and
  `Spec => []DirectoryIsChain`. `FInv` says what is allocated in and between calls (`HeapOK`),
  that only nodes of a sound volume are handed out (`NodesOK`, `Mounted`), and where each loop
  stands: `FatWalk` that the cache is the table up to the next sector, `DirWalk` that what is
  looked for is not in the sectors passed, `ReadWalk` that the buffer is the file from the offset
  on, and how much is missing. The last three number the clusters of a chain by their place in
  it; that the table's entry leads from one place to the next, and that bytes and entries of
  sectors put one behind the other are found by quotient and remainder, are lemmas on `ChainOf`,
  `SectorsOf` and `ClusterOf`, by least counterexample.

`ScreenProofs`, from `ConsoleAssumption` (positive sizes), `NumeralsAssumption` (an even number of
words, which `HexWidth` digits can write) and `TerminalAssumption` (the buffer is not larger than
the screen; backspace, newline and the ignored bytes are not printable):

* `ScreenAlwaysTail`: `Spec => []ScreenIsTail`. `SInv` says that what was put since the last clear
  has a layout on a page without end in which each line down to the last one was entered
  (`Laid`), and that from a clear on the screen is the end of that page (`ScreenOf`). A
  character changes at most the cell of the cursor and enters at most one line (`PageElsewhere`,
  `PageAtCursor`), of which the scroll shows no more than the new one (`ScreenStep`); the blank
  line it brings in is the one the page has, because nothing was put below the cursor.
* `NumbersAlwaysReadBack`: `Spec => []NumbersReadBack`. `Numeral` is a function of smaller numbers;
  that there is such a function, and that it is the one `CHOOSE` takes, is shown from
  the well-foundedness of the naturals (`NumeralsExist`, `Iterate`, `FromSmaller`). What is
  printed then reads back digit by digit (`NumeralReads`, `HexDigitsRead`), and the padding and
  cutting of `%x` loses nothing because a word has at most `HexWidth` digits.
* `LineAlwaysEdited`: `TerminalSpec => []LineEditing`. That the line is the keys that stay is not
  inductive: whether a key stays depends on all that comes behind it. `LineOf` adds `Balanced`:
  behind a key that stays were typed as many more printable keys than backspaces as the line
  goes on behind it. A backspace then takes back the last key that stayed and no other
  (`LineErase`), a printable key stays itself and disturbs none (`LinePut`). On the screen
  the cells are numbered row by row; a character goes to the cursor's cell and the cursor on
  round the screen (`PutOrdinary`), what `read_line` writes for a backspace takes both back
  (`EraseIs`), and since the line is shorter than the screen it never runs over itself
  (`CellsInARow`).

Only model-checked:

* the liveness properties (`PendingKeyIsRead`, `CallsReturn`, `PreemptsInterruptible`, `LoadsEnd`,
  `MountEnds`, `CallsEnd`, `WaitEnds`, `BootContinues`): the prover does not handle fairness and
  ENABLED here;
* the other half of `TreeIsArchive`, `EachUnderItsPath` (with enough memory every member is found
  under its path). It is not true of every archive: where one member is a file `a` and another is
  `a/b`, `ensure_dir` makes a directory `a` beside the file, and `vfs_lookup` finds the first of
  the two. The archives of the run have no such pair.

Every other invariant and action property that a passing run checks, and every refinement, is a
theorem.

## 5. Plan

Done: keyboard, heap, scheduler, VFS, in this order because the first two are what
everything stands on, the third holds the concurrency, and the fourth is what processes,
loader and system calls call; then loader, processes and system calls over the VFS, the
initrd with its drive, and FAT32; then physical memory, the timer with its waits and sleeps,
the console with diagnostics and blue screens, boot with terminal and shell, directory streams
and mounts of the VFS; then the proofs of all of it.

Left: `FileTable` (reference counts of `fs.c`) and `Gui` (window list, focus and counter), should
they get callers; composition of `Fat32` with `Vfs`, should the finding at `vfs.c:269` be mended.

## 6. Not modelled

* Hardware set-up that runs once: GDT, the filling of the IDT, paging, ACPI, multiboot.
* `kernel/gui.c`, the display's pixels and the three system calls for the frame buffer: this
  commit stays in text mode and never enters them. `kernel/fs.c`: its table of files has no
  caller. `kernel/pmm.c`: a second frame allocator, not initialised by anything that boot runs.
* The serial line, string and format functions of the C library, user programs.
* `fs/fat32_impl.c` and `fs/fat32_new.c` are excluded from the build.
* In modelled components: `thread_join` (it can never return, see the finding at
  `thread.c:162`), removal of threads, `sched_switch` and changes of the quantum have no
  caller; `vfs_init` has none either and mounts a device that is never registered; the initrd
  makes no symbolic links.
