# A verification development of LBF-OS64 (kernel 2.7, runtime 6.2/6.3)

TLA+ models of the operating system, TLC configurations that check them on
small instances, and proofs, checked by TLAPS, of what holds for every size.
Paths are relative to `src/`; `K/` is `KERNEL_010826_v0.2.7/` and `R/` is
`RAD_RING3_010826_v6.3/`.

## 1. The system

LBF-OS64 is a 64-bit single-CPU system. A boot sector and `kernel.asm` reach
long mode, `kernel_main` sets up memory, drivers and five-or-so kernel
threads, and everything the user sees is a ring-3 program: the explorer, which
composes the desktop, and the applications it starts. Programs enter the kernel
with `int 0x80` (an interrupt gate: interrupts are off until the `iret`) and
speak to the explorer through a page of physical memory at `0x4000` that every
address space shares.

| Part | State it keeps | Operations | Talks to |
|---|---|---|---|
| Process table and scheduler (`K/drivers/proc.c`, `timer.c`) | the list of `process_t`, `current_process`, `next_pid`, `foreground_process`, `system_ticks` | `create_process`, `schedule`, sleep, exit, kill, reap | PIT, system calls, the kernel tasks |
| Kernel tasks (`K/drivers/apps.c`, `K/kernel.c`) | `g_exec_pending_flag`, `g_pending_elf_path` | launch the explorer, serve `SYS_EXEC`, reap | ELF loader, process table, focus |
| Kernel shell (`K/drivers/shell/`) | its line buffer, `is_foreground` | kill, exec, file commands | process table, FAT32 |
| System calls (`K/drivers/syscall.c`) | the owner of each serial port, the break of each program | dispatch to everything below | all |
| Exceptions, K_TRY (`K/drivers/idt.c`, `kernel_try.h`) | one global recovery context | page fault, kill of a faulting program, recovery of the kernel | memory, process table |
| Memory (`K/mem/`) | frame bitmap and next-fit cursor, page tables, heap blocks | allocate and free frames, map, demand page, destroy, kmalloc | ELF loader, exceptions, SBRK |
| ELF loader (`K/include/elf.c`) | none of its own | build an address space, load, undo on failure | memory, FAT32, process table |
| FAT32 (`K/fs/`) | the FAT and directories on disk, `fat32_lock`, sector buffers | mount, read, write, append, delete, rename, mkdir, copy | storage, shell, system calls |
| VFS (`K/drivers/vfs.c`) | global descriptor table, device nodes | open, read, write, ioctl, close | keyboard, mouse, audio, PCI |
| Storage (`K/drivers/hw/ahci_*`, `ide.c`, `pd/`) | command slot, bounce buffer, EHCI queue heads and data toggle | read and write sectors | FAT32 |
| Serial, keyboard, mouse | rings filled by interrupts, port owners | open, read, write, close | system calls |
| Audio (AC97, HDA) | descriptor list, CORB and RIRB | play, stop, interrupt | VFS |
| Explorer (`R/Software_Explorer`) and IPC (`R/gui/wm.h`, `TOS_IPC.c`) | 32 window slots, a spin lock, the focused slot, the z stack | register, compose, click, key, drag, collect | every application |
| Window manager and controls (`R/gui`, `R/Runtime_sdk/sdk`) | z order of the forms of one program, drag, event ring | mouse and key handling, push and pop of events | the application |
| Runtime (`R/system`) | the user heap | malloc, free, strings, drawing | SBRK |

What is hard about it:

- *Preemption without locks.* Kernel threads run with interrupts on, and most
  kernel data has no lock: `next_pid`, the exec request, the list of processes,
  the FAT32 search. System calls of programs are atomic, the same code called by
  the kernel shell is not.
- *Identity by number.* Protection, focus and adoption look processes up by
  pid, at a moment when the process may be dead, reaped, or another one.
- *Failure half way.* Creating a program or a file takes many steps, each of
  which may fail after the earlier ones have changed something.
- *Shared memory.* Programs and the explorer share slots that are freed and
  handed out again while their former owner still uses them; a program may be
  killed while it holds the lock.
- *Devices.* Time-outs that race with late answers, rings that fill up, shared
  interrupt lines.

`PROJECT.json` lists every component with its status and every hazard with its
line and the properties that cover it.

## 2. What makes each part correct

| Part | What must hold |
|---|---|
| Scheduler | somebody can always run; the dead never run; nobody starves or is overtaken; a sleeper wakes |
| Process calls | the protected processes stay alive; pids identify; the two copies of the focus agree |
| Exec bridge | one request at a time, never overwritten, always answered |
| Memory | a frame has one owner; destroying or failing to build an address space gives back exactly what it took; shared kernel tables survive |
| FAT32 | no cluster in two chains; every chain ends; every allocated cluster is named by an entry; a failed write loses nothing that was there |
| Desktop | one holder of the lock; an active slot has an owner; the focused window is on top; nothing stays grabbed; closing ends in a free slot and in the end of the program |
| Drivers | no success reported for a failed transfer; answers match requests; a full ring loses no more than it says |
| Heaps | blocks tile the heap, no two overlap, neighbours that are free are joined |

## 3. Modules

| Module | What it is |
|---|---|
| `Proc` | the process table with all that drives it: boot, PIT, kernel tasks, shell, system calls |
| `ReadyQueue`, `ProcQueue` | what a scheduler promises, as an abstract queue, and the mapping of `Proc` to it |
| `ProcLive` | fairness and what must happen |
| `Desktop` | the ring-3 page: window slots, their lock, the explorer's loop, the programs' loop, the task manager and the virtual keyboard |
| `Fat32` | the allocation table, one directory and the file operations, one write of the disk a step, with loss of power |
| `Volumes` | the drives C:, D: and E:, their mounts and the switch between them |
| `Ahci` | the command slot, its table and the one bounce buffer, polled by several threads |
| `Ehci` | the pendrive: waking, the three transfers of a command, toggles, the ring of queue heads |
| `Memory` | frames, page tables, loading with each failure, demand pages, SBRK, destruction, faults of programs |
| `Heap` | `kmalloc` and `malloc` |
| `Recovery` | K_TRY over the phases of the boot and the threads after it |
| `Ring` | the circular buffer of the drivers, as operators |
| `Input` | the PS/2 controller, both interrupt handlers, `mouse_init`, the readers of the keys |
| `Serial` | the UARTs with their two lines, the driver, the calls, the programs' port objects |
| `Gui` | the window of a program: every control with its twin, under each program's main loop |
| `Memo` | the growing text field, the terminal's line and the editor's document |
| `Lists` | list view, scroll bar and rolling choice |
| `Audio` | the AC97 driver, the device and the gates of the games' sounds |
| `Snake`, `Tetris`, `Space`, `Arkanoid`, `Chip8` | the rules of the games |
| `MCProc`, `MCProcLive`, `MCDesktop` | the instances TLC checks of the first two |
| `MCStorage`, `MCKernel`, `MCUserland` | three benches: modules that share no state, one of them moving in each behaviour |
| `Proc_proofs`, `Desktop_proofs`, `Fat32_proofs`, `Heap_proofs` | theorems of the module of that name |
| `Drives_proofs` | theorems of `Volumes`, `Ahci`, `Ehci` and the storage bench |
| `Kernel_proofs` | theorems of `Memory`, `Recovery`, `Input` and the kernel bench |
| `Rings_proofs` | the lemmas about rings; theorems of `Serial` |
| `Userland_proofs` | theorems of `Lists`, `Audio`, `Gui`, `Memo`, the games and the ring-3 bench |

### How `Proc` corresponds to the code

An action is a stretch of code that no timer interrupt can cut: from `cli` to
`sti`, a system call of ring 3, an interrupt handler. Where kernel code runs
with interrupts on, the action is one access to shared memory, so the
interrupt can fall between any two: `next_pid++` is `ReadNextPid` then
`NumberProcess`; the boot's two stores that give the shell the keyboard are
`FlagShell` and `PointShell`; the shell's `exec` is `ShellTestsExec` then
`ShellPostsExec`, while the same call of a program is the single `SysExec`.

| Model | Code |
|---|---|
| `rank`, `links` | the linked list: only pushed at head and unlinked, so a process is placed by when it was inserted; `Turn` counts the links `schedule` follows |
| `left` | `wake_up_time` minus `system_ticks` |
| `pc`, `tmp`, `made` | where a thread is, the pid in its register, the `process_t` it fills |
| `TimerHandler` | `timer_handler` and `schedule`, entered by the PIT, by sleep, exit and kill |
| `Found` | `find_process_by_pid`: the latest inserted of that number |

Abstracted: the saved contexts and stacks, CR3, the contents of programs, the
path's characters (a request is named by who wrote it). The load of the ELF file
is its outcomes: child, 0, or -1. A `process_t` freed by the reaper has all its
fields zero, because nothing reads them before they are set again.

### How `Desktop` corresponds to the code

Everybody is in ring 3 and can be preempted between any two instructions. The
explorer's four sections and `RegisterApp` run under the lock: the body of a section
is one action when nothing it writes can be seen or written half way by those who
do not take the lock, and several where it can (`RoutesKey`, `PutsKey`,
`PutsFlag`; `TakesSlot`, `Activates`). Programs look at their slot, read their mailbox and
take their click without the lock, one action each; so do the virtual
keyboard (`Aims`, `SendsKey`, `SendsFlag`) and the task manager (`Finds`,
`Ends`), which act on a slot they read earlier.

| Model | Code |
|---|---|
| `word[s]`, `word[Lock]` | `is_active` of slot s and, after the last, `IPC_CONTROL->lock`: the low byte is 0, 1 or a key, the next byte is 0 or the flag of a key |
| `Mailbox(s)` = `s + 1` | `AppWindowInfoExtended` puts the mailbox at `sizeof(AppWindowInfo)`, 96 bytes, which is where the next slot starts |
| `phase`, `step` | where a user is inside a section; which section or part of its loop it is in |
| `z`, `focus`, `drag`, `clicked`, `held` | `z_stack`, `active_focus_slot`, `dragging_slot`, `active_click_slot`, `was_clicked` |
| `Scanned` | the task manager's loop runs over slots 0 to 26, windows live in 5 to 31 |

Slots 5 to 31 are `1..Last`. Abstracted: coordinates (a click chooses the windows
under it and a region), pixels and buffers (`FlipBuffers` writes only the index of
the shown buffer), titles (the virtual keyboard is a kind of program), the start menu.
The collector's loop over the slots is one action: a window closed while it runs is met
by it or by the next. The page is taken to be zero at boot, since no code
initialises it.

### How the storage modules correspond to the code

`Fat32`: an actor (the shell, which may be preempted, and a program, whose system
call may not) has a place `op` in its operation and its local variables `reg`. Whoever
writes holds `fat32_lock`, so the reads that lead to a write belong to its step; reads
without the lock, as `fat32_get_file_size` and the walk of a read, are steps. `fat`
and `root` are what is on the disk; the sector buffers are only read again after they
were filled. `EOC` is the mark of the end, `Slots` the entries of a directory in the
order they are scanned, and data is a length in units. `PowerLost` may come between
any two steps. Directories below the root behave as the root does and are left out.

`Volumes`: `geo` is the active `disk_bpb`, partition offset, start sectors and
directory, `units` is `unidades_sistema`, `dev` is `fat32_current_dev_id`; a hand is
where the shell or a program is in a mount, a switch or a file operation, one step
for each stretch between accesses to these globals.

`Ahci`: `call[c]` is where a caller is: prepare the bounce buffer and the table,
start the slot, poll, copy out. The port (external) finishes or fails the command in
the slot in steps of its own.

`Ehci`: `host` is the driver's globals (the pair of endpoints found, both toggles,
whether the stick was woken), `ring` the `horizontal_link` of every queue head,
`usbcall` where a caller is in a transfer. The controller and the pendrive are external:
a packet is a step, and the pendrive's own toggles and its queue of answers are in `pen`.

### How the kernel modules correspond to the code

`Memory`: `Word(f)` is the word of the bitmap `pmm_alloc_block` starts from; search and
mark are two steps, with a preemption between them for kernel threads. An address space is
a record from places (`Tables`, `Pages`) to frames; the tables of the kernel half are
one. A loader's loop over the pages of a program is one place each of image, stack and
heap, with each failure the code has.

`Heap`: a heap is its blocks by address with the links, the first, the last and where new
memory goes. `trava_adquirir` keeps interrupts off, so an operation is a step.
`kernel_out` and `user_out` are what callers hold.

`Input`: the controller has one byte of output; whoever reads the port, a handler or
`mouse_init`'s poll, takes it. `hand`, `typed` and `moved` keep what the user did, to compare.

`Recovery`: `env` is `g_k_exception_env`; `live` says that the frame it points into
still exists. Its histories say who set it last and whether something has come between.

### How the ring-3 modules correspond to the code

`Serial`: a port is its entry of `system_serial_ports` with the registers of its UART and
its ring; an object is a program's `TOSSerial`. An interrupt of a line with no gate, or one
whose handler leaves the request pending, is the state "lost" of the machine.

`Gui`: one step is one event in one pass of a program's loop, in the program's own order
of calls; `program` says which loop. A control is its wrapper and its twin, each with its own
idea of pressed, focused, checked, written. Of what a button's callback does, the focus that
`chip.c` gives its field is in the step (`forced`). `Memo` and `Lists` have one step for each call
a program makes on them, and keep pointers as which block is meant.

`Audio`: the device consumes a chunk in a step and stops at `lvi`; a chunk knows of
which sound it is. It is the device the driver takes it for: a write to `PO_CIV` sends it back to
the first entry, which AC'97 does not say (the register is read-only, and the bit that
`ac97.h:30` calls reset is its run bit). `SoundTrue` is therefore about the driver, not about every
sound card.

The games' frames and keys are steps; `Space` runs the parts of a frame as operators on a
record, in the code's order. `Chip8` has the caret of its window as well (`form`: where it is, where the loop
puts it back, whether the form is listed), since it decides whether the machine runs.

Every module's header says what its variables are, and `PROJECT.json` which lines each
definition stands for.

## 4. Runs

| Run | Question | Instance |
|---|---|---|
| `proc` | does any interleaving break the scheduler, the focus or the exec bridge? | shipped kernel, 2 programs, pids to 6, kill of 1, 3 and 6, shell commands |
| `reaper` | is unlinking the dead safe, in order, and does it happen? | with `task_b`, 1 program |
| `live` | does everybody get the CPU and every request an answer? | 1 program, sleeps |
| `pid`, `revive`, `overwrite` | what the code says and does not do (section 7) | as `proc` |
| `desktop` | does any interleaving, key or kill break the lock, the ownership of slots, the focus or the mouse? | 2 slots, the task manager and the virtual keyboard |
| `desktop_live` | does the desktop go on, and are closed windows freed and their programs ended? | 1 slot, the same 2 programs |
| `desktop_lock` | can the lock be taken by nobody? (section 7) | as `desktop` |
| `storage` | do files, drives, sectors and the pendrive survive each failure their code handles? | 2 clusters of data, 2 names, 3 drives, 2 sectors, 2 blocks |
| `kernel` | are frames, heap blocks, keys and recovery points what their users take them for? | 9 frames, 2 programs, heaps of 2 pages, rings of 3 |
| `userland` | do ports, controls, texts, lists, sounds and games stay whole? | 3 ports, 2 programs, texts of 2 to 6 characters, small boards |

`proc` has `TypeOK`, `AlwaysSomeone`, `ProtectedAlive`, `FocusTrue`, `BusyWhileServing`
and the action properties `NeverRunsDead`, `OnlyAdoptionRevives`. `reaper` has
`ServesInTurn` (the refinement) and `ZombieLeaves`; `live` has `NoStarvation` and
`ExecServed`. The properties of the benches are one or two for each module, named in
its last section.

**Bounds.** `MaxPid` stops the launcher and `task_d` from taking numbers above
it; with 6, and four or five kernel tasks, one or two programs are created
after the explorer, structures are reused after a reap, and the race on
`next_pid` has room to give two processes one number. Sleeping 20 ms is two ticks,
so that sleepers wait across an interrupt and wakes cross creations;
10 ms is the shell's. The kill arguments are a protected number at each end and a
program; `reaper` and `live` also kill the kernel tasks numbered 4 and 5, which
programs may. Two programs are needed for one
to act on another; liveness and refinement runs have one because they keep no
symmetry.

In `desktop` two slots give both kinds of mailbox, over a neighbour and over the lock; two
programs are enough to reuse a slot, to share one (the first has not yet looked at
its closed window when the second registers), to type into the other and to close
the other. Each program registers once. `desktop_live` has one slot, so its mailbox is
always the lock and the second program waits for the first's slot.

In `storage` two data clusters and two entries let a file of two clusters fill the
disk and a second find it and the directory full; lengths 0 and 3, with clusters of 4, give
the empty file, a cluster not full, an append that must link a cluster and one that finds none. A file of two
clusters is written in one call when a file that was appended to is copied. File names and
the pendrive's blocks are symmetric: no definition tells one from another.
In `kernel` a loaded program takes seven of the nine frames, so that heap pages, demand pages and
the loading of the second run out of them at different points; a chunk of 12 with requests of 1 and 3 splits, joins and grows the heaps and
meets both limits; a ring of 3 holds two. In `userland` every size is
the least at which a buffer is outgrown twice and its limit met, and every board the least
on which a game is won, lost and carried to its next phase.

**State constraints.** A bench follows nothing past the point where the code has
already lost: a power cut in the middle of a command, a second thread inside the same
driver call (`overlap`, `shared`, `crossed`, `raced`), a transfer given up that may still be
answered (`overtime`), the first fault of a program (`cr3`), a mouse out of step
(`slipped`, `robbed`), a port nobody can free, text written past a buffer. The step that
loses is in the model and the properties are checked on the state it leads to; the
histories that name these points are also what the properties say "until" of. The other
constraints are sizes: a lost frame, an orphaned port and two known ports at most, a ring
that is empty while a mouse packet is on its way (keys and mouse share only the controller).

**Fairness** (`ProcLive`). The PIT is programmed once and never stopped, and nothing in
`Proc` keeps interrupts off: weak fairness of `TimerInterrupt`. (A program's call that spins on
`fat32_lock` does, for ever, section 7; files are outside `Proc`, so its liveness is that of a
machine in which no call meets a lock the shell holds.) A kernel thread
only executes between two ticks, so its steps come and go; a tick is much longer
than any of them, so one that gets the CPU again and again makes its next step:
strong fairness of the kernel tasks. Nothing is assumed of the programs.

In `Desktop` everybody who has a next step for good takes it (weak fairness), which
is what `NoStarvation` gives a ring-3 program; spinning on the lock is not a step forward.
Starts, deaths, keys and clicks are owed to nobody. `ExplorerLives` and
`ClosedIsFreed` assume that the lock is never abandoned: no holder is killed and no
key is written over a free lock. The code has no remedy for either. The benches check no
liveness and assume no fairness.

**Deadlock** is checked in `proc`, `reaper`, `live` and the desktop runs: the timer always
fires, and the explorer's loop never ends. In the benches a part may stop (a panic, a
kernel that spins on a lock, a machine lost in an interrupt, a game at its bound), so it is not.

## 5. Proofs

Every theorem is of the module's own specification, over any value of its constants that
its assumptions allow: any number of processes, slots, clusters, frames, ports or cells,
any lengths, any arguments. The assumptions say that sizes are numbers, that sets the code
keeps apart are apart, and little else; TLC evaluates them on every run.

A behaviour of a bench is one of each of its parts (`StorageParts`, `KernelParts`,
`UserParts`), so whatever is proved of a part alone holds on the bench, and the types of the
benches (`StorageTypes`, `KernelTypes`, `UserTypes`) follow from those of the parts.
Every safety property that a passing run checks is the statement of a theorem.

**Process table** (`Proc_proofs`, with and without `task_b` unless said).

- `Invariance`: `IInv` is inductive. `AlwaysSomeone` alone is not: that the
  current process is alive after a dispatch needs TaskA to be live, which needs
  that no kill can name it (`pid[TaskA] = 1` in `CpuInv`), that ranks order the
  list (`ListInv`), that an inserted process is READY and known to one thread
  (`MadeInv`), and that the boot has not run off its list (`BootInv`).
- `SomeoneAlways`, `NoneDeadRuns`, `AdoptionAloneRevives`, `ServingIsBusy`,
  `TypeCorrect` follow.
- `ProtectedStayAlive`: the guard of `kill_process` is on numbers, and numbers
  come from an unprotected counter. The argument (`PInv`): until the launcher
  is in the list kernel_main is the only creator `schedule` can run, so
  the shell gets 2 and the launcher 3, and afterwards numbers never change.
- `KeyboardIsTrue`, for the shipped kernel, which has no reaper: `FInv` says that until the
  hand-over only kernel_main and the shell are listed (`StartInv`), that whoever is alive and
  flagged is `foreground_process` (`OwnerInv`), that children are programs whose
  number the creator holds and parents are its creators (`KinInv`), and, while numbers are
  unique, that the two copies agree (`AgreeInv`).
- `Refinement`: `Proc` implements `ReadyQueue`. The heart is that a dispatch
  subtracts from every place in the queue the same amount modulo the length of the
  list, and that an insertion at head moves together those that come after head.

**Desktop** (`Desktop_proofs`; any programs may be virtual keyboards and task managers).

- `TypeCorrect` needs that whoever writes a slot has one (`Placed`) and that
  `bring_to_front` permutes the stack (`FrontPermutes`, from `Stacked`).
- `LockIsExclusive`: exclusion alone is not inductive, since the lock is written by
  keys. What is: whoever is inside, the low byte of the lock is not 0
  (`LockInv`), because keys are not 0 and readers clear only the flag. `LockMoves` sorts
  all steps into those that take the lock, leave it, or keep it.
- `OpenSlotsAreOwned` rests on it: a slot being filled in has an owner
  (`OwnerInv`), because the collector would have to be inside as well.
- `FocusIsOnTop`, `GrabsEnd`: from `MouseInv`, which adds that a click is looked for
  only with nothing held from an earlier one.

**Files** (`Fat32_proofs`).

- `FatLockIsExact`: who is inside is known from where each actor is; every
  return, early or late, leaves the lock as that says.
- `FatTypes`, `ChainsAreSound`, `NothingIsLost`, from `VolumeInv`: between operations the
  disk is `Quiet` (chains apart, closed and long enough, every cluster named), and
  at each place inside an operation a predicate says how far from quiet it is (`WAlloc`,
  `WMark`, `DFree`, `ALink`, `AMark`, `MEntry`). Reachability along the table is
  the least set that is closed under links, which needs no recursion: a write to a link changes
  it only for who reaches the writer's cluster.
- `FilesAreLeftAlone`: every step of an operation touches only the entry it
  was called for and clusters that are free or its own, across the unlock between
  the delete and the create of an overwrite.

**Drives** (`Drives_proofs`).

- `AhciTypes`, `SectorsAreTrue`: while calls are alone, the table and the bounce
  buffer are those of the call at its place, and the port, if busy, works on that command.
- `DrivesAreKept`: `VolInv` is types and, until two threads overlap, that at most one hand
  is inside (`OneHand`), that C: is active for whoever writes it (`HomeInv`), and, until a mount
  fails, that the saved directory is the one left (`DirInv`).
- `UsbIsTrue`, from `UsbInv`. An answer a caller holds is the one it asked for or none (`Reading`).
  In the middle of the pendrive's command either everything it needs is there and
  the toggles are in step (`Clean`) or something is missing for good (`Short`), and then it accepts
  no new command (`Refused`). Between commands a thread's offer keeps the toggle it was made with
  (`Ready`), and while nobody crosses and nothing fails the two sides agree at every point
  (`Rest`). Each action is shown to be a step of the driver, of the controller or a retry
  (`Moves`), so the invariant is proved for three kinds of step, not for each action.
  The proof assumes that a read asks for at least one sector (`UsbAssumption`), as its callers do.

- `StorageTypes`: each part's inductive invariant already holds its types.

**Kernel** (`Kernel_proofs`, `Heap_proofs`, `Rings_proofs`).

- `FramesAreSound`: the bitmap holds a mark for whatever somebody relies on (`Filled`), and until
  an allocation is overtaken between its read and its mark, frames have one holder
  (`Owned`) and a frame just found is free or the finder's (`Fresh`).
- `RecoveryIsTrue`: `PointInv` (whose point it is), `FrameInv` (a live frame is of a
  thread that is in a block), `SoleInv` (what the history says of it), `GoneInv`.
- `HeapsAreSound`: blocks follow each other without gap in a list that agrees with itself
  backwards (`Whole`), callers hold blocks of their own (`Given`), and in the kernel no two
  free ones touch (`Joined`). The user heap promises no `Joined`: `realloc` cuts without
  joining.
- Rings: a push appends to what a reader will get unless the ring is full, a pop takes its
  head; from the arithmetic of places modulo `RingSize`.
- `InputIsTrue`: `MouseInv` follows a packet from the motion to its last byte, with one
  predicate for each number of bytes still to come, before streaming is on (`Early`) and
  after (`Streaming`); `KeyInv` is that the ring holds what was typed and not read.
- `SerialIsTrue`: who owns a port (`Owned`), that its line reaches it (`Hears`) and
  that its ring is a beginning of what was said (`InOrder`).
- `KernelTypes` and `SerialTypesHold` hold also where the invariants above have given up: the
  search for a frame stays within the bitmap (`SearchInv`), the boot within its
  phases (`PhaseInv`), the lines of the UARTs within theirs (`LinesInv`).

**Ring 3** (`Userland_proofs`).

- `ListsAreTrue`: until a `realloc` fails the room said is the array's and items fit.
- `SoundIsTrue`: what is heard, followed by what the entries to come describe, is the sound
  last taken (`Follows`).
- `FormsAreTrue`: `FormInv` is an invariant of whole passes of the loop; the twins
  agree and the caret is where it is drawn because the same click reaches both halves.
- `TextsAreTrue`, `UntouchedIsSaved`: `MemoInv` says that the text is in its block, that the
  terminal's line is what follows the last prompt, and that the editor's text is the file's,
  characters the field does not keep apart. Adding a text is a loop over its characters; the
  loop is shown by least members of sets of naturals (`LeastOf`, `StepByStep`, `Iterated`).
- `GamesAreWhole`, from `GamesInv`. *Snake*: while the game goes on the body but its last
  cell is a path that does not cross itself (`BodyPath`), apart from the food and the walls (`Off`), and the
  heading is not the reverse of the last move (`CameBy`); turning twice in a frame would be.
  *Tetris*: no full line stays and the piece is off the squares. The loop of
  `checkLines` keeps that the lines below the one it looks at are not full and that clearing what is
  left gives the same arena (`Looking`), and each look lowers a count (`Tally`), so that
  the loop ends. *Space*: each part of a frame keeps the war whole, the aliens'
  lasers by induction over them. *Arkanoid*: from `BricksInv`. *CHIP-8*:
  the stack holds what the program is to return to until it is overrun (`StackTrue`); the hold of
  a key covers the frames since its press and ends no later than one given by the last key of all, so
  that whoever is down was pressed since keys last stayed away (`KeysHeld`); without a program the
  caret is where the loop last kept it (`CaretThere`).
- `UserTypes` needs bounds those invariants do not have. *Lists*: items and choices stop at
  their bounds (`ListsBounds`). *Sound*: a gate's pause is that of a game (`GateInv`).
  *Texts*: a block is between its first and its last size (in `Sound`; `MemoAssumption` says that
  the first fits), and the scroll ends within three rows of what is shown (`ScrollInv`), because a draw
  takes it back. *Tetris*: every
  piece, however turned, has a square in its grid of four (`HasSquare`), and that square is on the arena,
  so the corner of the grid is within three columns of it (`PieceNear`), also after the game is over. *Space*: each part of a frame takes at most a life
  for a laser and one square of a shield (`Spared`). *CHIP-8*: the counter, and
  every word of the stack, is an address of the program or 0 (`ChipReach`), also past the overrun.

**Not proved.** Liveness (`NoStarvation`, `ExecServed`, `ZombieLeaves`, `ExplorerLives`,
`ClosedIsFreed`, `ClosedEnds`) is out of the prover's reach, and so is fairness.
`FocusTrue` with the reaper is neither stated nor proved: the reaper is not built into the
shipped kernel.

## 6. Hazards

See `PROJECT.json`: each hazard at its line, with the properties that would
catch it. Seven have none, and each says why. After the first fault of a program the address space
is that of register CR2 (section 7). A killed `task_d`, a sleep cut short, two threads in one
`pmm` search or one SATA call, a command that ends as the driver gives it up, two
programs on one slot: the models reach these states, the code has no remedy for them, and so
no property can exclude them.

The same is true inside some properties. `torn`, `overlap`, `shared`, `overtime`, `raced`,
`slipped`, `robbed`, `strayed`, `starved` and `refused` are histories that mark the step at which the code has
lost something, and the property that names one holds until then. What it shows is that there is
no other way to lose it; that way itself is reached and not caught.

## 7. What the code does and its comments deny

- `UniquePid` (run `pid`): `proc.h:75` calls the pid "Identificador unico";
  `proc.c:162` takes it with interrupts on, in three threads.
- `ZombieStaysDead` (run `revive`): `proc.h:50` says a zombie only waits to be
  cleaned; `apps.c:88` makes READY a child that may already be dead.
- `NoOverwrite` (run `overwrite`): `syscall.c:511` answers "Ocupado no momento" while a
  request waits; the shell reaches that code with interrupts on.
- `LockHasHolder` (run `desktop_lock`): `wm.h:41` places the control after the 32
  windows; `teclado.c:78` writes the key of the last window over the lock, which
  nobody then releases.

In the first slots the same layout has a milder effect: a key typed into a window makes the next
slot non-zero for good. If no program owns it, it is neither collected
(`explorer.c:122` wants a pid) nor registered (`TOS_IPC.c:16` wants 0), and if
its window has just been closed it opens again.

No run shows what follows; it was met while modelling, and the models have it.

- *Faults.* `idt.c:86` takes the address space of a faulting program from CR2,
  which holds the address of the fault, and loads it into CR3. `idt.c:145` and `idt.c:164` call
  this the isolation of the program; it holds up to the first fault.
- *K_TRY.* There is one recovery point. A return from the middle of a block leaves it armed on
  a frame that is gone; the end of a nested block disarms the outer one; a thread preempted
  between `k_setjmp` and `active = 1` arms another's point.
- *Locks.* Programs' calls run with interrupts off: one that spins on `fat32_lock` or
  `fat_lock` while the preempted shell holds it never ends. `K_EXCEPT` paths unlock whether
  they hold the lock or not.
- *SATA.* A command that times out is taken for a success, and one that succeeds
  at the last poll for a failure.
- *USB.* Reads of more than fits a transfer leave the pendrive waiting; the third pair of
  endpoints is never tried; a failed identification still counts as woken; there
  is no reset recovery.
- *Serial.* There is no gate for the second line; COM3 heard before COM1 was opened reads port 0; a
  failed change of speed leaves an active object without a handle; a program that dies keeps its
  port.
- *Audio.* Nobody owns the device, the interrupt handler is never installed, sounds are
  cut at 32 entries.
- *Forms.* The explorer moves the point of a click while the button is held, which reaches
  the inner close box; captions longer than 63 characters leave their array; the
  keepers put the caret back into a form that has none.
- *Games.* A CHIP-8 key stays held across programs, and any key, also one off the keypad
  (`chip.c:488`), renews the hold of every key that is down; the 17th nested call leaves the stack.
  `chip.c:326` takes the focus from the field after a ROM was read, but
  `gui.c:785` ignores the value it is given and puts the caret there: the machine stands still until a
  click elsewhere. In `space.c` lives can fall below 0 and one frame can win and lose. In
  `arkanoid.c` the victory comes a frame late.
- *Dead code.* `vfs_init_standard_streams` and `gui_pop_event` are never called: no file
  descriptor can be opened, `keyboard_vfs_read` and its `force_reschedule` are not reached, and no event
  leaves the ring.

## 8. Plan

Done, each with its module, its run, and its theorems: the process table, the desktop, FAT32 and
the drives, SATA, frames and address spaces, heaps, recovery, input, serial ports, forms,
USB, texts, lists, sound and games.

Left, in this order:

1. A theorem that a write to a mailbox reaches nothing else when the layout of the page is
   that of the comments.
2. The composition of `Memory` with `Proc` through creation and reaping.

## 9. Not modelled, and why

- Segments and TSS: constant tables, written once.
- VFS: its root is never set up, so every open fails (section 7).
- PCI and the managers by class: a scan at boot, with no state that changes afterwards.
- HDA: reached only from an older `kernel_main` that is not built.
- Video, fonts, double buffering, the boot desktop: pixels.
- Kernel utilities and the runtime's strings and numbers: pure functions, modelled where a module
  needs what they compute.
- The end of the explorer: a kill can name it (its pid, 5, is not protected) and leaves every
  window without a loop; `Proc` has the kill, `Desktop` assumes it does not come.
- Parts of what is modelled: saved contexts and stacks, bytes of files and directories below the
  root, coordinates, exact positions in two games. Each component's note in `PROJECT.json` says so.
