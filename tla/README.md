# A verification of HypnoticOS

HypnoticOS is a small 64-bit kernel for x86: it boots through GRUB, starts all
processors, mounts a file system image that GRUB loaded, and runs programs of
that image under a preemptive round-robin dispatcher. This directory holds TLA+
modules that model its parts, TLC configurations that check them, and proofs of
the most important invariants that TLAPS checks.

Contents: [the system](#the-system), [the modules](#the-modules),
[the runs](#the-runs), [fairness](#fairness), [proofs](#proofs),
[what disagrees with the code's own words](#findings), [assumptions and
abstractions](#assumptions-and-abstractions), [what is not
modelled](#what-is-not-modelled), [the plan](#the-plan).

To repeat a check: `tlc -config MCDispatcher_smp.cfg MCDispatcher.tla`; to repeat
the proofs: `tlapm DispatcherProofs.tla` (the proof modules are named `...Proofs`).

## The system

Source paths are relative to the root of the repository; `src/cpu/...` is the
kernel's source, `libc/` the library of both the kernel and the programs,
`hypnoticfs-tools/` programs that run on the developer's machine.

### Interrupt entry, kernel lock (`src/cpu/idt-asm.nasm`, `src/cpu/idt-c.c`)
- *State*: `IdtBusy` (the kernel lock), `IdtCallVector`, `IdtCallCs`,
  `IdtCallSaved*` (one set for all CPUs), the registers of each CPU.
- *Operations*: `IdtGetLock` (a spin loop on `xchg`), the stubs `Idt0..Idt255`,
  `IdtCallManage` (save, switch to the kernel's page tables, call, restore, give
  the lock back, `iretq`), `IdtCall` (the switch over the vectors), `IdtWait`
  (reset the stack, give the lock back, `sti; hlt`).
- *Interacts with* everything: all kernel code after boot runs inside `IdtCall`.
- *Hard*: the steps of a handler interleave with user code, idle loops and
  pending interrupts of the other CPUs; the lock is not reentrant, so an exception
  in a handler stops the machine; the lock is released in two places.
- *Correct if*: one CPU at a time is in the kernel; a process gets back the
  registers it had, whoever used the shared variables in between; `HALT` stops
  everything.

### Dispatcher and process table (`src/dispatcher/dispatcher.c`, `new.c`, `done.c`, `init.c`)
- *State*: `DispatcherProcesses`, `DispatcherCpus` with `current_pid`,
  `DispatcherCycle`, `last_pid`, and per process `run`, `lock`, `suspend`,
  `pending_exit`, `last_cycle`, `save`.
- *Operations*: `DispatcherSave`, `DispatcherSetUpNext` (walk the table: remove
  who has exited, test who is suspended, choose who may run), `DispatcherProcessNew`,
  `DispatcherProcessRun`, `DispatcherProcessDone`.
- *Hard*: the table is shortened while it is walked; several CPUs walk it at each
  tick; `current_pid`, `lock` and the saved registers change at different moments;
  pids wrap round at 0xFFFF; everything above this (sleep, read, exit) depends on
  the walk reaching every entry.
- *Correct if*: a process runs on at most one CPU, only when it may; pids are
  unique and the current process of a CPU is in the table; the cycle serves
  everyone; ready processes run, exited ones disappear, sleepers wake.

### Kernel functions (`src/function/*.c`)
- *State*: the data of a suspended call (`FunctionSleep_t`, `FunctionRead_t`).
- *Operations*: `exit`, `sleep`, `read`, `run` change the state of processes;
  `sleep` and `read` suspend the caller and are tested by the dispatcher until
  they end; the directory functions use the table of open indices; the others
  answer at once.
- *Hard*: the answer is written to the saved registers of a process that is not
  running; a failed `run` leaves a process behind.

### Keyboard (`src/devices/keyboard.c`)
- *State*: `KeyboardBuffer`. *Operations*: the interrupt queues a key, a
  suspended `read` takes one. *Hard*: the buffer at its limit.

### Open indices (`src/dispatcher/open-indices.c`, `src/function/directory-*.c`)
- *State*: `DispatcherOpenIndices`: for each listed directory an id, the path and
  a pointer to the process. *Operations*: lock a path and list it, use it by its
  id, unlock, and unlock everything of a process that ends.
- *Hard*: the table is shortened while it is walked; entries outlive the struct
  they point to; failure between locking and answering.
- *Correct if*: no path is locked twice; an id means the same path until it is
  closed; nothing stays locked when its owner is gone (it does: see Findings).

### Kernel memory (`src/memory/alloc.c`, `find.c`, `table.c`, `new-block.c`, `libc/stdlib/free.c`, `realloc.c`)
- *State*: `MemoryBlocks` (from the memory map) and the linked memory tables with
  one entry per allocation. *Operations*: `MemoryNewBlock` at boot,
  `__malloc_align`, `free`, `realloc`, `MemoryNewTable` when the entries run out.
- *Hard*: the allocator allocates its own tables from the memory it manages, in the
  middle of an allocation; sizes of 0; ends of blocks; wrap-round.
- *Correct if*: allocations never overlap; what is in use is exactly what the
  kernel holds and the tables; the search finds the lowest free place.

### AP start, local APIC, TSS (`src/cpu/apic/local.c`, `ap-start.c`, `ap-start-prepare.nasm`, `src/boot/tss-new.c`)
- *State*: `ApInitDone`, `TssLast`, `ApStartStack`, `DispatcherCpus`,
  `ApicLocalBspId`. *Operations*: for each MADT entry the BSP makes a TSS, sends
  INIT/SIPI and waits for the AP to answer; at the first timer interrupt it sends
  each AP an interrupt and waits for two answers.
- *Hard*: the waits are bounded and the answers are not; both sides write one
  variable; the AP allocates its stack without the kernel lock.
- *Correct if*: every AP has a TSS of its own, nobody shares the start stack or
  the heap, and in the end every timer runs.

### File system (`src/fs/**`, `hypnoticfs-tools/**`, `src/devices/storage/**`)
- *State*: the image: index slots and data. *Operations*: `hypnoticfs-new`,
  `-mkdir`, `-add` (development machine), `FsRead`, `FsList`, `FsDetailsGet`,
  `PathConsolidate`, `FsWrite`, `FsNewIndex` (kernel; nothing in the kernel calls the
  last two yet).
- *Hard*: three programs write a format that the kernel reads; sizes and offsets
  of 0 (directories, empty files); a tool that stops half-way; the end of a list;
  a file that grows has to find space or move, and a write may fail in between.
- *Correct if*: every file that was added or written reads back, the list of a
  directory is its content, and a path leads to what it means.

### Paging (`src/memory/paging.c`, `paging-data.nasm`)
- *State*: a tree of four levels of tables for each process and one for the kernel.
- *Operations*: `MemoryPagingInit` (boot), `MemoryPagingNewPD`,
  `MemoryPagingSetPage`, `MemoryPagingSetPageImitate`, `MemoryPagingPagePresent`,
  `MemoryPagingPageChangeFlags`.
- *Hard*: entering one page may allocate up to three tables from the memory that is
  being handed out; a rights bit counts only if every level has it; pages of three
  sizes in one tree; the kernel's pages are in every process.
- *Correct if*: what a process's `va` says and what its tables say are the same, with
  the rights that were asked for, and the kernel's pages are not the process's.

### Process memory and the heap of a process (`src/dispatcher/memory.c`, `format-elf.c`, `new.c`, `src/function/new-page.c`, `libc/stdlib/*alloc.c`, `free.c`)
- *State*: per process `va` (page → frame), `alloc`, `heap_size`, the initialisation
  data, the copy of its file; and, in the process, libc's list of blocks.
- *Operations*: `DispatcherProcessNewFromFormat` (arguments, segments, stack),
  `KernelFunctionNewPage`; `malloc`, `calloc`, `free`, `realloc` of libc.
- *Hard*: memory that runs out between two pages of one request, when nothing is
  undone; data that cross a page; two views of the size of one heap; blocks that are
  a few bytes too large.
- *Correct if*: a process reaches its own frames only; `heap_size` is what is mapped;
  arguments are where the process finds them; blocks do not overlap (they can: see
  Findings).

### The rest
Boot, GDT/CPUID/MSR, ACPI, I/O APIC, HPET, PCI, storage devices, terminal, the lock of `src/lock.nasm`, the
rest of libc, the programs (console, ls, ...), tests and the memory-dump tool.
`PROJECT.json` lists each with its status and the reason; see also
[below](#what-is-not-modelled).

### How the parts meet
- All CPUs meet in `IdtBusy`, `IdtCallSaved*` and the process table
  (`Dispatcher`). Kernel functions run to their end inside a handler, so the
  components they call (kernel memory, open indices, file system) are sequential:
  each call is one action of their modules. The exceptions are the walk of
  `DispatcherIndexLockCheck`, split so that its index can be talked about, and the
  start of the APs, which runs outside the lock (`ApStart`).
- The dispatcher's timer handler drives every wait: sleeps, reads, removal of exited
  processes. The first timer interrupt also starts the APs' timers (`IdtFull` in
  `Dispatcher`, the second half of `ApStart`).
- The ends of processes meet the open indices in `DispatcherProcessDone`.
- Page tables, pages of processes and the kernel's own data come from one memory, in
  the order in which they are asked for (`ProcessMemory` with `Paging`).

## The modules

| module | models | proofs |
|---|---|---|
| `Dispatcher` | interrupt entry and exit, process table, dispatcher, kernel functions, keyboard buffer | `DispatcherProofs` |
| `ProcessLifecycle` | abstract: what a process may go through, and who runs it | |
| `DispatcherRefines` | the refinement mapping from `Dispatcher` to `ProcessLifecycle` | `DispatcherRefinesProofs` |
| `OpenIndices` | the table of open indices, the directory functions, the end of a process | `OpenIndicesProofs` |
| `KernelMemory` | memory blocks, memory tables, malloc/free/realloc of the kernel | `KernelMemoryProofs` |
| `KernelMemorySearch` | the search of `MemoryFindSpace` as the code runs it, against its definition in `KernelMemory` | `KernelMemoryProofs` |
| `ApStart` | start of the APs and of their timers | `ApStartProofs` |
| `Paging` | the page tables: entering a page, making tables, looking a page up, rights | `UserHeapProofs` |
| `ProcessMemory` | the pages and page tables of processes and of the kernel: boot, creation, loading, arguments, stack, growth of the heap, end | `UserHeapProofs` |
| `UserHeap` | malloc, calloc, free, realloc of libc over `ProcessMemory` | `UserHeapProofs` |
| `Path` | `PathConsolidate`, and what a path means | `HypnoticFSProofs` |
| `HypnoticFS` | the image, the tools that fill it, lookup, list and read | `HypnoticFSProofs` |
| `HypnoticFSWrite` | boot from the image, then `FsWrite` and `FsNewIndex` with `Resize` and `FindSpace`; the properties of the file system | `HypnoticFSProofs` |

`MC<module>` gives a module its constants for TLC. `Induction` has the lemmas for
inductions over the turns of a loop, on which `KernelMemoryProofs`, `UserHeapProofs` and
`HypnoticFSProofs` rest.

### Dispatcher
`pc[c]` is where CPU `c` is: `user`, `idle` (the `hlt` loop), `spin` (in
`IdtGetLock`), or a step of a handler: `entry` → `call` → (`scan` ↔ `decide`) →
`restore` → `release`, or `wait`; `halted` is the loop of `HALT`. One handler is a
chain of actions, so TLC interleaves it with everything the other CPUs do. The
actions and their code:

| action | code |
|---|---|
| `TimerInterrupt`, `FunctionInterrupt`, `ProcessFault`, `DeviceInterrupt`, `SpuriousInterrupt`, `KernelFault` | the gates: the CPU enters the stub |
| `IdtGetLock` | the `xchg` that succeeds; the vector is recorded after it |
| `IdtCallManage` | registers to `IdtCallSaved*`, kernel's cr3 |
| `ExceptionInProcess`, `ExceptionInKernel`, `Spurious`, `KeyboardIrq`, `UnhandledIrq`, `KernelFunction*`, `IdtCallTimer` | the branches of `IdtCall` with all that they call |
| `ReapExited`, `TestSleep`, `TestRead`, `TestReadBadFd`, `SkipProcess`, `SelectProcess`, `NextCycle`, `NothingToRun` | one visit of `DispatcherSetUpNext` each |
| `RestoreRegisters`, `ReleaseAndReturn`, `IdtWait` | the end of `IdtCallManage`, `IdtWait` |

Registers are a token (who computed them, and a version that flips with every
step), which is enough to see a process continue with registers of another or with
old ones of its own. `last_cycle` and `DispatcherCycle` are only compared for
equality, so `ran` is the set of processes with `last_cycle = DispatcherCycle`, and
nothing has to be bounded. `cycle0` keeps the special case of a new process, whose
`last_cycle` is 0. The deadline of a sleep is the number of ticks left, with
`ok = FALSE` when `IdtTicks + ticks * 10000` overflows.

The constants `Calls`, `Events` and `Irqs` choose the workload of a run; the
guards of the model are the same in all of them.

### ProcessLifecycle, DispatcherRefines
Six states of a process (absent, broken, ready, running, blocked, exiting) and the
assignment of CPUs. The mapping computes them from the table, `run`, `suspend`,
`pending_exit` and `current_pid`. Every step of every handler must be one legal
move or none.

### OpenIndices
`indices` is the table in order; an entry's `owner` is the process its pointer
names, or `Freed` once that struct has been freed, when what the code reads is
arbitrary (`MayBelong`, `MayNotBelong`). `data` tells whether the directory could be
listed: when it could not, the entry stays and the caller gets no id. `handles` is
a history variable. `CheckStart`, `CheckRelease`, `CheckPass` and `CheckEnd` are
`DispatcherProcessDone` with the walk of `DispatcherIndexLockCheck`, entry by entry.

### KernelMemory, KernelMemorySearch
`blocks` and `table` are the linked lists as sequences. `MemoryNewBlock` takes one
entry of the memory map (the first one that fits also places the first table);
`Malloc`, `Free`, `Realloc` run to their end. `__malloc_align` is written as the
code is: find an address, make a table when the reserve is reached, search again,
note. `live` holds what the kernel's pointers hold. `MemoryFindSpace` is defined
by what it finds (the lowest fitting candidate of the first block that has one);
`KernelMemorySearch` is the loop of the code, as recursive functions (`SearchBlock` the
`do ... while` over the addresses of a block, `SearchBlocks` the loop over the blocks), and
the invariant `FirstFit` compares the two in every reachable table.

### ApStart
The BSP's walk over the MADT and later over `DispatcherCpus`, and each AP's code
from the SIPI to the last answer, one action per access to something shared:
`ApInitDone`, `TssLast`, the start stack, the heap, `ApicLocalBspId`, the kernel
lock. `late` (history) has the APs whose second wait has ended without them.

### Paging
All entries that are present in one address space are one function: the entry of
level *n* for an address is named by *n* and by the part of the address that leads to
it, and holds a frame, the flags and whether it is a page. So a table is the set of
entries below one name, and "the table is missing" is "the entry above is absent".
`Leads` is what the processor makes of an address: the frame, and the rights that
every level grants. `MemoryPagingSetPage` of the code is `Refused` (alignment, a
larger page in the way, a larger page over what is there; a page of 4 KB that is
there is replaced silently), `Missing` with `WithTable`, and `WithPage`.

### ProcessMemory, UserHeap
`owner` says who has each page frame, which is all that these modules need of the
kernel's allocator (`FreeFrames` keeps its two traits that matter: the lowest place
first, and none that ends where an allocation begins). A kernel function is an
operator that changes a record `k` (owners, the process, `ok`, `lost`), so that a
failure in the middle leaves behind exactly what the code leaves behind (`AndThen`
puts two such operators one after the other, `ForEach` and `UntilFailure` are loops of
the code, the second with an exit at the first failure);
`DispatcherProcessNewFromFormat` is one step, as it is in the kernel. `Booted` is the
kernel's own page tables after `MemoryPagingInit` and the mapping of the devices,
made from those of `boot.nasm`. A page of a process is an area and a number; every
page is entered in the page tables, and the tables take frames from the same memory.
The result of the allocation of a table is not checked in the code: without a frame
the table is at address 0 (`lost`), what the processor makes of that is left out, and
the model stops (`halted`), as it does at the `HALT` of a malformed ELF file.
`Calls` are the files that are run: their kind, segments and arguments. A process is
`lost` when its making failed after its struct was made, and `refused` when its file
was of an unsupported kind. `UserHeap` composes with this module: its `Next` starts and
ends processes, and `malloc` calls `KernelFunctionNewPage`. A heap is the list of its
blocks, which lie one after the other (`Ends` sums them up, and gives their addresses); a
size below 0 is one that has wrapped below 0. A process whose headers have
been overwritten, or that holds overlapping blocks, is `torn`: its heap has no defined
contents any more, and it may make any calls. Lengths of arguments are in units with
`Alignment = 4`, of blocks in units of which a header has 3.

### Path, HypnoticFS, HypnoticFSWrite
Slots of the index are records, named by their number instead of their offset; a byte
of data is a file's path, a position, and who wrote it. `Mkdir` and `Add` are whole runs
of the tools, `AddFails` is `hypnoticfs-add` stopping between the data and the entry.
`FsRead`, `FsList` and `GetIndex` are the kernel's functions over the same image.
`HypnoticFSWrite` lets the tools fill the image, boots, and then writes: into the space
that an entry has (`FsWrite`), or after `Resize` (`FsWriteLarger`), which leaves the
entry larger when the write itself fails. `Resize` and `FindSpace` compare one point of
the new place with the other entries, `FindSpace` returns the end of the space it has
found, and its differences wrap for a directory, whose offset is 0. All of this is in
the model; an image in which data overlap or lie outside of the data part, which
happens, is `torn`, and nothing more is said of it. What `StorageRead` takes from the
header or the index is nobody's data (`NoByte`). Paths are sequences of segments;
`PathConsolidate` and `Meaning` are two recursive functions over one.

## The runs

"Size" is the number of distinct states. All passing runs explore their state space
completely.

| run | size | question | bounds |
|---|---|---|---|
| `disp_smp` | 1 302 533 | two CPUs: lock, registers, one CPU per process, halt, exceptions of the kernel | 2 CPUs, 2 pids; exit, run, preemption, spurious interrupt, faults of the kernel |
| `disp_table` | 64 615 | the table: pids and their reuse, removal during the walk, fairness of the cycle | 1 CPU, 3 pids and a table that may ask for a 4th; exit, sleep, run, both failures of run, faults |
| `disp_waits` | 541 974 | sleep, read and their ends; the whole life cycle (refinement) | 1 CPU, 2 pids, buffer of 2 keys, reads of 0 and 2 bytes; all functions, lines 1, 7 and 18, faults of processes and of the kernel |
| `disp_live` | 30 731 | liveness | 2 CPUs, 2 pids; exit, sleep, run |
| `disp_flags` | | finding | |
| `open_locks` | 202 284 | locks, ids, handles, the end of a process | 2 pids, 4 paths, 3 ids (one less than paths: the limit is met) |
| `open_leak` | | finding | |
| `mem_table` | 6 431 | allocations of sizes 0 and 3, growth of the tables | memory of 28 cells above the floor, first table of 7 entries, later ones of 3, 2 pointers (symmetric) |
| `ap_start` | 759 | answers and bounded waits in every order | 3 APs, one disabled entry, the BSP in the middle of the MADT |
| `proc_heap` | 311 197 | pages, page tables, arguments and heaps of processes in a memory that runs out | 2 processes, tables of 4 entries, 33 frames (a process needs about 14, of which 9 are tables), 2 pointers, 4 sizes, 4 lists of arguments and 5 files (see below); heaps of at most 3 pages (`HeapBound`) |
| `heap_split` | | finding | 1 process, 25 frames, heaps of at most 6 pages |
| `fs_image` | 310 982 | what the tools and the kernel write is what the kernel reads | 2 names on 2 levels, files of 0 and 2 bytes, 4 slots, room for 7 bytes; the kernel writes 2 bytes at 0 and at 1; offsets wrap at 64 |

What the properties say, beside each module's `TypeOK`:

- `disp_smp`: `MutualExclusion` (one CPU between `IdtGetLock` and the release);
  `OneCpuPerProcess` (a process is locked exactly while it is the current one of one
  CPU); `ContextIsolation` (general registers and page tables are the process's own
  and newest); `HaltIsFinal` (after a halt, or an exception inside a handler, nothing in
  the table, the buffer or the assignment of CPUs changes any more, so nobody meets the
  table as the handler has left it half-way).
- `disp_table`: `PidsUnique`; `CurrentInTable`, which makes the `HALT`s for an
  unknown process unreachable; `WalkInTable` (the index of the walk is never further than
  one past the table, which gets shorter under it, and what is tested or chosen is an
  entry of it); `CycleServesAll` (the cycle is increased only when
  everyone who is ready has had a turn, although entries disappear during the
  walk).
- `disp_waits`: `OnlyRunnableRuns`; `LifecycleSpec`, the refinement.
- `disp_live`: `ReadyRuns`, `ExitedIsReaped`, `SleepersWake`. `ReadyRuns` is stated
  for behaviours in which processes are created only finitely often: without this
  condition it fails, because a chain of processes that each run a successor
  keeps the cycle from ending.
- `open_locks`: `LocksDistinct`; `HandlesExact` (handles and listed entries
  correspond exactly); `LeakBounded` (the walk of a dying process leaves at most as
  many entries as it removes: the exact measure of the defect below).
- `mem_table`: `Disjoint`; `Accounted` (entries in use are what is
  held, plus the tables); `TablesGrow` (the reserve of ten entries is enough for the
  two allocations of `MemoryNewTable`; 3 here, its least value); `FirstFit`.
- `ap_start`: `OwnTss`; `AllApsAnswered`; `StartStackAlone`, `HeapAlone` (one user, and
  at most one more for each AP that answers the second wait too late); `TimersRun`
  (liveness).
- `proc_heap`: `PagesPrivate` (pages and page tables: a frame that a process reaches is
  its own, once, and never a table); `TablesAgree` (what the kernel notes of the pages of
  a process and what its page tables say are the same, with the rights that were asked
  for; the kernel's pages are there for the kernel only, and the kernel reaches all
  memory and the devices and cannot write its code); `HeapMapped` (the kernel's `heap_size`, the mapped pages
  and libc's list of blocks agree, after failures half-way too); `InitDataHeld` (the first
  page of the arguments is the process's own, all that begins there is copied to it, and
  none but the last piece goes on past its end);
  `PointersHold` (as long as no header was overwritten, blocks in use are what the
  program holds, large enough, mapped and apart). The sizes give each outcome of
  `malloc`: a split with a rest of 0, a rest that wraps, a header behind the block (a
  fault, or a torn heap), growth by two pages, and growth that does not help. The
  lists of arguments are empty (for the first process, which the kernel starts), fill the
  page, cross its end once, and twice; the files can be
  loaded, have two segments that meet in a page (and cannot), have no entry point, are
  unsupported, or halt the machine.
- `fs_image`: `ReadsBack` (every byte of a file is what the tools or the kernel wrote
  there last, across growth, moves and failed writes, until the image is torn),
  `ListExact`, `PathsLead`; `FoundPlaceIsFree` (the place that `FindSpace` finds is behind the index and in the data
  of no entry; of the space behind that place it says nothing).

Why the bounds are enough: two CPUs are the smallest number at which the shared
variables, the lock and the walk can be contended, and the code treats CPUs
alike except the BSP and the one that counts ticks (different CPUs in these runs).
Three pids with a fourth wanted make the pid search wrap, skip used pids and find
none. Two entries in a row, and a removal in front, between and behind, are the
cases of a table that is shortened while it is walked: three entries have them.
Every limit of the code (pids, ids, buffer, table entries, image size, slots) is
a constant and is reached in some run.

Tables of 4 entries give pages of 4 and of 16 small pages in place of 512 and 262144, so
an address space has all four levels and each process makes tables on every one of
them; the frames run out at every step of making a process and of growing a heap. The
heap's bound is past the size at which each outcome of `malloc` has occurred.

`CHECK_DEADLOCK FALSE` is in the cfgs of systems that really may stop: the dispatcher
(`HALT`, and a CPU that faults inside a handler and spins on its own lock), the
boot that halts when an AP does not answer in time, processes that have ended (no
memory comes back), the allocator that halts when
memory is used up, and an image that is full. `OpenIndices` never stops, and
deadlock is checked there.

Each property of a passing run has a mutant: an operator next to the definition it
changes, with a comment `Mutant:`, that makes the plausible mistake which the
property must catch.

## Fairness

- `Dispatcher!FairSpec`: `WF` of the steps of a CPU that holds the lock (interrupts
  are off, so a handler runs on). `SF` of `TimerInterrupt`: the local APIC timer is
  periodic and keeps its interrupt pending until the CPU can take it, and a CPU
  leaves `user` and `idle` for other interrupts again and again. `SF` of
  `IdtGetLock`: the lock is a bare `xchg` loop; that no CPU loses it for ever is an
  assumption about the bus, and the code has nothing else to offer. No fairness
  is assumed of processes or devices.
- `ApStart!FairSpec`: `WF` of the BSP and of each AP, which just run their code. The
  bounded waits may end at any moment: how long an AP takes is not bounded.

## Proofs

TLAPS proves, for every value of the constants that satisfies the named
assumptions (any number of CPUs, pids, paths, ids, MADT entries, any memory map and
sizes):

| theorem | property |
|---|---|
| `DispatcherProofs!TypeCorrect`, `KernelLock` | `TypeOK`, `MutualExclusion` |
| `DispatcherProofs!PidsStayUnique`, `CurrentStaysInTable` | `PidsUnique`, `CurrentInTable` |
| `DispatcherProofs!OneCpuEach`, `OnlyRunnableProcessesRun` | `OneCpuPerProcess`, `OnlyRunnableRuns` |
| `DispatcherProofs!ContextsIsolated`, `HaltStopsAll` | `ContextIsolation`, `HaltIsFinal` |
| `DispatcherRefinesProofs!DispatcherImplementsLifecycle` | `LifecycleSpec`, the refinement |
| `DispatcherRefinesProofs!CycleServesEveryone`, `WalkStaysInTable` | `CycleServesAll`, `WalkInTable` |
| `OpenIndicesProofs!IndicesTypeCorrect`, `LocksStayDistinct`, `HandlesStayExact`, `LeakStaysBounded` | `TypeOK`, `LocksDistinct`, `HandlesExact`, `LeakBounded` |
| `KernelMemoryProofs!MemoryTypeCorrect` | `TypeOK` |
| `KernelMemoryProofs!AllocationsDisjoint` | `Disjoint` |
| `KernelMemoryProofs!AllocationsStartAvailable` (for a plain map, see below) | `StartsAvailable` |
| `KernelMemoryProofs!ReserveIsEnough` (if the table made at boot has room, see below) | `TablesGrow` |
| `KernelMemoryProofs!NothingLeaks` | `Accounted` |
| `KernelMemoryProofs!SearchFindsLowest` | `FirstFit` |
| `ApStartProofs!ApStartTypeCorrect` | `TypeOK` |
| `ApStartProofs!TssPrivate`, `NoApMissing`, `OneOnStartStack`, `OneInHeap` | `OwnTss`, `AllApsAnswered`, `StartStackAlone`, `HeapAlone` |
| `UserHeapProofs!PageFound`, `OthersStay`, `TablesStay` | lemmas about `MemoryPagingSetPage`, for every size of tables |
| `UserHeapProofs!PagesStayPrivate`, `TablesStayTrue`, `ArgumentsStayHeld` | `PagesPrivate`, `TablesAgree`, `InitDataHeld` |
| `UserHeapProofs!MemoryTyped`, `HeapStaysMapped`, `PointersStayHeld` | `TypeOK`, `HeapMapped`, `PointersHold` |
| `HypnoticFSProofs!ImageInvariant` | `IInv`, the inductive invariant of the image |
| `HypnoticFSProofs!ImageTypes`, `FilesReadBack`, `ListsAreExact` | `TypeOK`, `ReadsBack`, `ListExact` |
| `HypnoticFSProofs!RoomIsFound`, `FoundPlacesAreFree` | `RoomIsUsed`, `FoundPlaceIsFree` |
| `HypnoticFSProofs!PathsLeadRight` | `PathsLead` |

The arguments:

- **Dispatcher.** `TypeOK` is inductive, action by action; the arithmetic is the
  search for a pid (`PidTried` stays in `1..MaxPid`). Of the walk's index it says only
  that it is a positive number; the bound is `WalkInTable` (see the cycle).
  `MutualExclusion` is inductive by itself: only `IdtGetLock` leads into the handler,
  only when `IdtBusy` is clear, and the two releases leave the handler in the step in
  which they clear it.
- **The process table.** The invariant is `Table` with `Control`. `Table` says that
  pids are unique, the current process of a CPU is in the table, runnable, and the
  current process of no other CPU, and that `lock` means just this. It is not
  inductive without `Control`: a CPU in user code, or on its way back there, has a
  process; a CPU that is idle, walks the table or waits has none, since
  `DispatcherSave` has taken it away before the walk. So nothing that the walk removes,
  wakes or chooses runs elsewhere. `WithoutElements` is the lemma about the removal of
  an entry. An action is split into what it does to the table and what it does to its
  CPU's place; what the other CPUs keep is proved once for all actions.
- **Registers.** `Isolated` follows the newest registers of a process: on its CPU while
  that runs user code or has not saved them; in `IdtCallSaved*` while its CPU is between
  the save and the restore of `IdtCallManage`; in its save area when it has no CPU. That
  `IdtCallSaved*` is one set for all CPUs is harmless because of `MutualExclusion`. One
  case needs a clause of its own: a CPU on which kernel code has faulted spins on a lock
  that nobody is left to give back, with its process still current. (`Stuck` says so of
  every CPU, and is what `HaltIsFinal` needs besides `MutualExclusion`.) An unused pid has the
  registers of a new process (`Fresh`), so reuse of a pid is safe.
- **The life cycle.** `Kernel` (types, lock, table and registers together) is the
  invariant under which each action is mapped. Two facts are missing from it: a CPU that
  has no process never has the vector of the kernel functions (`Called`; else a function
  could suspend "process 0"), and only a process that `run` has released is ever suspended
  or exits (`Started`; else a broken process would be mapped to a blocked one). The lemmas
  `...Move` take the parts of handlers one by one: save, suspend, timer, exception,
  creation, run, reaping, the tests of what is waited for, selection. An action moves one
  process by one legal step, or none.
- **The cycle.** `Passed`: whoever is ready among the entries in front of the walk has
  had a turn. An entry that is removed during the walk stands at the walk's place, so the
  entries in front of it keep their numbers and the next one moves to the place that is
  looked at next (`WithoutPrefix`). A process that waits becomes ready only when it is
  visited, and nobody else changes the table while a CPU walks it, since that CPU has the
  kernel lock (`LockedOut`). So at the end of the table everybody who is ready is in `ran`.
  `WalkInTable` has the same reasons: the step from one entry to the next is taken only
  from an entry of the table, a removal shortens it at the place of the walk, and no other
  CPU shortens it meanwhile.
- **OpenIndices.** `HandlesExact` is not inductive. The invariant adds `Owners`
  (only living processes own entries and have handles, so a new process has none)
  and splits it into `HandlesHaveEntries` and `EntriesHaveHandles` for all processes
  but the one that is dying. The central lemma is `RemovalExact`: in a table with
  distinct ids, `WithoutId` removes that entry and no other. `LeakBounded`
  follows from `LeftInv`: the entries of the dying process that lie before the walk's
  index (`LeftBehind`) are at most as many as it has released. Only a release lets one
  more get there, the entry that moves to the freed place (`ReleaseLeaves`); an entry that
  is passed belongs to somebody else; and at the end everything lies before the index.
- **KernelMemory.** `Disjoint` follows from the chain `FindSpaceIsFree` (what the
  search returns overlaps nothing in use) → `WithEntryGood` → `TakeEntryGood` →
  `NewTableGood` → `MallocGood`, with `ReleasedGood` for free and `FirstTableGood`
  for the first table. The reason why the growth of the tables is harmless is that
  `Restart` searches again after it. `StartsAvailable` needs that every memory block lies
  inside of the entry of the map that it was made of (`BlocksTrue`), which the code
  achieves only if no entry is empty and none that begins at or below `MEMORY_FLOOR` and
  ends beyond it is shorter than `MEMORY_FLOOR` (`PlainMap`, a hypothesis of the theorem):
  otherwise the length that `MemoryNewBlock` computes wraps.
  `TablesGrow`: the last two entries of the tables are unused whenever a request begins
  (`RoomLeft`). A request takes the first unused entry; when the reserve is reached the
  two entries for the new table come first and the new table brings at least a reserve
  more (`ReserveAssumption`; the code has a reserve of ten). That the table made at boot
  begins with this room is a hypothesis, `RoomAtBoot`: the boot areas are at least three
  fewer than its entries, which the code does not test (the table has 100 entries, the
  areas are the kernel, the modules and what GRUB left). `Accounted`: cardinalities of the sets of entries and of pointers are
  followed through each request. `Owed` is the state in the middle of one, when an entry
  was made and its pointer not yet assigned. Two allocations may share an address (one of
  size 0), so what is kept is that every address has at least as many entries as
  holders; `free` takes one of each. `Ledger` is `Booked` while the kernel runs.
- **ApStart.** The invariant `IInv` relates the BSP's place to the place of each
  AP: in the first round all APs but the one that is being started are asleep or halted
  (`InMadt`, `InTable`), TSSs are given out in increasing order (`TssNewer`), in the second
  round only the awaited AP is active as long as `late` is empty (`InInterrupts`), and
  the lock is with the BSP while it waits (`Locked`). When second answers are late,
  `Counted` counts: the APs that the BSP has left behind (`LeftBehind`), and one more if
  the second answer of another AP stands where that of the AP at hand belongs (`Mistaken`),
  are at most as many as late answers. An AP that gives such an answer is not behind any
  more, and the answer is used up when the BSP goes on. `TypeOK` adds `Bounds`: the walks
  stop one past their tables, and there are at most `MaxTss` TSSs.
- **Paging.** An address that has a page leads to it by the entries on its own path
  (`PageFound`); two addresses of different pages part at some level, so an entry of the
  last level is on one path only (`OthersStay`); a new table is clear and is entered where
  nothing was, so no address gains or loses anything (`TablesStay`).
- **Memory of processes.** `MemoryInv` says of every process, in whatever state its making
  or its heap is: its pages and tables are its own (`Private`; the page beyond the stack
  is excepted, which the code does not own), it has no page larger than 4 KB, which is
  why a page that was noted is never refused later, and once it is made its file is the
  kernel's, its heap pages are 0 to `heap_size - 1` (`HeapCounted`) and its arguments lie
  one after the other (`ArgumentsHeld`): what begins in the first page has its frame, and
  the last piece may go on past its end, but then there is a second page (`LastMaySpill`).
  No other can, since the second page is asked for again at the next piece and a page that
  the process has is refused (`PageTwiceRefused`). A kernel function starts from such a record and
  gives it only frames that were free (`GivenTo`), so no other process loses any
  (`Untouched`, `WholeStays`). The frames that the kernel takes for itself in
  the middle, and gives back, are those of "kernel data" and of the file; the file that
  was read first stays the kernel's while its process is made (`FileStays`). A loop (`ForEach`) can be run
  (`CanBeRun`: its recursive function exists) and keeps what each turn keeps
  (`KeptToTheEnd`): the
  induction over the turns is done by taking the least turn that fails, a first-order
  argument that needs no induction schema. `BootedIn` walks through the kernel's own boot
  in the same way.
- **The page tables of processes.** `MemoryInv` says besides, as long as no table is lost,
  that the tables of every process agree with its pages (`Mapped`). `TablesAgree` as it
  stands is not inductive: that an address leads to its frame says nothing of what a new
  entry finds on its way. `Agrees` adds that entries hang together (`Tree`), that nothing
  above the last level is a page or withholds a right (`Passes`), and names the entries of
  the last level instead of what they lead to (`IsEntry`). An entry of 4 KB changes no
  other (`OtherEntries`), and since the pages of a process lie apart (`AreasAssumption`)
  a new one is nobody's (`AgreesPage`). A process that is being made has not yet all of
  the kernel's pages, one that failed may have a part of them: `Needed` says when all have
  to be there, and `Good` carries the set through every function.
- **The kernel's own page tables.** `KernelTables` describes them by their entries: a page
  of 2 MB is at its own address and writable unless it is in the given set, a page of 4 KB
  too. `LargePagesMade` follows the first loop of `MemoryPagingInit` from the tables of
  `boot.nasm`, `CodeMadeReadOnly` the second, and `DevicesMade` the devices that are added
  later. `KernelCanReach` reads the result, which needs that the code fills its pages of
  2 MB and that no table was lost (`BootAssumption`).
- **The heap of a process.** A block's address is the sum of the blocks before it, a
  recursive function; `EndsIs` shows that the function exists and `OneEnding` that its
  equations determine it, so the sums of a list that was changed can be given instead of
  computed: one block marked (`MarkGood`), one split (`SplitGood`), one freed
  (`FreedGood`), one more at the end (`GrownGood`). `Sound` blocks take
  more than nothing together with their header, also those whose size has wrapped below
  0, and this is why no two blocks have one address. The
  invariant `HeapInv` is that, while no header was overwritten, the blocks end at the end
  of a page that is mapped (`InOrder`) and the blocks in use are exactly those that the
  program holds (`HeldBy`). `HeldBy` is not inductive without `Sound`: after a
  block that takes nothing or less `malloc` could answer with an address that is held.

- **The search for memory.** `FirstFit` needs the types only, so it holds of every table,
  reachable or not. Two facts carry it. `OverlapEnds`: the end that `MemoryIsFree` gives
  back is that of an entry in use, behind the address that was tried. `NextIs`: so nothing
  in between is free, and the addresses that the search still comes to (`Onward`) and that
  are free are the same from there. `SearchBlock` is a recursive function; a solution
  of its equation is given (the least free address of `Onward`), so it has one, and no
  other: where another one differed it would differ at the next address too, and there is a
  last one.
  `FitsIs` identifies `Onward` from the start of a block with the candidates of
  `KernelMemory`, and `SearchBlocksIs` does the same once more for the blocks.
- **Paths.** `PathConsolidate` decides about a segment by looking at its neighbours,
  `Meaning` walks. `Consolidated` follows both turn by turn, for paths of any length and
  any names (the run has paths of up to three segments): the two lists are the same after
  every turn at which no `..` comes next, and differ by the last name where one does.
- **The image.** The tools and the kernel agree on the format by way of `IInv`, which is
  what is true of an image that is not torn. `Named`: the taken slots are exactly the files
  and directories that were made, one slot each, with the name, the type and, as parent,
  the slot of the directory that the path says. It is not among the properties that the
  run checks, and all of them rest on it: a lookup, which goes through the slots segment by
  segment, comes to the slot of the path or to none (`ParentIs`, `GetIndexIs`). `Tidy`: the
  empty slots are behind all others, which is why `FsList` may end at the first one.
  `Placed`, `Apart`: data lie behind the index and do not overlap; a directory may
  have the offset 0. `Stored`: the bytes that were written to a file are where its entry
  says. An action either fills the first empty slot (`EntryAdded`) or gives an entry
  another place and size (`EntryRewritten`), and both need that the new data meet nobody
  else's; when they do, the image is torn by definition, and the case that has to be
  excluded is that this goes unseen.
- **Offsets that wrap.** `FindSpace` computes differences that wrap below 0 for a
  directory at offset 0 (`RoomByWrapping`: it always "finds" room there). `Late` bounds the
  ends of all entries by twice the image and a little more: `FindSpace` returns the end of
  the space as its start. `FindSpaceIs` shows that what is found is never in the header or
  the index, and ends below this bound or exactly where offsets wrap (`Reaches`);
  `FoundFree` that it has been compared with every entry. In the
  second case the storage takes the write, since its end is 0, and the image is torn, so
  `Late` survives. This uses the guard of `Boot`, that an image in memory is far smaller
  than 2^64.

Only model-checked: liveness (`ReadyRuns`, `ExitedIsReaped`, `SleepersWake`,
`TimersRun`), which is beyond this prover. Every other property of a passing run is also
a theorem. Two more are only proved: that allocations begin in available memory
(`StartsAvailable`), and that a file with room behind it grows in its place, whatever else
lies in the image (`RoomIsUsed`). The refuted claims of the next section are, of course, runs only.

## Findings

Runs that TLC refutes, each against a sentence of the repository:

1. `open_leak`, `NoLockOutlivesOwner` (`src/dispatcher/open-indices.c:192`). The walk
   removes an entry and then steps over the one that moved to its place, so a process
   that ends with two directories open leaves one locked for ever, with a pointer to
   its freed struct. `LeakBounded` says how much can be left.
2. `disp_flags`, `FlagsRestored` (`src/dispatcher/dispatcher.c:161`). `rflags` is
   saved with the registers and never restored.
3. `heap_split`, `BlocksApart` (`libc/stdlib/malloc.c:73`). The condition in front of
   "Otherwise, the block must be split" is the wrong way round. A much larger block is
   given whole, and one up to a header too large is split: the rest gets a size below
   zero, which is huge, and the `malloc` that takes it overlaps the next block; or its
   header overwrites the next one, or faults behind the heap.

Other disagreements that were met and that no run isolates: `KeyboardBufferGet`
(`src/devices/keyboard.c:93`) clears a slot behind the last one, so a buffer that was
full stays full and repeats its last key; "The exception occurred at non-process level, so
the kernel will be halted" (`src/cpu/idt-c.c:162`) stands behind `IdtGetLock`, so a CPU that
faults in a handler spins on its own lock and neither reports nor halts (`HaltIsFinal` has
this case); the second answer of an AP that comes too late is taken for that of the next one
(`src/cpu/apic/local.c:189`); entries of the memory tables are found by their address
(`src/memory/find.c:40`), which two allocations share when the first has size 0, so that
`free` or `realloc` of one can release the other;
`DispatcherProcessAddInitData` says "64-bit aligned" and adds `size % 8`, copies across the
end of the page into whatever frame follows (`InitDataHeld` says that this is the last
piece only), and asks for the same second page twice; `DispatcherProcessSetUpStack` maps one frame more than it allocates, which is the
next one in memory and often a page table of the process itself, and the stacks and TSSs
of the processors get a page too many in the same way;
`MemoryPagingSetPage` does not test the result of `malloc_align` for a table
(`src/memory/paging.c`), and replaces a page of 4 KB that is there; the kernel's own pages
are not in a process's `va`, so that only the choice of addresses keeps a file from being
loaded over them (a `TODO` of `src/dispatcher/new.c`; programs are linked at 0x10000000);
`p->data` names the file after it was freed when a set-up fails;
`KernelFunctionNewPage` calls its number of bytes "the number of new pages", and a
`malloc` of up to a header less than whole pages gets NULL each time and costs a page;
`DispatcherFormatElfDetect` rejects a file only if all four bytes of the magic differ;
`DispatcherProcessLoadAt` copies 4096 bytes less the offset for the first page however
short the file is; pages are never freed, although `alloc` is "Memory that must be
free'd upon process termination"; the deadline of `sleep`
is in units of 10000 ticks, a comment says 1000; `Idt66` records vector 26, an
exception (`disp_waits` includes the line, since the life cycle allows an exception
to end a process); `mov [IdtCallCs], rax` stores eight bytes in a variable of
two; `PathConsolidate` turns `/a/b/../../c` into `/a/c`; `FsList` of a directory
that failed leaves `directory_data` NULL, which `KernelFunctionDirectoryEntry` does
not expect. In the writing half of the file system, which nothing calls yet:
`FsNewIndex` looks up the whole new path instead of its directories and so works in the
root only; `Resize` and `FindSpace` compare one point of the new place with the other
entries, so that a file that grows may be put over another one; `FindSpace` finds room in
front of a directory, whose offset is 0, by wrapping below 0, and returns the end of the
space that it found (`FoundPlaceIsFree` is what holds of it); a write to a directory lands
at the image's header; and a write that fails leaves the entry enlarged.

Hazards without a property, since no text of the repository says what should happen and
what does is known: a full keyboard buffer (`src/devices/keyboard.c:93`); a path that
stays locked when it could not be listed (`src/function/directory-get.c:50`); an
allocation whose end lies behind its block (`src/memory/find.c:137`); allocations of size 0
(`src/memory/find.c:40`); a file that is put over another one
(`src/fs/hypnoticfs/hypnoticfs.c:361`); `..` behind `..` or
`.` in a path (`src/fs/path.c:72`); the page behind the stack (`src/dispatcher/new.c:41`); a
page table at address 0 (`src/memory/paging.c:194`, where the models stop). The models do
what the code does in each case, and the properties beside them say what they leave out.

Hazards that the models do not reach: with every pid in use the
search of `DispatcherProcessNew` never ends and keeps the kernel lock; most results of
`malloc` and `realloc` in the kernel are not tested; the frame for `iretq` is pushed on
the user stack (`src/cpu/idt-asm.nasm:284`) while programs are compiled with the red zone.

## Assumptions and abstractions

- The release build: `INFO` and `WARNING` are empty. In a debug build a failed search
  for memory prints a warning, and printing allocates memory.
- The memory map has no region that crosses `MEMORY_FLOOR` and is shorter than it;
  `BlockOf` keeps the wrap of its length, and with such a region `StartsAvailable`
  fails at once.
- `malloc` does not fail in `Dispatcher` and `OpenIndices`. Most callers do not test
  it; where a failure is handled the handling is modelled (`run_fails_late`).
- An AP whose second answer comes after the BSP has stopped waiting may be taken for the
  next one, and two APs may then be in the heap and on the start stack. `StartStackAlone`
  and `HeapAlone` do not exclude this, since the code does not: they count it.
- The second pass of the retry loop in `ApicLocalParseAcpi` returns failure
  whatever the AP does, and `Main` halts: the model has what the code does, and it is
  why a late first answer is harmless.
- In `ProcessMemory` process structs and the lists of a process take no frames of their
  own: the kernel's share is the copy of the file and one frame that comes and goes. A
  file takes one frame.
- `AreasAssumption`: the pages that a process can get lie apart from each other and from
  the kernel. The heap, the initialisation data (`0x1FFF0000`) and the stack
  (`0xFFFFFF0000`) have addresses of their own, the programs are linked at `0x10000000`
  (`src/modules/*/link.ld`) and the kernel lies in the first 5 MB (`src/src/link.ld`).
  `DispatcherProcessLoadAt` does not test what a file asks for: a page that the process
  has is refused, but nothing is said of the kernel's.
- `BootAssumption`: the kernel's code fills pages of 2 MB, since the code and what comes
  next are aligned to 2 MB (`src/src/link.ld`); and no page table of the kernel's own is
  lost at boot. `MemoryPagingSetPage` does not test its `malloc_align`; the models leave
  this case out at boot as they stop at it later.
- In `Paging` every table is reached through one entry only, as the code makes them, and
  the bits other than present, write, user and page size are left out, like the TLB: a
  process's tables are loaded anew each time it is dispatched.
- A process that ends by a fault or by exit is removed in the same step; what lies in
  between is in `Dispatcher`.
- The image lies in memory, so three times its size is less than 2^64 (`Width`). This is
  the guard of `Boot`, and it always holds in the run.
- `FreeFrames` assumes that a frame of the kernel is used from its first byte.
- All values of registers, keys, bytes, names and paths are tokens; the limits of 32
  characters for a name and 1000 for a path are left out.
- Small cases of the code that have no case of their own, because no property tells them
  apart: a device line goes to APIC id 0 as `uint8_t` (`src/cpu/apic/io.c:78`; the BSP in
  `DeviceInterrupt`); a `realloc` of the open indices that fails
  (`src/dispatcher/open-indices.c:100`); ends of blocks that wrap at 2^64
  (`src/memory/find.c:118`, `src/memory/new-block.c:163`); a type of memory that is not known
  (`src/memory/new-block.c:90`); the early return of `ApicLocalInit`
  (`src/cpu/apic/local.c:55`); a new stack of an AP that is NULL
  (`src/cpu/ap-start.c`); the character in front of an empty path
  (`src/fs/hypnoticfs/new-index.c:55`); an entry that `hypnoticfs-add` has written partly, or
  that only its last flush fails to write (`hypnoticfs-tools/hypnoticfs-add.c:243`); the
  size that `FsRead` gives to a read that does not begin at 0
  (`src/fs/hypnoticfs/read.c:39`); the page right behind the code, which
  `src/memory/paging.c:79` makes read-only too; a program that is not found or whose format
  is not detected, which leaves nothing behind.

## What is not modelled

- *Contents of loaded pages and of heap blocks, getcwd, chdir, write*: data. A buffer of
  a process that crosses a page is used as if its frames were contiguous
  (`DispatcherProcessGetPa`).
- *What happens behind a page table at address 0*, or in a torn heap or image: the models
  stop there, or allow anything.
- *Boot*: sequential; its results are the initial states. Multiboot parsing, the
  switch to long mode, the GDT, CPUID, MSRs and I/O ports are hardware set-up.
- *ACPI, I/O APIC, HPET, PCI*: input and output; the MADT walk is in `ApStart`, the
  lines and vectors in `Dispatcher`.
- *`src/lock.nasm`*: its only lock is taken and given back inside of one kernel
  function call, under the kernel lock.
- *Terminal, stdio and string functions, the programs, tests, memory-dump*: output,
  formatting and sequential clients. `Dispatcher` lets a process make any call.
- *I/O port bitmap*: nothing calls `DispatcherProcessAddIo`.

## The plan

Done: the modules above, in this order: `Dispatcher` (the core), its abstract
specification, `OpenIndices`, `KernelMemory`, `ApStart`, `HypnoticFS`, `ProcessMemory`,
`UserHeap`, `HypnoticFSWrite`, `Paging`; and the proofs of all safety properties that the
passing runs check, with the refinement of `ProcessLifecycle`.

Next, by importance:

1. A property for the buffer of the keyboard at its limit, once it is decided what a full
   buffer is meant to do (`src/devices/keyboard.c:93`).
2. Buffers of processes in `ProcessMemory` (`GET_PA` in read, getcwd, write, the
   directory functions) across pages, and what `LoadAt` copies.
3. One composition: the end of a process in `Dispatcher` with `OpenIndices`, to show
   that a leaked lock survives the reuse of its pid.

The runs stay within the sizes above.
