---------------------------- MODULE ProcessMemory ----------------------------
(***************************************************************************)
(* The memory of processes, as the kernel hands it out: the pages of the   *)
(* heap, of the initialisation data, of the loaded file and of the stack,  *)
(* and the page tables (module Paging).  Kernel functions run to their end *)
(* under the kernel lock, so each is one step.  The allocator of the       *)
(* kernel (module KernelMemory) appears as the owner of each page frame of *)
(* the physical memory.                                                    *)
(*                                                                         *)
(* A kernel function changes a record k: the owners, the process it works  *)
(* for, whether it goes on (ok) or has returned an error, and whether      *)
(* there was no frame for a page table (lost): the table is then put at    *)
(* address 0, and what the processor makes of it is left out.              *)
(***************************************************************************)
EXTENDS Paging, Sequences, FiniteSetsExt, SequencesExt, TLC

CONSTANTS
  Processes,      \* bound: the calls that make a process
  FirstFrame,     \* the frames of the physical memory that are free when
  FrameCount,     \* processes are made, without the kernel's page tables
  PageSize,       \* 4096
  Alignment,      \* 8, also sizeof(char *)
  Calls,          \* what may be run: [kind, segments, sizes], the last being the
                  \* sizes of the name and the arguments, with their ends (none for
                  \* the first process)
  KernelPages,    \* the image of the kernel, and the TSSs and stacks of the APs
  TextPages,      \* the kernel's code
  TopPage,        \* the end of the last memory block
  DevicePages,    \* the local APIC and the HPET
  AreaStart       \* where the areas of a process begin

\* What DispatcherFormatElfDetect and the checks after it make of a file: the first
\* kind can be run, the second has no entry point, the last halts the machine.
FileKinds == {"elf", "no entry", "unsupported", "malformed elf"}

Areas == {"heap", "init", "program", "stack"}

KernelOwners == {"free", "kernel", "kernel data"}
Owners == KernelOwners \cup Processes

ASSUME MemoryAssumption ==
  /\ KernelOwners \cap Processes = {}
  /\ {FirstFrame, FrameCount, PageSize, Alignment} \subseteq Nat \ {0}
  /\ KernelPages \subseteq 1..(FirstFrame - 1) /\ TextPages \subseteq KernelPages
  /\ TopPage \in Nat /\ TopPage >= FirstFrame + FrameCount /\ DevicePages \in Seq(Nat)
  /\ AreaStart \in [Areas -> Nat]
  /\ \A call \in Calls :
       /\ call.kind \in FileKinds
       /\ call.segments \in Seq([va : Nat, file : Nat, memory : Nat])
       /\ call.sizes \in Seq(Nat \ {0})

VARIABLES
  owner,    \* who has each frame: "free", "kernel" or a process
  process,  \* the structs
  halted    \* a HALT was reached, or a table is lost

memoryVars == <<owner, process, halted>>

NULL == 0
Frames == FirstFrame..(FirstFrame + FrameCount - 1)

\* An absent struct.  A page is an area and a number in it; va maps pages to frames.
\* args is what AddInitData has written: [at, size, frame] for each call.
NoProcess == [status |-> "none", va |-> <<>>, tables |-> <<>>, heap_size |-> 0, init_ptr |-> 0,
              args |-> <<>>, data |-> NULL]

-----------------------------------------------------------------------------
(* One operation after the other.                                          *)

\* Nothing follows a failure.
AndThen(k, op(_)) == IF k.ok THEN op(k) ELSE k

ForEach(k, seq, op(_, _)) ==
  LET done[n \in 0..Len(seq)] == IF n = 0 THEN k ELSE op(done[n - 1], seq[n])
  IN  done[Len(seq)]

UntilFailure(k, seq, op(_, _)) ==
  ForEach(k, seq, LAMBDA s, x : IF s.ok THEN op(s, x) ELSE s)

-----------------------------------------------------------------------------
(* Pages.                                                                  *)

\* malloc_align(4096, ALIGN_4KB) takes the lowest place, and none that ends where
\* another allocation begins (MemoryIsFree compares with <).
FreeFrames(o) ==
  {f \in Frames : o[f] = "free" /\ (f + 1 \in Frames => o[f + 1] = "free")}

\* Mutant: malloc in place of malloc_align, and the entry has room for whole frames.
MakeTableUnaligned(k, who, va, n) ==
  LET free == FreeFrames(k.owner)
      frame == Min(free)
  IN  IF free = {} THEN [k EXCEPT !.lost = TRUE]
      ELSE [k EXCEPT !.owner[frame] = who,
                     !.proc.tables = WithTable(@, va, n, frame - 1)]

MakeTable(k, who, va, n) ==
  LET free == FreeFrames(k.owner)
      frame == Min(free)
  IN  IF free = {} THEN [k EXCEPT !.lost = TRUE]
      ELSE [k EXCEPT !.owner[frame] = who,
                     !.proc.tables = WithTable(@, va, n, frame)]

\* The tables on the way are made first.
MemoryPagingSetPage(k, who, va, frame, flags, size) ==
  LET missing == Missing(k.proc.tables, va, size)
      Made(s, n) == IF n \in missing THEN MakeTable(s, who, va, n) ELSE s
      way == Made(Made(Made(k, 1), 2), 3)
  IN  IF Refused(k.proc.tables, va, frame, size) THEN [k EXCEPT !.ok = FALSE]
      ELSE [way EXCEPT !.proc.tables = WithPage(@, va, frame, flags, size)]

MemoryPagingSetPageImitate(k, who, va, flags, size) ==
  MemoryPagingSetPage(k, who, va, va, flags, size)

AddressOfPage(page) == AreaStart[page[1]] + page[2]

\* INIT_DATA_FLAGS for the initialisation data.
FlagsOf(page) == IF page[1] = "init" THEN {"user"} ELSE {"rw", "user"}

DispatcherProcessMap(k, p, page, frame) ==
  IF page \in DOMAIN k.proc.va
  THEN [k EXCEPT !.ok = FALSE]
  ELSE MemoryPagingSetPage([k EXCEPT !.proc.va = WithEntry(@, page, frame)], p,
                           AddressOfPage(page), frame, FlagsOf(page), 4)

\* A frame that cannot be mapped is given back.
DispatcherProcessAllocatePage(k, p, page) ==
  LET free == FreeFrames(k.owner)
      frame == Min(free)
      mapped == DispatcherProcessMap([k EXCEPT !.owner[frame] = p], p, page, frame)
  IN  IF free = {} THEN [k EXCEPT !.ok = FALSE]
      ELSE IF mapped.ok THEN mapped
      ELSE [mapped EXCEPT !.owner[frame] = "free"]

\* The pages before a failure are kept.
AllocatePages(k, p, pages) ==
  UntilFailure(k, pages, LAMBDA s, page : DispatcherProcessAllocatePage(s, p, page))

\* The number of pages that is made of a number of bytes.
NewPages(count) == [i \in 1..(count \div PageSize + 1) |-> i]

\* Mutant: the heap grows before it is known whether there is a page.
NewPageEarly(k, p, count) ==
  UntilFailure(k, NewPages(count), LAMBDA s, i :
    DispatcherProcessAllocatePage([s EXCEPT !.proc.heap_size = @ + 1], p,
                                  <<"heap", s.proc.heap_size>>))

\* count is a number of bytes, whatever the comment on it says.
KernelFunctionNewPage(k, p, count) ==
  UntilFailure(k, NewPages(count), LAMBDA s, i :
    AndThen(DispatcherProcessAllocatePage(s, p, <<"heap", s.proc.heap_size>>),
            LAMBDA t : [t EXCEPT !.proc.heap_size = @ + 1]))

-----------------------------------------------------------------------------
(* Initialisation data.                                                    *)

\* Mutant: the next data begin at the last aligned place.
AdvanceDown(at, size) == ((at + size) \div Alignment) * Alignment

\* The remainder, not what is missing to the next aligned place, is added.
Advance(at, size) == at + size + (size % Alignment)

GetPa(proc, at) ==
  LET page == <<"init", at \div PageSize>>
  IN  IF page \in DOMAIN proc.va THEN proc.va[page] ELSE NULL

\* The physical address is taken before a second page is made, and the data are
\* copied there in one piece.  init_data_size stays at one page.
DispatcherProcessAddInitData(k, p, size) ==
  LET at == k.proc.init_ptr
      room == IF at + size <= PageSize THEN k
              ELSE DispatcherProcessAllocatePage(k, p, <<"init", 1>>)
  IN  AndThen(room, LAMBDA s :
        [s EXCEPT !.proc.init_ptr = Advance(at, size),
                  !.proc.args = Append(@, [at |-> at, size |-> size,
                                           frame |-> GetPa(k.proc, at)])])

AddArguments(k, p, sizes) ==
  UntilFailure(k, Append(sizes, Len(sizes) * Alignment),
               LAMBDA s, size : DispatcherProcessAddInitData(s, p, size))

-----------------------------------------------------------------------------
(* The tables that the kernel makes for itself and for a process.          *)

\* boot.nasm: the first GB, with tables in the image of the kernel.
BootTables ==
  [x \in {<<n, 0>> : n \in 0..2} \cup {<<3, i>> : i \in 0..(FanOut - 1)} |->
    IF x[1] < 3 THEN Entry(NULL, {"rw"}, FALSE) ELSE Entry(x[2] * FanOut, {"rw"}, TRUE)]

\* The kernel's tables, for addresses that are not in them yet.
Imitated(k, va, size) ==
  IF MemoryPagingPagePresent(k.proc.tables, va) # None THEN k
  ELSE MemoryPagingSetPageImitate(k, "kernel", va, {"rw"}, size)

\* The rest of the memory in pages of 2 MB; the kernel's code cannot be written.
MemoryPagingInit(k) ==
  LET pages == [i \in 1..(TopPage \div FanOut + 1) |-> (i - 1) * FanOut]
      text == {i * FanOut : i \in Up(Min(TextPages))..Up(Max(TextPages))}
  IN  ForEach(ForEach(k, pages, LAMBDA s, va : Imitated(s, va, 3)), pages, LAMBDA s, va :
        IF va \notin text THEN s
        ELSE [s EXCEPT !.proc.tables = MemoryPagingPageChangeFlags(@, va, {"rw"}, {})])

\* What the kernel has when the first process is made.
Booted ==
  ForEach(MemoryPagingInit([owner |-> [f \in Frames |-> "free"],
                            proc |-> [tables |-> BootTables], ok |-> TRUE, lost |-> FALSE]),
          DevicePages, LAMBDA s, va : Imitated(s, va, 4))

\* The kernel's code fills pages of 2 MB (link.ld), and there is a frame for each of the
\* kernel's own page tables: a lost one is left out here as well.
ASSUME BootAssumption ==
  /\ TextPages # {}
  /\ \A page \in 0..TopPage :
       page \in TextPages <=> Up(page) \in Up(Min(TextPages))..Up(Max(TextPages))
  /\ ~Booted.lost

MemoryInit ==
  /\ owner = Booted.owner
  /\ process = [p \in Processes |-> NoProcess]
  /\ halted = FALSE

\* Every address space has the kernel's own pages.
MemoryPagingNewPD(k, p) ==
  ForEach(MakeTable(k, p, 0, 0), [i \in 1..(FirstFrame - 1) |-> i], LAMBDA s, va :
    IF va \notin KernelPages THEN s
    ELSE MemoryPagingSetPageImitate(s, p, va, IF va \in TextPages THEN {} ELSE {"rw"}, 4))

-----------------------------------------------------------------------------
(* A new process.                                                          *)

\* The result for the page of the heap is ignored; the page of the data is looked
\* for in the same memory.
DispatcherProcessNew(k, p, sizes) ==
  LET pd == MemoryPagingNewPD([k EXCEPT !.proc.heap_size = 1], p)
      heap == DispatcherProcessAllocatePage(pd, p, <<"heap", 0>>)
      init == DispatcherProcessAllocatePage([heap EXCEPT !.ok = TRUE], p, <<"init", 0>>)
  IN  AndThen(init, LAMBDA s : AddArguments(s, p, sizes))

\* A segment gets the page of the address after its last byte as well.
SegmentPages(segment) ==
  LET first == segment.va \div PageSize
      last  == (segment.va + segment.memory) \div PageSize
  IN  [i \in 1..(last - first + 1) |-> <<"program", first + i - 1>>]

\* Every page that a process can get.  DispatcherProcessCheckVa looks for an address
\* among the pages of a process; here a page is looked for by its name, which is the
\* same as long as the areas lie apart.  Nothing is loaded over the kernel.
PagesUsed ==
  {<<"heap", n>> : n \in 0..FrameCount} \cup {"init", "stack"} \X {0, 1}
    \cup UNION {Range(SegmentPages(segment)) :
                  segment \in UNION {Range(call.segments) : call \in Calls}}

ASSUME AreasAssumption ==
  \A page \in PagesUsed :
    /\ AddressOfPage(page) \notin KernelPages
    /\ \A other \in PagesUsed \ {page} : AddressOfPage(other) # AddressOfPage(page)

DispatcherProcessLoadAt(k, p, segment) ==
  IF segment.memory \div PageSize < segment.file \div PageSize
  THEN [k EXCEPT !.ok = FALSE]
  ELSE AllocatePages(k, p, SegmentPages(segment))

DispatcherFormatElfSetUp(k, p, segments) ==
  UntilFailure(k, segments, LAMBDA s, segment : DispatcherProcessLoadAt(s, p, segment))

\* Mutant: one more page.
SetUpStackLonger(k, p) ==
  IF FreeFrames(k.owner) = {} THEN [k EXCEPT !.ok = FALSE]
  ELSE LET frame == Min(FreeFrames(k.owner))
           first == DispatcherProcessMap([k EXCEPT !.owner[frame] = p], p,
                                         <<"stack", 0>>, frame)
           second == DispatcherProcessMap(first, p, <<"stack", 1>>, frame + 1)
       IN  DispatcherProcessMap(second, p, <<"stack", 2>>, frame + 2)

\* A stack of one page is allocated; size / 4096 + 1 = 2 pages are mapped.
DispatcherProcessSetUpStack(k, p) ==
  IF FreeFrames(k.owner) = {} THEN [k EXCEPT !.ok = FALSE]
  ELSE LET frame == Min(FreeFrames(k.owner))
           first == DispatcherProcessMap([k EXCEPT !.owner[frame] = p], p,
                                         <<"stack", 0>>, frame)
       IN  DispatcherProcessMap(first, p, <<"stack", 1>>, frame + 1)

-----------------------------------------------------------------------------
(* What the kernel does with processes.                                    *)

Kernel(p) == [owner |-> owner, proc |-> process[p], ok |-> TRUE, lost |-> FALSE]

Finish(k, p, status) ==
  /\ halted' = k.lost
  /\ owner' = k.owner
  /\ process' = [process EXCEPT ![p] = [k.proc EXCEPT !.status = status]]

\* A struct that cannot be completed keeps naming the file.
FreesFile(k, frame) == [k EXCEPT !.owner[frame] = "free"]

\* What is made of the file, once there is a struct.
SetUp(p, call, file, k) ==
  \/ /\ call.kind = "malformed elf"
     /\ halted' = TRUE
     /\ UNCHANGED <<owner, process>>
  \/ /\ call.kind \in {"elf", "no entry"}
     /\ \E loaded \in {DispatcherFormatElfSetUp(k, p, call.segments)} :
        \E whole \in {AndThen(loaded, LAMBDA s : DispatcherProcessSetUpStack(s, p))} :
          \/ /\ call.kind = "no entry"
             /\ Finish(FreesFile(loaded, file), p, "lost")
          \/ /\ call.kind = "elf" /\ ~whole.ok
             /\ Finish(FreesFile(whole, file), p, "lost")
          \/ /\ call.kind = "elf" /\ whole.ok
             /\ Finish(whole, p, "running")

\* The file is read into a frame of the kernel, which a process keeps as p->data.  A
\* process that cannot be completed is left with its pages ("lost").  A file of an
\* unsupported kind is never freed, and there is no struct ("refused").
DispatcherProcessNewFromFormat(p, call) ==
  /\ ~halted /\ process[p].status = "none"
  /\ FreeFrames(owner) # {}
  /\ \E file \in {Min(FreeFrames(owner))} :
     LET read == [Kernel(p) EXCEPT !.owner[file] = "kernel"]
     IN  \/ /\ call.kind = "unsupported"
            /\ owner' = read.owner
            /\ process' = [process EXCEPT ![p].status = "refused"]
            /\ UNCHANGED halted
         \/ /\ call.kind # "unsupported"
            /\ \E new \in {DispatcherProcessNew(read, p, call.sizes)} :
                 IF new.ok THEN SetUp(p, call, file, [new EXCEPT !.proc.data = file])
                 ELSE Finish(FreesFile(new, file), p, "lost")

\* DispatcherProcessDone frees the struct, and none of the memory it names.
End(k) == [k EXCEPT !.proc.va = <<>>, !.proc.tables = <<>>, !.proc.data = NULL]

\* The rest of the kernel takes a frame and gives it back.
KernelTakes ==
  /\ ~halted /\ FreeFrames(owner) # {}
  /\ owner' = [owner EXCEPT ![Min(FreeFrames(owner))] = "kernel data"]
  /\ \A f \in Frames : owner[f] # "kernel data"
  /\ UNCHANGED <<process, halted>>

KernelReturns ==
  /\ ~halted
  /\ \E f \in Frames : /\ owner[f] = "kernel data"
                       /\ owner' = [owner EXCEPT ![f] = "free"]
  /\ UNCHANGED <<process, halted>>

=============================================================================
