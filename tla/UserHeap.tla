------------------------------- MODULE UserHeap -------------------------------
(***************************************************************************)
(* The heaps that malloc, calloc, free and realloc of libc keep in the     *)
(* pages of the processes (module ProcessMemory), from the start of a      *)
(* process to its end.                                                     *)
(*                                                                         *)
(* A heap is its blocks in the order of their addresses, each with a       *)
(* header of HeaderSize bytes in front of it.  A size below 0 stands for   *)
(* one that has wrapped: huge when it is compared, and adding it wraps     *)
(* back.  When headers have been overwritten or blocks overlap, what the   *)
(* heap contains is undefined: the process may then do anything that       *)
(* touches its own memory ("torn").                                        *)
(***************************************************************************)
EXTENDS ProcessMemory

CONSTANTS
  Pointers,      \* the pointers of a program that may hold a block
  Sizes,         \* the sizes it asks for
  HeaderSize,    \* 24, sizeof(malloc_entry_t)
  HeaderFields,  \* 17, up to the end of its last field
  HeapBound      \* bound: a heap of so many pages is not asked for more

ASSUME HeapAssumption ==
  /\ Sizes \subseteq Nat \ {0}
  /\ {HeaderSize, HeaderFields, HeapBound} \subseteq Nat \ {0}
  /\ HeaderFields <= HeaderSize /\ HeaderSize < PageSize

VARIABLES
  heap,   \* heap[p]: the blocks, none before the first malloc
  held    \* held[p][x]: the address and the size that was asked for

vars == <<owner, process, halted, heap, held>>

Nothing == [at |-> 0, size |-> 0]
NoPointers == [x \in Pointers |-> Nothing]

Init ==
  /\ MemoryInit
  /\ heap = [p \in Processes |-> <<>>]
  /\ held = [p \in Processes |-> NoPointers]

-----------------------------------------------------------------------------
(* The blocks of one heap.                                                 *)

Block(size, used) == [size |-> size, used |-> used]

\* How many bytes the first n blocks take, with their headers.
Ends(blocks) ==
  LET end[n \in 0..Len(blocks)] ==
        IF n = 0 THEN 0 ELSE end[n - 1] + HeaderSize + blocks[n].size
  IN  end

Extent(blocks) == Ends(blocks)[Len(blocks)]

\* The address of block i.
AddressOf(blocks, i) == Ends(blocks)[i - 1] + HeaderSize

\* The block that fills so many bytes.
SizeWithin(bytes) == bytes - HeaderSize

\* On the first call the heap is one free block.
Opened(p) ==
  IF heap[p] = <<>>
  THEN <<Block(SizeWithin(process[p].heap_size * PageSize), FALSE)>>
  ELSE heap[p]

Fitting(blocks, size) ==
  {i \in DOMAIN blocks : /\ ~blocks[i].used
                         /\ blocks[i].size < 0 \/ blocks[i].size >= size}

\* The block is given as it is.  malloc takes a block that is much too large for one
\* that cannot be split.
GivenWhole(block, size) ==
  \/ block.size < 0
  \/ block.size = size
  \/ block.size > size + HeaderSize

Split(blocks, i, size) ==
  SubSeq(blocks, 1, i - 1)
    \o <<Block(size, TRUE), Block(blocks[i].size - size - HeaderSize, FALSE)>>
    \o SubSeq(blocks, i + 1, Len(blocks))

\* Mutant: a block of the exact size stays free.
TakeUnmarked(blocks, i, size) ==
  IF blocks[i].size = size THEN blocks
  ELSE IF GivenWhole(blocks[i], size) THEN [blocks EXCEPT ![i].used = TRUE]
  ELSE Split(blocks, i, size)

Take(blocks, i, size) ==
  IF GivenWhole(blocks[i], size) THEN [blocks EXCEPT ![i].used = TRUE]
  ELSE Split(blocks, i, size)

\* The fields of the header of the second part reach beyond block i.
Overwrites(blocks, i, size) ==
  /\ ~GivenWhole(blocks[i], size)
  /\ blocks[i].size - size < HeaderFields

\* What taking block i leads to.  The header lies beyond the pages of the heap
\* ("fault"), on what comes next, or the block is a header's width too large.
Outcome(blocks, i, size, heap_size) ==
  IF blocks[i].size < 0 THEN "torn"
  ELSE IF ~Overwrites(blocks, i, size) THEN "given"
  ELSE IF i = Len(blocks) /\ Extent(blocks) = heap_size * PageSize THEN "fault"
  ELSE "torn"

-----------------------------------------------------------------------------
(* The calls.                                                              *)

\* A block is looked for, and once more after the heap has grown by what the kernel
\* calls the new end of the heap.
FirstFitting(blocks, size) == Min(Fitting(blocks, size))

GrownBy(blocks, heap_size) ==
  Append(blocks, Block(SizeWithin(heap_size * PageSize - Extent(blocks)), FALSE))

Answer(k, blocks, at, outcome) ==
  [k |-> k, blocks |-> blocks, at |-> at, outcome |-> outcome]

TakeFirst(k, blocks, size) ==
  LET i == FirstFitting(blocks, size)
  IN  Answer(k, Take(blocks, i, size), AddressOf(blocks, i),
             Outcome(blocks, i, size, k.proc.heap_size))

malloc(p, size) ==
  LET blocks == Opened(p)
      Again(k) ==
        LET grown == GrownBy(blocks, k.proc.heap_size)
        IN  IF ~k.ok THEN Answer(k, blocks, NULL, "null")
            ELSE IF Fitting(grown, size) # {} THEN TakeFirst(k, grown, size)
            ELSE Answer(k, grown, NULL, "null")
  IN  IF Fitting(blocks, size) # {} THEN TakeFirst(Kernel(p), blocks, size)
      ELSE Again(KernelFunctionNewPage(Kernel(p), p, size))

\* free: the block at this address.
Freed(blocks, at) ==
  [i \in DOMAIN blocks |->
     IF AddressOf(blocks, i) = at THEN Block(blocks[i].size, FALSE) ELSE blocks[i]]

Running(p) == ~halted /\ process[p].status = "running"

Asks(p) == process[p].heap_size < HeapBound

\* A process ends: KernelFunctionExit or an exception, and then DispatcherProcessDone.
EndWith(k, p) ==
  /\ Finish(End(k), p, "ended")
  /\ heap' = [heap EXCEPT ![p] = <<>>]
  /\ held' = [held EXCEPT ![p] = NoPointers]

\* What every outcome but a block in good order does.
Otherwise(p, x, size, r) ==
  \/ /\ r.outcome = "null"
     /\ Finish(r.k, p, "running")
     /\ heap' = [heap EXCEPT ![p] = r.blocks]
     /\ UNCHANGED held
  \/ /\ r.outcome = "torn"
     /\ Finish(r.k, p, "torn")
     /\ heap' = [heap EXCEPT ![p] = <<>>]
     /\ held' = [held EXCEPT ![p][x] = [at |-> r.at, size |-> size]]
  \/ /\ r.outcome = "fault"
     /\ EndWith(r.k, p)

\* calloc is malloc and memset.
Malloc(p, x, size) ==
  /\ Running(p) /\ Asks(p) /\ held[p][x] = Nothing
  /\ \E r \in {malloc(p, size)} :
       \/ /\ r.outcome = "given"
          /\ Finish(r.k, p, "running")
          /\ heap' = [heap EXCEPT ![p] = r.blocks]
          /\ held' = [held EXCEPT ![p][x] = [at |-> r.at, size |-> size]]
       \/ Otherwise(p, x, size, r)

Free(p, x) ==
  /\ Running(p) /\ held[p][x] # Nothing
  /\ heap' = [heap EXCEPT ![p] = Freed(@, held[p][x].at)]
  /\ held' = [held EXCEPT ![p][x] = Nothing]
  /\ UNCHANGED <<owner, process, halted>>

\* A failure keeps the block; otherwise it is copied and freed.
Realloc(p, x, size) ==
  /\ Running(p) /\ Asks(p) /\ held[p][x] # Nothing
  /\ \E r \in {malloc(p, size)} :
       \/ /\ r.outcome = "given"
          /\ Finish(r.k, p, "running")
          /\ heap' = [heap EXCEPT ![p] = Freed(r.blocks, held[p][x].at)]
          /\ held' = [held EXCEPT ![p][x] = [at |-> r.at, size |-> size]]
       \/ Otherwise(p, x, size, r)

\* The program of a torn process goes on with arbitrary calls.
Torn(p) ==
  /\ ~halted /\ process[p].status = "torn" /\ Asks(p)
  /\ \E size \in Sizes : \E k \in {KernelFunctionNewPage(Kernel(p), p, size)} :
       Finish(k, p, "torn")
  /\ UNCHANGED <<heap, held>>

Start(p) ==
  /\ \E call \in Calls : DispatcherProcessNewFromFormat(p, call)
  /\ UNCHANGED <<heap, held>>

Exit(p) ==
  /\ ~halted /\ process[p].status \in {"running", "torn"}
  /\ EndWith(Kernel(p), p)

Next ==
  \/ \E p \in Processes :
       \/ Start(p) \/ Exit(p) \/ Torn(p)
       \/ \E x \in Pointers : Free(p, x)
       \/ \E x \in Pointers, size \in Sizes : Malloc(p, x, size) \/ Realloc(p, x, size)
  \/ (KernelTakes \/ KernelReturns) /\ UNCHANGED <<heap, held>>

Spec == Init /\ [][Next]_vars

-----------------------------------------------------------------------------
(* Properties.                                                             *)

Statuses == {"none", "refused", "lost", "running", "torn", "ended"}

\* The structs, the heaps and the pointers have the values that the code can give
\* them: pages lie in known areas, and frames in the memory or just after it.
TypeOK ==
  /\ owner \in [Frames -> Owners]
  /\ halted \in BOOLEAN
  /\ DOMAIN process = Processes
  /\ \A p \in Processes :
       /\ process[p].status \in Statuses
       /\ {process[p].heap_size, process[p].init_ptr} \subseteq Nat
       /\ process[p].data \in {NULL} \cup Frames
       /\ \A page \in DOMAIN process[p].va :
            /\ page[1] \in Areas /\ page[2] \in Nat
            /\ process[p].va[page] \in Frames \cup {FirstFrame + FrameCount}
  /\ heap \in [Processes -> Seq([size : Int, used : BOOLEAN])]
  /\ held \in [Processes -> [Pointers -> [at : Nat, size : {0} \cup Sizes]]]

Alive(p) == process[p].status \in {"running", "torn"}

\* The frames of the page tables of a process.
TableFrames(p) ==
  {process[p].tables[x].frame : x \in {y \in DOMAIN process[p].tables :
                                          ~process[p].tables[y].page}}

\* The second page of a stack maps a frame that was not allocated for it.
BeyondStack == <<"stack", 1>>

\* A frame that a process can reach is its own, under one address only, and nobody
\* else's, whatever processes failed, ended or left behind; its file stays with the
\* kernel.  The page beyond the stack (DispatcherProcessSetUpStack) is the one
\* exception.
PagesPrivate ==
  \A p \in Processes : LET va == process[p].va
                           tables == TableFrames(p) IN
    /\ \A a \in DOMAIN va \ {BeyondStack} :
         /\ owner[va[a]] = p
         /\ \A b \in DOMAIN va \ {a, BeyondStack} : va[a] # va[b]
         /\ va[a] \notin tables
    /\ \A f \in tables : owner[f] = p
    /\ Alive(p) => owner[process[p].data] = "kernel"

UserPages(p) == {AddressOfPage(page) : page \in DOMAIN process[p].va}

KernelReaches ==
  \A page \in (0..TopPage) \cup Range(DevicePages) :
    LET leads == Leads(Booted.proc.tables, page)
    IN  leads.frame = page /\ ("rw" \in leads.flags <=> page \notin TextPages)

\* What the kernel notes of the pages of a process and what its page tables say are
\* the same: every page leads to its frame, with the rights that it was given; the
\* kernel's own pages are there for the kernel only; and nothing else is.  The kernel
\* can reach all memory and the devices, and cannot write over its code.
TablesAgree ==
  /\ ~halted => \A p \in Processes :
       LET tables == process[p].tables
       IN  /\ \A page \in DOMAIN process[p].va :
                Leads(tables, AddressOfPage(page)) =
                  [frame |-> process[p].va[page], flags |-> FlagsOf(page)]
           /\ Alive(p) => \A page \in KernelPages :
                Leads(tables, page) =
                  [frame |-> page, flags |-> IF page \in TextPages THEN {} ELSE {"rw"}]
           /\ {x \in DOMAIN tables : tables[x].page}
                \subseteq {At(page, 4) : page \in KernelPages \cup UserPages(p)}
  /\ KernelReaches

\* heap_size counts the mapped pages of the heap, after calls of KernelFunctionNewPage
\* that failed half-way too, and libc's view of the heap ends at the end of a page that
\* is mapped.
HeapMapped ==
  \A p \in Processes : Alive(p) =>
    /\ \A n \in 0..FrameCount :
         <<"heap", n>> \in DOMAIN process[p].va <=> n < process[p].heap_size
    /\ process[p].status = "running" =>
         /\ Extent(heap[p]) <= process[p].heap_size * PageSize
         /\ Extent(heap[p]) % PageSize = 0

\* What AddInitData has written for a process that could be made: its page of
\* initialisation data is its own, all that begins there is copied to that page, the
\* pieces lie one after the other, and none but the last goes on past the end of the
\* page.  (A second piece that does asks for the second page again, which is refused,
\* and the process is not made.)
InitDataHeld ==
  \A p \in Processes : Alive(p) =>
    LET args == process[p].args
        va   == process[p].va
        page == <<"init", 0>>
    IN  /\ page \in DOMAIN va /\ owner[va[page]] = p
        /\ \A i \in DOMAIN args :
             /\ args[i].at < PageSize => args[i].frame = va[page]
             /\ i < Len(args) => args[i].at + args[i].size <= PageSize
             /\ \A j \in 1..(i - 1) : args[j].at + args[j].size <= args[i].at

\* x and y of a program share no byte.
Apart(p, x, y) ==
  \/ held[p][x].at + held[p][x].size <= held[p][y].at
  \/ held[p][y].at + held[p][y].size <= held[p][x].at

\* As long as no header was overwritten, the blocks in use are exactly those that the
\* program holds, each with the size that it asked for, in mapped memory, and no two
\* of them overlap, across splits, growth, failures and realloc.
PointersHold ==
  \A p \in Processes : process[p].status = "running" =>
    LET holders == {x \in Pointers : held[p][x] # Nothing}
    IN  /\ \A x \in holders :
             /\ \E i \in DOMAIN heap[p] : /\ AddressOf(heap[p], i) = held[p][x].at
                                          /\ heap[p][i].used
                                          /\ heap[p][i].size >= held[p][x].size
             /\ held[p][x].at + held[p][x].size <= process[p].heap_size * PageSize
             /\ \A y \in holders \ {x} : Apart(p, x, y)
        /\ \A i \in DOMAIN heap[p] : heap[p][i].used =>
             \E x \in holders : held[p][x].at = AddressOf(heap[p], i)

\* No two blocks that a program holds overlap.  The condition in front of "Otherwise,
\* the block must be split" (malloc.c) is the wrong way round, so blocks are split that
\* have no room for another header.
BlocksApart ==
  \A p \in Processes : \A x, y \in Pointers :
    x # y /\ held[p][x] # Nothing /\ held[p][y] # Nothing => Apart(p, x, y)
=============================================================================
