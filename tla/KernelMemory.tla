---------------------------- MODULE KernelMemory ----------------------------
(***************************************************************************)
(* The memory of the kernel: the blocks and the first memory table, made   *)
(* from the memory map at boot, and malloc, malloc_align, free and realloc *)
(* of the kernel.  Each runs to its end before the next (the callers hold  *)
(* the kernel lock, or are the only CPU at boot), so each is one action.   *)
(*                                                                         *)
(* The linked memory tables are one sequence of entries: the code always   *)
(* walks them from the first to the last.  A new table makes it longer.    *)
(***************************************************************************)
EXTENDS Integers, Sequences, FiniteSets

CONSTANTS
  MemoryMap,  \* from GRUB: a sequence of [addr, len, available]
  BootAreas,  \* the kernel, the modules and what GRUB left: a sequence of [addr, size]
  Pointers,   \* the pointers of the kernel that may hold an allocation
  Sizes,      \* the sizes that the kernel asks for
  PageSize,                                \* 4096; also MEMORY_TABLE_SKIP
  MEMORY_FLOOR,                            \* 0x100000
  WordSize,                                \* 2^64
  MEMORY_TABLE_INITIAL_ENTRIES,            \* 100
  MEMORY_TABLE_NEW_TABLE_ENTRIES,          \* 1000
  TableReserve,                            \* 10, the entries kept for a new table
  EntrySize, TableIndexSize, BlockSize     \* sizeof

SizeConstants == {MEMORY_FLOOR, EntrySize, TableIndexSize, BlockSize}

ASSUME SizesAssumption ==
  /\ Sizes \subseteq Nat /\ SizeConstants \subseteq Nat
  /\ {PageSize, WordSize} \subseteq Nat \ {0}
  /\ {MEMORY_TABLE_INITIAL_ENTRIES, MEMORY_TABLE_NEW_TABLE_ENTRIES, TableReserve}
       \subseteq Nat \ {0}

\* The reserve outlasts the two entries that a new table takes, and a new table is
\* not all reserve.
ASSUME ReserveAssumption ==
  TableReserve > 2 /\ MEMORY_TABLE_NEW_TABLE_ENTRIES >= TableReserve

ASSUME MemoryMapAssumption ==
  MemoryMap \in Seq([addr : Nat, len : Nat, available : BOOLEAN])

\* GRUB puts what it loads at different places.
ASSUME BootAreasAssumption ==
  /\ BootAreas \in Seq([addr : Nat, size : Nat])
  /\ \A i, j \in DOMAIN BootAreas : i # j =>
       \/ BootAreas[i].addr + BootAreas[i].size <= BootAreas[j].addr
       \/ BootAreas[j].addr + BootAreas[j].size <= BootAreas[i].addr

NULL == -1
Aligns == {"ALIGN_NONE", "ALIGN_4KB"}

VARIABLES
  blocks,  \* MemoryBlocks
  table,   \* the entries of all tables of MemoryTableIndices
  mapped,  \* MultibootCheck: the entries of the memory map that are done
  live,    \* what each pointer holds: NULL, or the address and size it asked for
  halted   \* a HALT was reached

vars == <<blocks, table, mapped, live, halted>>

Nothing == [addr |-> NULL, size |-> 0]
Unused  == [addr |-> 0, size |-> 0, used |-> FALSE]

Init ==
  /\ blocks = <<>>
  /\ table = <<>>
  /\ mapped = 0
  /\ live = [p \in Pointers |-> Nothing]
  /\ halted = FALSE

-----------------------------------------------------------------------------
(* The search for an address and for an entry.                             *)

\* Mutant: a block may begin inside another one.
IsFreeAtStart(t, addr, size) ==
  \A i \in DOMAIN t :
    t[i].used => addr # t[i].addr

MemoryIsFree(t, addr, size) ==
  \A i \in DOMAIN t :
    t[i].used => \/ addr + size < t[i].addr
                 \/ addr >= t[i].addr + t[i].size

\* The addresses of a block that the search looks at.
Candidates(t, align, block) ==
  IF align = "ALIGN_4KB"
  THEN IF block.start % PageSize # 0 THEN {}
       ELSE {block.start + k * PageSize :
               k \in {k \in 0..(block.length \div PageSize) :
                        k = 0 \/ k * PageSize < block.length}}
  ELSE {block.start} \cup
       {a \in {t[i].addr + t[i].size : i \in {i \in DOMAIN t : t[i].used}} :
          block.start < a /\ a < block.start + block.length}

Fits(t, size, align, k) ==
  {a \in Candidates(t, align, blocks[k]) :
     blocks[k].available /\ MemoryIsFree(t, a, size)}

\* The lowest address that fits in the first block that has one.  Only the start
\* of the allocation is compared with the end of the block.
Lowest(S) == {a \in S : \A b \in S : a <= b}

Spaces(t, size, align) ==
  UNION {Lowest(Fits(t, size, align, k)) :
         k \in Lowest({k \in DOMAIN blocks : Fits(t, size, align, k) # {}})}

OneOf(S) == IF S = {} THEN NULL ELSE CHOOSE a \in S : TRUE

MemoryFindSpace(t, size, align) == OneOf(Spaces(t, size, align))

\* The first entry that is not in use.
FirstUnused(t) ==
  {i \in DOMAIN t : ~t[i].used /\ \A j \in 1..(i - 1) : t[j].used}

WithEntry(t, i, addr, size) ==
  [t EXCEPT ![i] = [addr |-> addr, size |-> size, used |-> TRUE]]

\* Mutant: the reserve is one entry too small.
ReserveReachedLate(t) == \A i \in FirstUnused(t) : i > Len(t) - 2 + 1
\* An entry in use among the last of the last table was passed.
ReserveReached(t) == \A i \in FirstUnused(t) : i > Len(t) - TableReserve + 1

\* What malloc returns, and the table it leaves.
Result(t, addr, stopped) == [table |-> t, addr |-> addr, stopped |-> stopped]

\* Mutant: an allocation is noted although no address was found.
NoteUnchecked(t, addr, size) ==
  IF FirstUnused(t) = {} THEN Result(t, NULL, TRUE)
  ELSE Result(WithEntry(t, CHOOSE i \in FirstUnused(t) : TRUE, addr, size),
              addr, FALSE)
Note(t, addr, size) ==
  IF addr = NULL THEN Result(t, NULL, FALSE)
  ELSE IF FirstUnused(t) = {} THEN Result(t, NULL, TRUE)
  ELSE Result(WithEntry(t, CHOOSE i \in FirstUnused(t) : TRUE, addr, size),
              addr, FALSE)

\* __malloc_align while new_table_pending is set, or when MemoryAllocated finds an
\* entry before the reserve.
TakeEntry(t, size, align) == Note(t, MemoryFindSpace(t, size, align), size)

\* MemoryNewTable: without memory for the index its writes go to address 0 and
\* there is no new table; without memory for the entries the table is at address 0.
WithTable(entries) ==
  IF entries.stopped THEN entries
  ELSE Result(entries.table \o [i \in 1..MEMORY_TABLE_NEW_TABLE_ENTRIES |-> Unused],
              entries.addr, FALSE)

WithIndex(index) ==
  IF index.stopped \/ index.addr = NULL THEN index
  ELSE WithTable(TakeEntry(index.table, EntrySize * MEMORY_TABLE_NEW_TABLE_ENTRIES,
                           "ALIGN_NONE"))

MemoryNewTable(t) == WithIndex(TakeEntry(t, TableIndexSize, "ALIGN_NONE"))

\* The search starts again after MemoryNewTable, and the second time is a HALT.
Restart(r, size, align) ==
  IF r.stopped THEN r
  ELSE IF /\ MemoryFindSpace(r.table, size, align) # NULL
          /\ ReserveReached(r.table)
  THEN Result(r.table, NULL, TRUE)
  ELSE TakeEntry(r.table, size, align)

__malloc_align(t, size, align) ==
  IF MemoryFindSpace(t, size, align) # NULL /\ ReserveReached(t)
  THEN Restart(MemoryNewTable(t), size, align)
  ELSE TakeEntry(t, size, align)

\* Mutant: entries that are not in use are found as well.
MemoryFindAny(t, addr) ==
  {i \in DOMAIN t : t[i].addr = addr /\ \A j \in 1..(i - 1) : t[j].addr # addr}
\* The first entry in use with the address.
MemoryFind(t, addr) ==
  {i \in DOMAIN t :
     /\ t[i].used /\ t[i].addr = addr
     /\ \A j \in 1..(i - 1) : ~(t[j].used /\ t[j].addr = addr)}

Released(t, addr) ==
  [i \in DOMAIN t |->
     IF i \in MemoryFind(t, addr) THEN [t[i] EXCEPT !.used = FALSE] ELSE t[i]]

-----------------------------------------------------------------------------
(* MemoryNewBlock, for the entries of the memory map in their order.       *)

\* MEMORY_FLOOR is taken off the length wherever the entry begins.
BlockOf(e) ==
  [start |-> IF e.addr <= MEMORY_FLOOR THEN MEMORY_FLOOR ELSE e.addr,
   length |-> IF e.addr <= MEMORY_FLOOR THEN (e.len - MEMORY_FLOOR) % WordSize
              ELSE e.len,
   available |-> e.available]

BelowFloor(e) == e.addr + e.len <= MEMORY_FLOOR

FirstTableSize == EntrySize * MEMORY_TABLE_INITIAL_ENTRIES

\* MemoryNewBlock_CheckOverlap
Apart(addr, size, area) == \/ area.addr + area.size < addr
                           \/ area.addr > addr + size

\* The places for the first table, in steps of MEMORY_TABLE_SKIP.
TablePlaces(block) ==
  {a \in {block.start + k * PageSize : k \in 0..(block.length \div PageSize)} :
     /\ a + FirstTableSize < block.start + block.length
     /\ \A i \in DOMAIN BootAreas : Apart(a, FirstTableSize, BootAreas[i])}

FirstTable(place) ==
  [i \in 1..MEMORY_TABLE_INITIAL_ENTRIES |->
     IF i = 1 THEN [addr |-> place, size |-> FirstTableSize, used |-> TRUE]
     ELSE IF i <= Len(BootAreas) + 1
     THEN [addr |-> BootAreas[i - 1].addr, size |-> BootAreas[i - 1].size,
           used |-> TRUE]
     ELSE Unused]

FirstBlock(block) ==
  /\ blocks = <<>>
  /\ IF /\ block.available /\ TablePlaces(block) # {}
        /\ Len(BootAreas) < MEMORY_TABLE_INITIAL_ENTRIES
     THEN /\ blocks' = <<block>>
          /\ \E place \in TablePlaces(block) :
               /\ \A a \in TablePlaces(block) : place <= a
               /\ table' = FirstTable(place)
          /\ UNCHANGED halted
     ELSE halted' = TRUE /\ UNCHANGED <<blocks, table>>

\* Without memory for the struct the block is lost in writes to address 0.
LaterBlock(block) ==
  /\ blocks # <<>>
  /\ \E r \in {__malloc_align(table, BlockSize, "ALIGN_NONE")} :
       /\ table' = r.table
       /\ halted' = r.stopped
       /\ blocks' = IF r.addr = NULL THEN blocks ELSE Append(blocks, block)

MemoryNewBlock ==
  /\ ~halted /\ mapped < Len(MemoryMap)
  /\ mapped' = mapped + 1
  /\ LET e == MemoryMap[mapped + 1]
     IN  \/ BelowFloor(e) /\ UNCHANGED <<blocks, table, halted>>
         \/ ~BelowFloor(e) /\ FirstBlock(BlockOf(e))
         \/ ~BelowFloor(e) /\ LaterBlock(BlockOf(e))
  /\ UNCHANGED live

-----------------------------------------------------------------------------
Running == ~halted /\ mapped = Len(MemoryMap) /\ blocks # <<>>

Malloc(p, size, align) ==
  /\ Running /\ live[p] = Nothing
  /\ \E r \in {__malloc_align(table, size, align)} :
       /\ table' = r.table
       /\ halted' = r.stopped
       /\ live' = IF r.addr = NULL THEN live
                  ELSE [live EXCEPT ![p] = [addr |-> r.addr, size |-> size]]
  /\ UNCHANGED <<blocks, mapped>>

Free(p) ==
  /\ Running /\ live[p] # Nothing
  /\ table' = Released(table, live[p].addr)
  /\ live' = [live EXCEPT ![p] = Nothing]
  /\ UNCHANGED <<blocks, mapped, halted>>

\* The old memory is freed even if there is no new.
Realloc(p, size) ==
  /\ Running /\ live[p] # Nothing
  /\ \E r \in {__malloc_align(table, size, "ALIGN_NONE")} :
       /\ halted' = r.stopped
       /\ table' = IF r.stopped THEN r.table ELSE Released(r.table, live[p].addr)
       /\ live' = IF r.stopped THEN live
                  ELSE IF r.addr = NULL THEN [live EXCEPT ![p] = Nothing]
                  ELSE [live EXCEPT ![p] = [addr |-> r.addr, size |-> size]]
  /\ UNCHANGED <<blocks, mapped>>

Next ==
  \/ MemoryNewBlock
  \/ \E p \in Pointers, size \in Sizes :
       \/ \E align \in Aligns : Malloc(p, size, align)
       \/ Realloc(p, size)
  \/ \E p \in Pointers : Free(p)

Spec == Init /\ [][Next]_vars

-----------------------------------------------------------------------------
TableEntry == [addr : Nat, size : Nat, used : BOOLEAN]

\* The type of every variable.
TypeOK ==
  /\ blocks \in Seq([start : Nat, length : Nat, available : BOOLEAN])
  /\ table \in Seq(TableEntry)
  /\ mapped \in 0..Len(MemoryMap)
  /\ live \in [Pointers -> [addr : Nat \cup {NULL}, size : Sizes \cup {0}]]
  /\ halted \in BOOLEAN

DisjointIn(t) ==
  \A i, j \in DOMAIN t :
    i # j /\ t[i].used /\ t[j].used =>
      \/ t[i].addr + t[i].size <= t[j].addr
      \/ t[j].addr + t[j].size <= t[i].addr

\* No two entries in use overlap: neither two allocations, nor an allocation and
\* the kernel, a module, a memory table or another thing the kernel found at boot,
\* also when the search is broken off to make a new table out of the same memory.
Disjoint == DisjointIn(table)

\* free of a pointer that was not freed yet always finds an entry, and nothing stays
\* allocated but what pointers hold and what the kernel keeps for itself: the boot
\* areas, the structs of the blocks, and the memory tables with their indices.
Accounted ==
  LET InUse == {i \in DOMAIN table : table[i].used}
      Held  == {p \in Pointers : live[p] # Nothing}
      newTables == (Len(table) - MEMORY_TABLE_INITIAL_ENTRIES)
                     \div MEMORY_TABLE_NEW_TABLE_ENTRIES
  IN  ~halted /\ blocks # <<>> =>
        /\ \A p \in Held :
             Cardinality({q \in Held : live[q].addr = live[p].addr})
               <= Cardinality({i \in InUse : table[i].addr = live[p].addr})
        /\ Cardinality(InUse) <=
             Len(BootAreas) + Len(blocks) + 2 * newTables + Cardinality(Held)

\* Once the kernel runs, malloc stops it only if not even the index of a new memory
\* table can be allocated: the reserve of entries is enough for the two allocations
\* that MemoryNewTable makes.
TablesGrow ==
  halted /\ blocks # <<>> =>
    MemoryFindSpace(table, TableIndexSize, "ALIGN_NONE") = NULL
=============================================================================
