------------------------- MODULE KernelMemorySearch -------------------------
(***************************************************************************)
(* The loops of MemoryFindSpace as the code runs them, address by address, *)
(* against the lowest address that KernelMemory defines.                   *)
(***************************************************************************)
EXTENDS KernelMemory

\* MemoryIsFree stops at the first entry that overlaps and returns its end.
FirstOverlapEnd(addr, size) ==
  LET Overlaps(i) == /\ table[i].used
                     /\ addr + size >= table[i].addr
                     /\ addr < table[i].addr + table[i].size
      first == CHOOSE i \in DOMAIN table :
                 Overlaps(i) /\ \A j \in 1..(i - 1) : ~Overlaps(j)
  IN  table[first].addr + table[first].size

\* Mutant: the search goes on behind the size it looks for.
NextAddrBySize(addr, size, align) ==
  IF align = "ALIGN_4KB" THEN addr + PageSize ELSE addr + size + 1
NextAddr(addr, size, align) ==
  IF align = "ALIGN_4KB" THEN addr + PageSize ELSE FirstOverlapEnd(addr, size)

\* do ... while: the start of the block is looked at in any case.
SearchBlock(b, size, align) ==
  LET end == b.start + b.length
      from[addr \in b.start..end] ==
        IF MemoryIsFree(table, addr, size) THEN addr
        ELSE LET next == NextAddr(addr, size, align)
             IN  IF next < end THEN from[next] ELSE NULL
  IN  from[b.start]

\* MemoryAlign refuses a block that does not begin at a page.
Skipped(b, align) ==
  ~b.available \/ (align = "ALIGN_4KB" /\ b.start % PageSize # 0)

SearchBlocks(size, align) ==
  LET from[k \in 1..(Len(blocks) + 1)] ==
        IF k > Len(blocks) THEN NULL
        ELSE LET found == IF Skipped(blocks[k], align) THEN NULL
                          ELSE SearchBlock(blocks[k], size, align)
             IN  IF found = NULL THEN from[k + 1] ELSE found
  IN  from[1]

\* The search, which jumps from the end of one overlapping entry to the next in the
\* order of the table, finds the lowest address that is free, and finds none only
\* if there is none.
FirstFit ==
  \A size \in Sizes, align \in Aligns :
    SearchBlocks(size, align) = MemoryFindSpace(table, size, align)
=============================================================================
