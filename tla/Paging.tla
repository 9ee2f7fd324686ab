------------------------------- MODULE Paging -------------------------------
(***************************************************************************)
(* The page tables: what MemoryPagingSetPage, MemoryPagingPagePresent and  *)
(* MemoryPagingPageChangeFlags read and write.                             *)
(*                                                                         *)
(* An address is the number of its page of 4 KB.  Level 1 is the PML4,     *)
(* level 2 the PDPTEs, level 3 the PDEs, level 4 the PTEs.  All entries of *)
(* an address space that are present are one function: the entry of level  *)
(* n for an address is named by n and by the part of the address that has  *)
(* led to it, and says whose frame it has.  The entry of level 0 is cr3.   *)
(* This holds as long as every table is reached through one entry only.    *)
(***************************************************************************)
EXTENDS Integers

CONSTANT FanOut  \* 512, the entries of a table

ASSUME PagingAssumption == FanOut \in Nat \ {0, 1}

Levels == 1..4

\* PAGE_SIZE_4KB, PAGE_SIZE_2MB and PAGE_SIZE_1GB: the level that such a page ends at.
PageSizes == 2..4

\* The pages that an entry of each level stands for.
Span(n) == <<FanOut * FanOut * FanOut, FanOut * FanOut, FanOut, 1>>[n]

\* An address without the index into a table of the last level.
Up(va) == va \div FanOut

\* The name of an entry: what of the address leads to it.
At(va, n) ==
  CASE n = 4 -> <<4, va>>
    [] n = 3 -> <<3, Up(va)>>
    [] n = 2 -> <<2, Up(Up(va))>>
    [] n = 1 -> <<1, Up(Up(Up(va)))>>
    [] n = 0 -> <<0, 0>>

\* A flag that is not in the set is clear.  PAGING_PRESENT is the entry being there.
Flags == {"rw", "user"}

Entry(frame, flags, page) == [frame |-> frame, flags |-> flags, page |-> page]

Present(tables, va, n) == At(va, n) \in DOMAIN tables

IsPage(tables, va, n) == Present(tables, va, n) /\ tables[At(va, n)].page

None == <<>>

\* Where the page of an address is entered.
MemoryPagingPagePresent(tables, va) ==
  IF ~Present(tables, va, 1) \/ ~Present(tables, va, 2) THEN None
  ELSE IF IsPage(tables, va, 2) THEN At(va, 2)
  ELSE IF ~Present(tables, va, 3) THEN None
  ELSE IF IsPage(tables, va, 3) THEN At(va, 3)
  ELSE IF ~Present(tables, va, 4) THEN None
  ELSE At(va, 4)

Aligned(va, frame, size) == va % Span(size) = 0 /\ frame % Span(size) = 0

\* A page of 4 KB that is there is replaced; larger pages are not, and no page is put
\* into a larger one.
Refused(tables, va, frame, size) ==
  \/ ~Aligned(va, frame, size)
  \/ \E n \in 2..(size - 1) : IsPage(tables, va, n)
  \/ size < 4 /\ Present(tables, va, size)

\* The tables that have to be made for a page of that size.
Missing(tables, va, size) == {n \in 1..(size - 1) : ~Present(tables, va, n)}

WithEntry(tables, at, entry) ==
  [x \in DOMAIN tables \cup {at} |-> IF x = at THEN entry ELSE tables[x]]

\* Mutant: user code may not pass.
SupervisorTable(tables, va, n, frame) ==
  WithEntry(tables, At(va, n), Entry(frame, {"rw"}, FALSE))

\* A new table is clear, and lets everything pass.
WithTable(tables, va, n, frame) ==
  WithEntry(tables, At(va, n), Entry(frame, {"rw", "user"}, FALSE))

WithPage(tables, va, frame, flags, size) ==
  WithEntry(tables, At(va, size), Entry(frame, flags, TRUE))

MemoryPagingPageChangeFlags(tables, va, unset, set) ==
  LET at == MemoryPagingPagePresent(tables, va)
  IN  [tables EXCEPT ![at].flags = (@ \ unset) \cup set]

-----------------------------------------------------------------------------
\* What an address leads to: the frame and what the processor allows, which is what
\* the entries of all levels allow.
Leads(tables, va) ==
  LET at == MemoryPagingPagePresent(tables, va)
  IN  IF at = None THEN None
      ELSE [frame |-> tables[at].frame + (va % Span(at[1])),
            flags |-> {f \in Flags : \A n \in 1..at[1] : f \in tables[At(va, n)].flags}]

=============================================================================
