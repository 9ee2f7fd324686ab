------------------------- MODULE KernelMemoryProofs -------------------------
(***************************************************************************)
(* Type correctness of KernelMemory, and for every memory map and every    *)
(* sequence of requests: no two entries of the memory tables overlap, what *)
(* is allocated begins in available memory, the reserve of entries lasts   *)
(* for the next table, and every entry in use has its owner.               *)
(***************************************************************************)
EXTENDS KernelMemorySearch, FiniteSetTheorems, Induction

Table == Seq(TableEntry)
Blocks == Seq([start : Nat, length : Nat, available : BOOLEAN])
Good(t) == t \in Table /\ DisjointIn(t)

LEMMA SeqElement ==
  ASSUME NEW S, NEW s \in Seq(S), NEW i \in DOMAIN s
  PROVE  s[i] \in S
OBVIOUS

LEMMA EntryFields ==
  ASSUME NEW t \in Table, NEW i \in DOMAIN t
  PROVE  t[i] \in TableEntry /\ t[i].addr \in Nat /\ t[i].size \in Nat
<1>1. t[i] \in TableEntry
  BY DEF Table
<1> QED BY <1>1 DEF TableEntry

\* What MemoryFindSpace returns is free in the table that was searched.
LEMMA FindSpaceIsFree ==
  ASSUME NEW t \in Table, NEW size, NEW align, blocks \in Blocks
  PROVE  LET a == MemoryFindSpace(t, size, align)
         IN  a = NULL \/ (a \in Nat /\ MemoryIsFree(t, a, size))
<1>1. ASSUME NEW k \in DOMAIN blocks, NEW a \in Fits(t, size, align, k)
      PROVE  a \in Nat /\ MemoryIsFree(t, a, size)
  <2>1. blocks[k].start \in Nat /\ blocks[k].length \in Nat
    <3>1. blocks[k] \in [start : Nat, length : Nat, available : BOOLEAN]
      BY SeqElement DEF Blocks
    <3> QED BY <3>1
  <2>2. a \in Candidates(t, align, blocks[k]) /\ MemoryIsFree(t, a, size)
    BY DEF Fits
  <2>3. PageSize \in Nat \ {0}
    BY SizesAssumption
  <2>4. CASE align = "ALIGN_4KB"
    <3>1. PICK n \in 0..(blocks[k].length \div PageSize) :
            a = blocks[k].start + n * PageSize
      BY <2>2, <2>4 DEF Candidates
    <3>2. n \in Nat
      BY <3>1
    <3> QED BY <2>1, <2>2, <2>3, <3>1, <3>2
  <2>5. CASE align # "ALIGN_4KB"
    <3>1. a = blocks[k].start \/ \E i \in DOMAIN t : a = t[i].addr + t[i].size
      BY <2>2, <2>5 DEF Candidates
    <3>2. \A i \in DOMAIN t : t[i].addr \in Nat /\ t[i].size \in Nat
      BY EntryFields
    <3> QED BY <2>1, <2>2, <3>1, <3>2
  <2> QED BY <2>4, <2>5
<1>2. ASSUME NEW a \in Spaces(t, size, align)
      PROVE  a \in Nat /\ MemoryIsFree(t, a, size)
  <2>1. PICK k \in DOMAIN blocks : a \in Fits(t, size, align, k)
    BY DEF Spaces, Lowest
  <2> QED BY <1>1, <2>1
<1> QED BY <1>2 DEF MemoryFindSpace, OneOf

\* An entry at a free address keeps the entries of a table apart.
LEMMA WithEntryGood ==
  ASSUME NEW t, Good(t), NEW i \in DOMAIN t, NEW addr \in Nat, NEW size \in Nat,
         MemoryIsFree(t, addr, size)
  PROVE  Good(WithEntry(t, i, addr, size))
<1> DEFINE u == WithEntry(t, i, addr, size)
<1>1. /\ u \in Table
      /\ DOMAIN u = DOMAIN t
      /\ u[i] = [addr |-> addr, size |-> size, used |-> TRUE]
      /\ \A j \in DOMAIN t : j # i => u[j] = t[j]
  BY DEF WithEntry, Table, TableEntry, Good
<1>2. \A j \in DOMAIN t : t[j].addr \in Nat /\ t[j].size \in Nat
  BY EntryFields DEF Good
<1>3. ASSUME NEW j \in DOMAIN t, j # i, u[j].used
      PROVE  \/ addr + size <= u[j].addr
             \/ u[j].addr + u[j].size <= addr
  BY <1>1, <1>2, <1>3 DEF MemoryIsFree
<1>4. ASSUME NEW j \in DOMAIN t, NEW k \in DOMAIN t, j # i, k # i, j # k,
             u[j].used, u[k].used
      PROVE  \/ u[j].addr + u[j].size <= u[k].addr
             \/ u[k].addr + u[k].size <= u[j].addr
  <2>1. t[j].used /\ t[k].used
    BY <1>1, <1>4
  <2> QED BY <1>1, <1>4, <2>1 DEF Good, DisjointIn
<1>5. DisjointIn(u)
  <2> SUFFICES ASSUME NEW j \in DOMAIN u, NEW k \in DOMAIN u, j # k,
                      u[j].used, u[k].used
               PROVE  \/ u[j].addr + u[j].size <= u[k].addr
                      \/ u[k].addr + u[k].size <= u[j].addr
    BY DEF DisjointIn
  <2>1. CASE j = i
    BY <1>1, <1>3, <2>1
  <2>2. CASE k = i
    BY <1>1, <1>3, <2>2
  <2> QED BY <1>1, <1>4, <2>1, <2>2
<1> QED BY <1>1, <1>5 DEF Good
-----------------------------------------------------------------------------
GoodResult(r) ==
  Good(r.table) /\ r.addr \in Nat \cup {NULL} /\ r.stopped \in BOOLEAN

LEMMA ResultGood ==
  ASSUME NEW t, Good(t), NEW a \in Nat \cup {NULL}, NEW b \in BOOLEAN
  PROVE  GoodResult(Result(t, a, b))
BY DEF GoodResult, Result

LEMMA TakeEntryGood ==
  ASSUME NEW t, Good(t), NEW size \in Nat, NEW align, blocks \in Blocks
  PROVE  GoodResult(TakeEntry(t, size, align))
<1> DEFINE addr == MemoryFindSpace(t, size, align)
           i    == CHOOSE i \in FirstUnused(t) : TRUE
<1>1. addr = NULL \/ (addr \in Nat /\ MemoryIsFree(t, addr, size))
  BY FindSpaceIsFree DEF Good
<1>2. TakeEntry(t, size, align) = Note(t, addr, size)
  BY DEF TakeEntry
<1>3. CASE addr = NULL
  BY <1>2, <1>3, ResultGood DEF Note
<1>4. CASE addr # NULL /\ FirstUnused(t) = {}
  BY <1>2, <1>4, ResultGood DEF Note
<1>5. CASE addr # NULL /\ FirstUnused(t) # {}
  <2>1. i \in DOMAIN t
    BY <1>5 DEF FirstUnused
  <2>2. Good(WithEntry(t, i, addr, size))
    BY <1>1, <1>5, <2>1, WithEntryGood
  <2>3. TakeEntry(t, size, align) = Result(WithEntry(t, i, addr, size), addr, FALSE)
    BY <1>2, <1>5 DEF Note
  <2> HIDE DEF addr, i
  <2> QED BY <1>1, <1>5, <2>2, <2>3, ResultGood
<1> QED BY <1>3, <1>4, <1>5

\* Entries that are not in use may be appended.
LEMMA LongerGood ==
  ASSUME NEW t, Good(t), NEW n \in Nat
  PROVE  Good(t \o [i \in 1..n |-> Unused])
<1> DEFINE s == [i \in 1..n |-> Unused]
           u == t \o s
<1>1. s \in Table /\ Len(s) = n
  BY DEF Table, TableEntry, Unused
<1>2. t \in Table /\ Len(t) \in Nat /\ DOMAIN t = 1..Len(t)
  BY DEF Good, Table
<1>3. u \in Table /\ DOMAIN u = 1..(Len(t) + n)
  BY <1>1, <1>2 DEF Table
<1>4. ASSUME NEW j \in DOMAIN u
      PROVE  (j \in DOMAIN t /\ u[j] = t[j]) \/ ~u[j].used
  <2>1. CASE j \in 1..Len(t)
    BY <1>1, <1>2, <2>1 DEF Table
  <2>2. CASE j \notin 1..Len(t)
    <3>1. j - Len(t) \in 1..n /\ u[j] = s[j - Len(t)]
      BY <1>1, <1>2, <1>3, <2>2 DEF Table
    <3> QED BY <3>1 DEF Unused
  <2> QED BY <1>2, <2>1, <2>2
<1> HIDE DEF u
<1>5. DisjointIn(u)
  BY <1>4 DEF Good, DisjointIn
<1> QED BY <1>3, <1>5 DEF Good, u

LEMMA NewTableGood ==
  ASSUME NEW t, Good(t), blocks \in Blocks
  PROVE  GoodResult(MemoryNewTable(t))
<1> DEFINE index   == TakeEntry(t, TableIndexSize, "ALIGN_NONE")
           n       == MEMORY_TABLE_NEW_TABLE_ENTRIES
           entries == TakeEntry(index.table, EntrySize * n, "ALIGN_NONE")
           longer  == entries.table \o [i \in 1..n |-> Unused]
<1>1. n \in Nat /\ TableIndexSize \in Nat /\ EntrySize \in Nat
  BY SizesAssumption DEF SizeConstants
<1>2. GoodResult(index)
  BY <1>1, TakeEntryGood
<1>3. EntrySize * n \in Nat
  BY <1>1
<1>4. GoodResult(entries)
  BY <1>2, <1>3, TakeEntryGood DEF GoodResult
<1>5. Good(longer)
  BY <1>1, <1>4, LongerGood DEF GoodResult
<1>6. GoodResult(Result(longer, entries.addr, FALSE))
  BY <1>4, <1>5, ResultGood DEF GoodResult
<1>7. GoodResult(WithTable(entries))
  BY <1>4, <1>6 DEF WithTable
<1> QED BY <1>2, <1>7 DEF MemoryNewTable, WithIndex

\* malloc keeps the table good, however it ends.
LEMMA MallocGood ==
  ASSUME NEW t, Good(t), NEW size \in Nat, NEW align, blocks \in Blocks
  PROVE  GoodResult(__malloc_align(t, size, align))
<1> DEFINE r == MemoryNewTable(t)
<1>1. GoodResult(r) /\ Good(r.table)
  BY NewTableGood DEF GoodResult
<1>2. GoodResult(TakeEntry(t, size, align))
  BY TakeEntryGood
<1>3. GoodResult(TakeEntry(r.table, size, align))
  BY <1>1, TakeEntryGood
<1>4. GoodResult(Result(r.table, NULL, TRUE))
  BY <1>1, ResultGood
<1>5. GoodResult(Restart(r, size, align))
  BY <1>1, <1>3, <1>4 DEF Restart
<1> QED BY <1>2, <1>5 DEF __malloc_align

LEMMA ReleasedGood ==
  ASSUME NEW t, Good(t), NEW addr
  PROVE  Good(Released(t, addr))
<1> DEFINE u == Released(t, addr)
<1>1. u \in Table /\ DOMAIN u = DOMAIN t
  <2>1. DOMAIN u = DOMAIN t /\ t \in Table
    BY DEF Released, Good
  <2>2. \A i \in DOMAIN t : [t[i] EXCEPT !.used = FALSE] \in TableEntry
    BY <2>1, EntryFields DEF TableEntry
  <2>3. \A i \in DOMAIN t : u[i] \in TableEntry
    BY <2>1, <2>2, EntryFields DEF Released
  <2> HIDE DEF u
  <2>4. u \in [DOMAIN t -> TableEntry]
    <3>1. u = [i \in DOMAIN t |-> u[i]]
      BY DEF Released, u
    <3> QED BY <2>3, <3>1
  <2>5. DOMAIN t = 1..Len(t) /\ Len(t) \in Nat
    BY <2>1 DEF Table
  <2> QED BY <2>1, <2>4, <2>5 DEF Table
<1>2. \A i \in DOMAIN t : u[i] = t[i] \/ ~u[i].used
  BY DEF Released, Good, Table, TableEntry
<1>3. DisjointIn(u)
  BY <1>1, <1>2 DEF Good, DisjointIn
<1> QED BY <1>1, <1>3 DEF Good

\* The first table lies apart from what it lists.
LEMMA FirstTableGood ==
  ASSUME NEW block \in [start : Nat, length : Nat, available : BOOLEAN],
         NEW place \in TablePlaces(block), Len(BootAreas) < MEMORY_TABLE_INITIAL_ENTRIES
  PROVE  Good(FirstTable(place))
<1> DEFINE u == FirstTable(place)
           n == MEMORY_TABLE_INITIAL_ENTRIES
           Area(i) == BootAreas[i - 1]
<1>1. n \in Nat \ {0} /\ EntrySize \in Nat /\ PageSize \in Nat /\ FirstTableSize \in Nat
  BY SizesAssumption DEF SizeConstants, FirstTableSize
<1>2. place \in Nat
  <2>1. PICK k \in 0..(block.length \div PageSize) : place = block.start + k * PageSize
    BY DEF TablePlaces
  <2> QED BY <1>1, <2>1
<1>3. /\ Len(BootAreas) \in Nat /\ DOMAIN BootAreas = 1..Len(BootAreas)
      /\ \A i \in DOMAIN BootAreas : BootAreas[i].addr \in Nat /\ BootAreas[i].size \in Nat
  <2>1. BootAreas \in Seq([addr : Nat, size : Nat])
    BY BootAreasAssumption
  <2>2. Len(BootAreas) \in Nat /\ DOMAIN BootAreas = 1..Len(BootAreas)
    BY <2>1
  <2>3. \A i \in DOMAIN BootAreas : BootAreas[i] \in [addr : Nat, size : Nat]
    BY <2>1, SeqElement
  <2> QED BY <2>2, <2>3
<1>4. u \in Table /\ DOMAIN u = 1..n
  BY <1>1, <1>2, <1>3 DEF FirstTable, Table, TableEntry, Unused
<1>5. u[1] = [addr |-> place, size |-> FirstTableSize, used |-> TRUE]
  BY <1>1 DEF FirstTable
<1>6. ASSUME NEW i \in 1..n, i # 1, u[i].used
      PROVE  /\ i - 1 \in DOMAIN BootAreas
             /\ u[i].addr = Area(i).addr /\ u[i].size = Area(i).size
  <2>1. i <= Len(BootAreas) + 1
    BY <1>1, <1>6 DEF FirstTable, Unused
  <2> QED BY <1>3, <1>6, <2>1 DEF FirstTable
<1>7. ASSUME NEW i \in 1..n, i # 1, u[i].used
      PROVE  \/ u[1].addr + u[1].size <= u[i].addr
             \/ u[i].addr + u[i].size <= u[1].addr
  <2>1. Apart(place, FirstTableSize, Area(i))
    BY <1>6, <1>7 DEF TablePlaces
  <2>2. Area(i).addr \in Nat /\ Area(i).size \in Nat
    BY <1>3, <1>6, <1>7
  <2> QED BY <1>1, <1>2, <1>5, <1>6, <1>7, <2>1, <2>2 DEF Apart
<1>8. ASSUME NEW i \in 1..n, NEW j \in 1..n, i # 1, j # 1, i # j, u[i].used, u[j].used
      PROVE  \/ u[i].addr + u[i].size <= u[j].addr
             \/ u[j].addr + u[j].size <= u[i].addr
  <2>1. i - 1 # j - 1 /\ i - 1 \in DOMAIN BootAreas /\ j - 1 \in DOMAIN BootAreas
    BY <1>6, <1>8
  <2> QED BY <1>6, <1>8, <2>1, BootAreasAssumption
<1>9. DisjointIn(u)
  BY <1>4, <1>7, <1>8 DEF DisjointIn
<1> QED BY <1>4, <1>9 DEF Good
-----------------------------------------------------------------------------
Inv == TypeOK /\ Disjoint

LEMMA InvGood == Inv <=> TypeOK /\ Good(table)
BY DEF Inv, TypeOK, Disjoint, Good, Table

LEMMA InitInv == Init => Inv
<1> SUFFICES ASSUME Init PROVE Inv
  OBVIOUS
<1>1. Len(MemoryMap) \in Nat
  BY MemoryMapAssumption
<1>2. blocks \in Seq([start : Nat, length : Nat, available : BOOLEAN])
  BY DEF Init
<1>3. table \in Seq(TableEntry) /\ DOMAIN table = {}
  BY DEF Init
<1>4. Nothing \in [addr : Nat \cup {NULL}, size : Sizes \cup {0}]
  BY DEF Nothing
<1>5. live \in [Pointers -> [addr : Nat \cup {NULL}, size : Sizes \cup {0}]]
  BY <1>4 DEF Init
<1>6. mapped \in 0..Len(MemoryMap)
  BY <1>1 DEF Init
<1>7. halted \in BOOLEAN
  BY DEF Init
<1>8. DisjointIn(table)
  BY <1>3 DEF DisjointIn
<1> QED BY <1>2, <1>3, <1>5, <1>6, <1>7, <1>8 DEF Inv, TypeOK, Disjoint

LEMMA BlockOfType ==
  ASSUME NEW e \in [addr : Nat, len : Nat, available : BOOLEAN]
  PROVE  BlockOf(e) \in [start : Nat, length : Nat, available : BOOLEAN]
<1>1. MEMORY_FLOOR \in Nat /\ WordSize \in Nat \ {0}
  BY SizesAssumption DEF SizeConstants
<1>2. (e.len - MEMORY_FLOOR) % WordSize \in Nat
  BY <1>1
<1> QED BY <1>1, <1>2 DEF BlockOf

LEMMA NextInv == Inv /\ [Next]_vars => Inv'
<1> SUFFICES ASSUME Inv, [Next]_vars PROVE Inv'
  OBVIOUS
<1>1. TypeOK /\ Good(table) /\ blocks \in Blocks
  BY InvGood DEF TypeOK, Blocks
<1> USE DEF NULL
<1>2. CASE MemoryNewBlock
  <2> DEFINE e == MemoryMap[mapped + 1]
  <2>1. mapped + 1 \in DOMAIN MemoryMap /\ mapped' \in 0..Len(MemoryMap) /\ live' = live
    BY <1>1, <1>2, MemoryMapAssumption DEF MemoryNewBlock, TypeOK
  <2>2. e \in [addr : Nat, len : Nat, available : BOOLEAN]
    BY <2>1, SeqElement, MemoryMapAssumption
  <2>3. BlockOf(e) \in [start : Nat, length : Nat, available : BOOLEAN]
    BY <2>2, BlockOfType
  <2>4. CASE UNCHANGED <<blocks, table, halted>>
    BY <1>1, <2>1, <2>4, InvGood DEF TypeOK, Good, DisjointIn, Inv, Disjoint
  <2>5. CASE FirstBlock(BlockOf(e))
    <3>1. CASE halted' = TRUE /\ UNCHANGED <<blocks, table>>
      BY <1>1, <2>1, <3>1, InvGood DEF TypeOK, Good, DisjointIn, Inv, Disjoint
    <3>2. CASE ~(halted' = TRUE /\ UNCHANGED <<blocks, table>>)
      <4>1. /\ blocks' = <<BlockOf(e)>> /\ halted' = halted
            /\ \E place \in TablePlaces(BlockOf(e)) : table' = FirstTable(place)
            /\ Len(BootAreas) < MEMORY_TABLE_INITIAL_ENTRIES
        BY <2>5, <3>2 DEF FirstBlock
      <4>2. Good(table')
        BY <2>3, <4>1, FirstTableGood
      <4>3. blocks' \in Blocks
        BY <2>3, <4>1 DEF Blocks
      <4> QED BY <1>1, <2>1, <4>1, <4>2, <4>3
            DEF TypeOK, Inv, Good, Disjoint, DisjointIn, Blocks, Table
    <3> QED BY <3>1, <3>2
  <2>6. CASE LaterBlock(BlockOf(e))
    <3> DEFINE r == __malloc_align(table, BlockSize, "ALIGN_NONE")
    <3>1. GoodResult(r)
      BY <1>1, SizesAssumption, MallocGood DEF SizeConstants
    <3>2. /\ table' = r.table /\ halted' = r.stopped
          /\ blocks' = blocks \/ blocks' = Append(blocks, BlockOf(e))
      BY <2>6 DEF LaterBlock
    <3>3. blocks' \in Blocks
      <4>1. Append(blocks, BlockOf(e)) \in Blocks
        BY <1>1, <2>3 DEF Blocks
      <4> QED BY <1>1, <3>2, <4>1
    <3> HIDE DEF r
    <3> QED BY <1>1, <2>1, <3>1, <3>2, <3>3
          DEF GoodResult, TypeOK, Inv, Good, Disjoint, DisjointIn, Blocks, Table
  <2> QED BY <1>2, <2>4, <2>5, <2>6 DEF MemoryNewBlock
<1>3. ASSUME NEW p \in Pointers, NEW size \in Sizes, NEW align \in Aligns,
             Malloc(p, size, align)
      PROVE  Inv'
  <2> DEFINE r == __malloc_align(table, size, align)
  <2>1. size \in Nat
    BY SizesAssumption
  <2>2. GoodResult(r)
    BY <1>1, <2>1, MallocGood
  <2>3. /\ table' = r.table /\ halted' = r.stopped /\ UNCHANGED <<blocks, mapped>>
        /\ live' = live \/ live' = [live EXCEPT ![p] = [addr |-> r.addr, size |-> size]]
    BY <1>3 DEF Malloc
  <2> HIDE DEF r
  <2>4. live' \in [Pointers -> [addr : Nat \cup {NULL}, size : Sizes \cup {0}]]
    <3>1. [addr |-> r.addr, size |-> size]
            \in [addr : Nat \cup {NULL}, size : Sizes \cup {0}]
      BY <2>2 DEF GoodResult
    <3> QED BY <1>1, <2>3, <3>1 DEF TypeOK
  <2> QED BY <1>1, <2>2, <2>3, <2>4
        DEF GoodResult, TypeOK, Inv, Good, Disjoint, DisjointIn, Table
<1>4. ASSUME NEW p \in Pointers, NEW size \in Sizes, Realloc(p, size)
      PROVE  Inv'
  <2> DEFINE r == __malloc_align(table, size, "ALIGN_NONE")
  <2>1. size \in Nat
    BY SizesAssumption
  <2>2. GoodResult(r)
    BY <1>1, <2>1, MallocGood
  <2>3. Good(Released(r.table, live[p].addr))
    BY <2>2, ReleasedGood DEF GoodResult
  <2>4. /\ table' = r.table \/ table' = Released(r.table, live[p].addr)
        /\ halted' = r.stopped /\ UNCHANGED <<blocks, mapped>>
        /\ \/ live' = live
           \/ live' = [live EXCEPT ![p] = Nothing]
           \/ live' = [live EXCEPT ![p] = [addr |-> r.addr, size |-> size]]
    BY <1>4 DEF Realloc
  <2> HIDE DEF r
  <2>5. live' \in [Pointers -> [addr : Nat \cup {NULL}, size : Sizes \cup {0}]]
    <3>1. [addr |-> r.addr, size |-> size]
            \in [addr : Nat \cup {NULL}, size : Sizes \cup {0}]
      BY <2>2 DEF GoodResult
    <3>2. Nothing \in [addr : Nat \cup {NULL}, size : Sizes \cup {0}]
      BY DEF Nothing
    <3>3. live \in [Pointers -> [addr : Nat \cup {NULL}, size : Sizes \cup {0}]]
      BY <1>1 DEF TypeOK
    <3> DEFINE V == [addr : Nat \cup {NULL}, size : Sizes \cup {0}]
               w == [addr |-> r.addr, size |-> size]
    <3>4. \A v \in V : [live EXCEPT ![p] = v] \in [Pointers -> V]
      BY <3>3
    <3>5. w \in V /\ Nothing \in V
      BY <3>1, <3>2
    <3> HIDE DEF V, w
    <3>6. live' \in [Pointers -> V]
      BY <2>4, <3>3, <3>4, <3>5 DEF V, w
    <3> QED BY <3>6 DEF V
  <2>6. Good(table')
    BY <2>2, <2>3, <2>4 DEF GoodResult
  <2> QED BY <1>1, <2>2, <2>4, <2>5, <2>6
        DEF GoodResult, TypeOK, Inv, Good, Disjoint, DisjointIn, Table
<1>5. ASSUME NEW p \in Pointers, Free(p)
      PROVE  Inv'
  <2>1. /\ table' = Released(table, live[p].addr) /\ UNCHANGED <<blocks, mapped, halted>>
        /\ live' = [live EXCEPT ![p] = Nothing]
    BY <1>5 DEF Free
  <2>2. Good(table')
    BY <1>1, <2>1, ReleasedGood
  <2>3. live' \in [Pointers -> [addr : Nat \cup {NULL}, size : Sizes \cup {0}]]
    BY <1>1, <2>1 DEF TypeOK, Nothing
  <2> QED BY <1>1, <2>1, <2>2, <2>3 DEF TypeOK, Inv, Good, Disjoint, DisjointIn, Table
<1>6. CASE UNCHANGED vars
  BY <1>1, <1>6, InvGood DEF vars, TypeOK, Inv, Good, Disjoint, DisjointIn
<1> QED BY <1>2, <1>3, <1>4, <1>5, <1>6 DEF Next

\* Every variable of the kernel's memory keeps its type: an address that malloc
\* gives out is never NULL by accident, and the tables hold addresses and sizes.
THEOREM MemoryTypeCorrect == Spec => []TypeOK
<1>1. Inv => TypeOK
  BY DEF Inv
<1> QED BY <1>1, InitInv, NextInv, PTL DEF Spec

\* malloc, realloc, free, the tables they make for themselves and the boot never let
\* two entries overlap, for every memory map, every size and every table length.
THEOREM AllocationsDisjoint == Spec => []Disjoint
<1>1. Inv => Disjoint
  BY DEF Inv
<1> QED BY <1>1, InitInv, NextInv, PTL DEF Spec

-----------------------------------------------------------------------------
(* Where allocations begin.                                                *)

\* A map that MemoryNewBlock makes true blocks of: no entry is empty, and one that
\* begins below MEMORY_FLOOR and reaches beyond it is long enough for the floor to be
\* taken off its length without wrapping.
PlainMap ==
  \A i \in DOMAIN MemoryMap :
    LET e == MemoryMap[i]
    IN  e.len > 0 /\ (e.addr <= MEMORY_FLOOR /\ ~BelowFloor(e) => e.len >= MEMORY_FLOOR)

AvailableAt(a) ==
  \E i \in DOMAIN MemoryMap :
    /\ MemoryMap[i].available
    /\ a >= MemoryMap[i].addr /\ a < MemoryMap[i].addr + MemoryMap[i].len

\* Every address that the search looks at in the block is in available memory.
BlockTrue(b) ==
  b.available => \A a \in Nat :
    (a = b.start \/ (b.start < a /\ a < b.start + b.length)) => AvailableAt(a)

BlocksTrue == \A k \in DOMAIN blocks : BlockTrue(blocks[k])

LiveTrue == \A p \in Pointers : live[p] # Nothing => AvailableAt(live[p].addr)

LEMMA FoundAvailable ==
  ASSUME NEW t \in Table, NEW size, NEW align, blocks \in Blocks, BlocksTrue
  PROVE  LET a == MemoryFindSpace(t, size, align) IN a = NULL \/ AvailableAt(a)
<1>1. ASSUME NEW k \in DOMAIN blocks, NEW a \in Fits(t, size, align, k)
      PROVE  AvailableAt(a)
  <2>1. /\ blocks[k].start \in Nat /\ blocks[k].length \in Nat
        /\ blocks[k].available /\ BlockTrue(blocks[k])
    <3>1. blocks[k] \in [start : Nat, length : Nat, available : BOOLEAN]
      BY SeqElement DEF Blocks
    <3> QED BY <3>1 DEF BlocksTrue, Fits
  <2>2. a \in Candidates(t, align, blocks[k]) /\ PageSize \in Nat \ {0}
    BY SizesAssumption DEF Fits
  <2>3. CASE align = "ALIGN_4KB"
    <3>1. PICK n \in 0..(blocks[k].length \div PageSize) :
            /\ n = 0 \/ n * PageSize < blocks[k].length
            /\ a = blocks[k].start + n * PageSize
      BY <2>2, <2>3 DEF Candidates
    <3>2. CASE n = 0
      <4>1. a = blocks[k].start
        BY <2>1, <2>2, <3>1, <3>2
      <4> QED BY <2>1, <4>1 DEF BlockTrue
    <3>3. CASE n # 0
      <4>1. n \in Nat \ {0} /\ n * PageSize \in Nat /\ n * PageSize < blocks[k].length
        BY <2>2, <3>1, <3>3
      <4>2. n * PageSize > 0
        BY <2>2, <4>1
      <4>3. a \in Nat /\ blocks[k].start < a /\ a < blocks[k].start + blocks[k].length
        BY <2>1, <3>1, <4>1, <4>2
      <4> QED BY <2>1, <4>3 DEF BlockTrue
    <3> QED BY <3>2, <3>3
  <2>4. CASE align # "ALIGN_4KB"
    <3>1. a = blocks[k].start
            \/ /\ \E i \in DOMAIN t : a = t[i].addr + t[i].size
               /\ blocks[k].start < a /\ a < blocks[k].start + blocks[k].length
      BY <2>2, <2>4 DEF Candidates
    <3>2. a \in Nat
      BY <2>1, <3>1, EntryFields
    <3> QED BY <2>1, <3>1, <3>2 DEF BlockTrue
  <2> QED BY <2>3, <2>4
<1>2. ASSUME NEW a \in Spaces(t, size, align)
      PROVE  AvailableAt(a)
  <2>1. PICK k \in DOMAIN blocks : a \in Fits(t, size, align, k)
    BY DEF Spaces, Lowest
  <2> QED BY <1>1, <2>1
<1> QED BY <1>2 DEF MemoryFindSpace, OneOf

\* An address that malloc returns was found by the search, in whatever table.
LEMMA MallocAvailable ==
  ASSUME NEW t, Good(t), NEW size \in Nat, NEW align, blocks \in Blocks, BlocksTrue
  PROVE  LET r == __malloc_align(t, size, align)
         IN  r.addr = NULL \/ AvailableAt(r.addr)
<1> DEFINE Right(r) == r.addr = NULL \/ AvailableAt(r.addr)
<1>1. ASSUME NEW u, Good(u) PROVE Right(TakeEntry(u, size, align))
  <2>1. MemoryFindSpace(u, size, align) = NULL
          \/ AvailableAt(MemoryFindSpace(u, size, align))
    BY <1>1, FoundAvailable DEF Good
  <2> QED BY <2>1 DEF TakeEntry, Note, Result
<1>2. Good(MemoryNewTable(t).table)
  BY NewTableGood DEF GoodResult
<1>3. MemoryNewTable(t).stopped => MemoryNewTable(t).addr = NULL
  <2>1. ASSUME NEW u, NEW s PROVE TakeEntry(u, s, "ALIGN_NONE").stopped
                                    => TakeEntry(u, s, "ALIGN_NONE").addr = NULL
    BY DEF TakeEntry, Note, Result
  <2> QED BY <2>1 DEF MemoryNewTable, WithIndex, WithTable, Result
<1>4. Right(Restart(MemoryNewTable(t), size, align))
  BY <1>1, <1>2, <1>3 DEF Restart, Result
<1> QED BY <1>1, <1>4 DEF __malloc_align

LEMMA BlockOfTrue ==
  ASSUME PlainMap, NEW i \in DOMAIN MemoryMap, ~BelowFloor(MemoryMap[i])
  PROVE  BlockTrue(BlockOf(MemoryMap[i]))
<1> DEFINE e == MemoryMap[i]
<1>1. e \in [addr : Nat, len : Nat, available : BOOLEAN]
  BY SeqElement, MemoryMapAssumption
<1>2. e.len > 0 /\ (e.addr <= MEMORY_FLOOR => e.len >= MEMORY_FLOOR)
  BY DEF PlainMap
<1>3. MEMORY_FLOOR \in Nat /\ WordSize \in Nat \ {0}
  BY SizesAssumption DEF SizeConstants
<1>4. ~(e.addr + e.len <= MEMORY_FLOOR)
  BY DEF BelowFloor
<1> SUFFICES ASSUME BlockOf(e).available, NEW a \in Nat,
                    \/ a = BlockOf(e).start
                    \/ BlockOf(e).start < a /\ a < BlockOf(e).start + BlockOf(e).length
             PROVE  AvailableAt(a)
  BY DEF BlockTrue
<1>5. e.available
  BY DEF BlockOf
<1>6. a >= e.addr /\ a < e.addr + e.len
  <2>1. CASE e.addr <= MEMORY_FLOOR
    <3>1. /\ BlockOf(e).start = MEMORY_FLOOR
          /\ BlockOf(e).length = (e.len - MEMORY_FLOOR) % WordSize
      BY <2>1 DEF BlockOf
    <3>2. (e.len - MEMORY_FLOOR) % WordSize <= e.len - MEMORY_FLOOR
          /\ (e.len - MEMORY_FLOOR) % WordSize \in Nat
      BY <1>1, <1>2, <1>3, <2>1
    <3> HIDE DEF e
    <3> QED BY <1>1, <1>2, <1>3, <1>4, <2>1, <3>1, <3>2
  <2>2. CASE ~(e.addr <= MEMORY_FLOOR)
    <3>1. BlockOf(e).start = e.addr /\ BlockOf(e).length = e.len
      BY <2>2 DEF BlockOf
    <3> HIDE DEF e
    <3> QED BY <1>1, <1>2, <3>1
  <2> QED BY <2>1, <2>2
<1> QED BY <1>5, <1>6 DEF AvailableAt

\* Every allocation begins in memory that the map calls available.
StartsAvailable ==
  \A p \in Pointers : live[p] # Nothing =>
    \E i \in DOMAIN MemoryMap :
      /\ MemoryMap[i].available
      /\ live[p].addr >= MemoryMap[i].addr
      /\ live[p].addr < MemoryMap[i].addr + MemoryMap[i].len

\* Whatever the kernel asks for, frees and asks for again, and however its tables
\* grow, every allocation begins in memory that the map calls available, if the map is
\* plain.
THEOREM AllocationsStartAvailable ==
  ASSUME PlainMap
  PROVE  Spec => []StartsAvailable
<1> DEFINE Where == BlocksTrue /\ LiveTrue
<1>1. Init => Where
  BY DEF Init, BlocksTrue, LiveTrue
<1>2. Inv /\ Where /\ [Next]_vars => Where'
  <2> SUFFICES ASSUME Inv, BlocksTrue, LiveTrue, [Next]_vars
               PROVE  BlocksTrue' /\ LiveTrue'
    OBVIOUS
  <2>1. TypeOK /\ Good(table) /\ blocks \in Blocks
    BY InvGood DEF TypeOK, Blocks
  <2>2. CASE MemoryNewBlock
    <3> DEFINE e == MemoryMap[mapped + 1]
    <3>1. mapped + 1 \in DOMAIN MemoryMap /\ live' = live
      BY <2>1, <2>2, MemoryMapAssumption DEF MemoryNewBlock, TypeOK
    <3>2. \/ blocks' = blocks
          \/ ~BelowFloor(e) /\ blocks' = <<BlockOf(e)>>
          \/ ~BelowFloor(e) /\ blocks' = Append(blocks, BlockOf(e))
      BY <2>2 DEF MemoryNewBlock, FirstBlock, LaterBlock
    <3>3. ~BelowFloor(e) => BlockTrue(BlockOf(e))
      BY <3>1, BlockOfTrue
    <3> HIDE DEF e
    <3>4. \A k \in DOMAIN blocks' :
            blocks'[k] = BlockOf(e) \/ (k \in DOMAIN blocks /\ blocks'[k] = blocks[k])
            \/ blocks' = blocks
      BY <2>1, <3>2 DEF Blocks
    <3>5. BlocksTrue'
      BY <3>2, <3>3, <3>4 DEF BlocksTrue
    <3> QED BY <3>1, <3>5 DEF LiveTrue
  <2>3. ASSUME NEW p \in Pointers, NEW size \in Sizes, NEW align \in Aligns,
               Malloc(p, size, align)
        PROVE  BlocksTrue' /\ LiveTrue'
    <3> DEFINE r == __malloc_align(table, size, align)
    <3>1. size \in Nat
      BY SizesAssumption
    <3>2. r.addr = NULL \/ AvailableAt(r.addr)
      BY <2>1, <3>1, MallocAvailable
    <3>3. /\ blocks' = blocks
          /\ \/ live' = live
             \/ r.addr # NULL /\ live' = [live EXCEPT ![p] = [addr |-> r.addr, size |-> size]]
      BY <2>3 DEF Malloc
    <3> HIDE DEF r
    <3> QED BY <2>1, <3>2, <3>3 DEF BlocksTrue, LiveTrue, TypeOK
  <2>4. ASSUME NEW p \in Pointers, NEW size \in Sizes, Realloc(p, size)
        PROVE  BlocksTrue' /\ LiveTrue'
    <3> DEFINE r == __malloc_align(table, size, "ALIGN_NONE")
    <3>1. size \in Nat
      BY SizesAssumption
    <3>2. r.addr = NULL \/ AvailableAt(r.addr)
      BY <2>1, <3>1, MallocAvailable
    <3>3. /\ blocks' = blocks
          /\ \/ live' = live
             \/ live' = [live EXCEPT ![p] = Nothing]
             \/ r.addr # NULL /\ live' = [live EXCEPT ![p] = [addr |-> r.addr, size |-> size]]
      BY <2>4 DEF Realloc
    <3> HIDE DEF r
    <3> QED BY <2>1, <3>2, <3>3 DEF BlocksTrue, LiveTrue, TypeOK
  <2>5. ASSUME NEW p \in Pointers, Free(p)
        PROVE  BlocksTrue' /\ LiveTrue'
    <3>1. blocks' = blocks /\ live' = [live EXCEPT ![p] = Nothing]
      BY <2>5 DEF Free
    <3> QED BY <2>1, <3>1 DEF BlocksTrue, LiveTrue, TypeOK
  <2>6. CASE UNCHANGED vars
    BY <2>6 DEF vars, BlocksTrue, LiveTrue
  <2> QED BY <2>2, <2>3, <2>4, <2>5, <2>6 DEF Next
<1>3. Where => StartsAvailable
  BY DEF LiveTrue, AvailableAt, StartsAvailable
<1> QED BY <1>1, <1>2, <1>3, InitInv, NextInv, PTL DEF Spec

-----------------------------------------------------------------------------
(* The reserve of entries.                                                 *)

\* The last two entries are not in use: those that the next memory table takes.
RoomLeft(t) == /\ Len(t) >= 2
               /\ ~t[Len(t)].used /\ ~t[Len(t) - 1].used

LEMMA FirstUnusedExists ==
  ASSUME NEW t \in Table, NEW i \in DOMAIN t, ~t[i].used
  PROVE  \E j \in FirstUnused(t) : j <= i
<1> DEFINE S == {j \in DOMAIN t : ~t[j].used}
<1>1. DOMAIN t = 1..Len(t) /\ Len(t) \in Nat
  BY DEF Table
<1>2. S \subseteq Nat /\ i \in S
  BY <1>1
<1>3. PICK j \in S : \A k \in S : <<k, j>> \notin OpToRel(<, Nat)
  BY <1>2, WFMin, NatLessThanWellFounded
<1>4. \A k \in S : ~(k < j)
  BY <1>2, <1>3 DEF OpToRel
<1>5. j <= i
  BY <1>2, <1>4
<1>6. \A k \in 1..(j - 1) : t[k].used
  <2> TAKE k \in 1..(j - 1)
  <2>1. k \in DOMAIN t /\ k < j
    BY <1>1, <1>2
  <2> QED BY <1>4, <2>1
<1> QED BY <1>5, <1>6 DEF FirstUnused

LEMMA FirstUnusedIs ==
  ASSUME NEW t \in Table, NEW i \in FirstUnused(t)
  PROVE  /\ i \in DOMAIN t /\ i \in Nat /\ ~t[i].used
         /\ \A j \in FirstUnused(t) : j = i
<1>1. \A k \in FirstUnused(t) :
        k \in DOMAIN t /\ ~t[k].used /\ \A j \in 1..(k - 1) : t[j].used
  BY DEF FirstUnused
<1>2. \A k \in FirstUnused(t) : k \in Nat \ {0}
  BY <1>1 DEF Table
<1>3. ASSUME NEW j \in FirstUnused(t) PROVE ~(i < j) /\ ~(j < i)
  <2>1. i < j => i \in 1..(j - 1)
    BY <1>2
  <2>2. j < i => j \in 1..(i - 1)
    BY <1>2
  <2> QED BY <1>1, <2>1, <2>2
<1> QED BY <1>1, <1>2, <1>3

\* The result r of a search in t that took an entry, or found no memory.
Took(t, size, align, r) ==
  /\ ~r.stopped /\ r.addr = MemoryFindSpace(t, size, align)
  /\ \/ r.addr = NULL /\ r.table = t
     \/ /\ r.addr \in Nat
        /\ \E i \in FirstUnused(t) : r.table = WithEntry(t, i, r.addr, size)

LEMMA TakeEntryTakes ==
  ASSUME NEW t, Good(t), NEW size \in Nat, NEW align, blocks \in Blocks,
         ~TakeEntry(t, size, align).stopped
  PROVE  Took(t, size, align, TakeEntry(t, size, align))
<1> DEFINE addr == MemoryFindSpace(t, size, align)
<1>1. addr = NULL \/ addr \in Nat
  BY FindSpaceIsFree DEF Good
<1>2. TakeEntry(t, size, align) = Note(t, addr, size)
  BY DEF TakeEntry
<1> HIDE DEF addr
<1>3. Note(t, addr, size).addr = addr
  BY <1>2 DEF Note, Result
<1>4. ~Note(t, addr, size).stopped
  BY <1>2
<1>5. \/ addr = NULL /\ Note(t, addr, size).table = t
      \/ addr \in Nat /\ \E i \in FirstUnused(t) :
                           Note(t, addr, size).table = WithEntry(t, i, addr, size)
  <2>1. CASE addr = NULL
    BY <2>1 DEF Note, Result
  <2>2. CASE addr # NULL
    <3>1. FirstUnused(t) # {}
      BY <1>4, <2>2 DEF Note, Result
    <3>2. PICK i \in FirstUnused(t) : i = CHOOSE j \in FirstUnused(t) : TRUE
      BY <3>1
    <3>3. Note(t, addr, size) = Result(WithEntry(t, i, addr, size), addr, FALSE)
      BY <2>2, <3>1, <3>2 DEF Note
    <3> QED BY <1>1, <2>2, <3>3 DEF Result, addr
  <2> QED BY <2>1, <2>2
<1> QED BY <1>2, <1>3, <1>4, <1>5 DEF Took, addr

LEMMA TookIs ==
  ASSUME NEW t \in Table, NEW size \in Nat, NEW align, NEW r, Took(t, size, align, r)
  PROVE  /\ r.table \in Table /\ DOMAIN r.table = DOMAIN t /\ Len(r.table) = Len(t)
         /\ \A j \in DOMAIN t : j \notin FirstUnused(t) => r.table[j] = t[j]
<1>1. CASE r.addr = NULL
  BY <1>1 DEF Took, NULL
<1>2. CASE r.addr # NULL
  <2>1. PICK i \in FirstUnused(t) : r.table = WithEntry(t, i, r.addr, size)
    BY <1>2 DEF Took
  <2>2. i \in DOMAIN t /\ r.addr \in Nat
    BY <1>2, FirstUnusedIs DEF Took
  <2>3. PICK u, a : u = r.table /\ a = r.addr
    OBVIOUS
  <2>4. a \in Nat /\ u = WithEntry(t, i, a, size)
    BY <2>1, <2>2, <2>3
  <2>5. /\ u \in Table /\ DOMAIN u = DOMAIN t /\ Len(u) = Len(t)
        /\ \A j \in DOMAIN t : j # i => u[j] = t[j]
    BY <2>2, <2>4 DEF WithEntry, Table, TableEntry
  <2> QED BY <2>3, <2>5
<1> QED BY <1>1, <1>2

LEMMA TakeEntryGoesOn ==
  ASSUME NEW t, FirstUnused(t) # {}, NEW size, NEW align
  PROVE  ~TakeEntry(t, size, align).stopped
BY DEF TakeEntry, Note, Result

\* An entry in front of the last two leaves them for the next memory table.
LEMMA TookKeepsRoom ==
  ASSUME NEW t, Good(t), RoomLeft(t), NEW size \in Nat, NEW align, NEW r,
         Took(t, size, align, r), \A i \in FirstUnused(t) : i <= Len(t) - 2
  PROVE  RoomLeft(r.table)
<1>1. Len(t) \in Nat /\ DOMAIN t = 1..Len(t) /\ Len(t) >= 2
  BY DEF Good, Table, RoomLeft
<1>2. ASSUME NEW i \in FirstUnused(t), r.table = WithEntry(t, i, r.addr, size)
      PROVE  RoomLeft(r.table)
  <2>1. i \in DOMAIN t /\ i <= Len(t) - 2
    BY <1>2 DEF FirstUnused
  <2>2. /\ Len(r.table) = Len(t)
        /\ r.table[Len(t)] = t[Len(t)] /\ r.table[Len(t) - 1] = t[Len(t) - 1]
    BY <1>1, <1>2, <2>1 DEF WithEntry, Good, Table
  <2> QED BY <1>1, <2>2 DEF RoomLeft
<1> QED BY <1>2 DEF Took

\* A table with the entries of a new one behind it.
Longer(t) == t \o [i \in 1..MEMORY_TABLE_NEW_TABLE_ENTRIES |-> Unused]

LEMMA LongerRoom ==
  ASSUME NEW t, Good(t)
  PROVE  /\ RoomLeft(Longer(t))
         /\ Len(Longer(t)) = Len(t) + MEMORY_TABLE_NEW_TABLE_ENTRIES
         /\ \A i \in DOMAIN t : Longer(t)[i] = t[i]
         /\ \A i \in DOMAIN Longer(t) \ DOMAIN t : Longer(t)[i] = Unused
<1> DEFINE n == MEMORY_TABLE_NEW_TABLE_ENTRIES
           s == [i \in 1..n |-> Unused]
<1>1. n \in Nat /\ n >= 3
  BY SizesAssumption, ReserveAssumption
<1> HIDE DEF n
<1>2. s \in Table /\ Len(s) = n
  BY <1>1 DEF Table, TableEntry, Unused
<1>3. t \in Table /\ Len(t) \in Nat /\ DOMAIN t = 1..Len(t)
  BY DEF Good, Table
<1>4. Len(t \o s) = Len(t) + n /\ DOMAIN (t \o s) = 1..(Len(t) + n)
  BY <1>1, <1>2, <1>3 DEF Table
<1>5. \A i \in DOMAIN t : (t \o s)[i] = t[i]
  BY <1>2, <1>3 DEF Table
<1>6. \A i \in DOMAIN (t \o s) \ DOMAIN t : (t \o s)[i] = Unused
  <2> TAKE i \in DOMAIN (t \o s) \ DOMAIN t
  <2>1. i - Len(t) \in 1..n /\ (t \o s)[i] = s[i - Len(t)]
    BY <1>1, <1>2, <1>3, <1>4 DEF Table
  <2> QED BY <2>1
<1>7. RoomLeft(t \o s)
  <2>1. {Len(t) + n, Len(t) + n - 1} \subseteq DOMAIN (t \o s) \ DOMAIN t
    BY <1>1, <1>3, <1>4
  <2> QED BY <1>1, <1>3, <1>4, <1>6, <2>1 DEF RoomLeft, Unused
<1>8. Longer(t) = t \o s
  BY DEF Longer, n
<1> QED BY <1>4, <1>5, <1>6, <1>7, <1>8 DEF n

LEMMA WithTableIs ==
  ASSUME NEW e, ~e.stopped
  PROVE  ~WithTable(e).stopped /\ WithTable(e).table = Longer(e.table)
BY DEF WithTable, Result, Longer

\* MemoryNewTable finds the entries that it needs: there is a new table unless there
\* is no memory for its index.
LEMMA NewTableMade ==
  ASSUME NEW t, Good(t), RoomLeft(t), blocks \in Blocks
  PROVE  LET index == TakeEntry(t, TableIndexSize, "ALIGN_NONE")
             size  == EntrySize * MEMORY_TABLE_NEW_TABLE_ENTRIES
             m     == MemoryNewTable(t)
         IN  \/ m = index /\ index.addr = NULL /\ ~m.stopped /\ m.table = t
             \/ /\ ~m.stopped /\ index.addr # NULL
                /\ Took(t, TableIndexSize, "ALIGN_NONE", index) /\ Good(index.table)
                /\ \E entries : /\ Took(index.table, size, "ALIGN_NONE", entries)
                                /\ Good(entries.table)
                                /\ Len(entries.table) = Len(t)
                                /\ m.table = Longer(entries.table)
<1> DEFINE index   == TakeEntry(t, TableIndexSize, "ALIGN_NONE")
           size    == EntrySize * MEMORY_TABLE_NEW_TABLE_ENTRIES
           entries == TakeEntry(index.table, size, "ALIGN_NONE")
           m       == MemoryNewTable(t)
<1>1. TableIndexSize \in Nat /\ size \in Nat
  BY SizesAssumption DEF SizeConstants
<1>2. Len(t) \in Nat /\ DOMAIN t = 1..Len(t) /\ Len(t) >= 2 /\ t \in Table
  BY DEF Good, Table, RoomLeft
<1>3. PICK j \in FirstUnused(t) : j <= Len(t) - 1
  BY <1>2, FirstUnusedExists DEF RoomLeft
<1>4. ~index.stopped /\ GoodResult(index)
  BY <1>1, <1>3, TakeEntryGoesOn, TakeEntryGood
<1>5. Took(t, TableIndexSize, "ALIGN_NONE", index)
  BY <1>1, <1>4, TakeEntryTakes
<1>6. CASE index.addr = NULL
  <2>1. m = index
    BY <1>6 DEF MemoryNewTable, WithIndex
  <2>2. index.table = t
    BY <1>5, <1>6 DEF Took, NULL
  <2> HIDE DEF index, m
  <2> QED BY <1>4, <1>6, <2>1, <2>2 DEF index, m
<1>7. CASE index.addr # NULL
  <2>3. /\ index.table \in Table /\ Len(index.table) = Len(t)
        /\ Len(t) \in DOMAIN index.table /\ ~index.table[Len(t)].used
    <3>1. Len(t) \in DOMAIN t /\ Len(t) \notin FirstUnused(t)
      BY <1>2, <1>3, FirstUnusedIs
    <3>2. /\ index.table \in Table /\ DOMAIN index.table = DOMAIN t
          /\ Len(index.table) = Len(t) /\ index.table[Len(t)] = t[Len(t)]
      BY <1>1, <1>2, <1>5, <3>1, TookIs
    <3> QED BY <3>1, <3>2 DEF RoomLeft
  <2>4. FirstUnused(index.table) # {}
    BY <2>3, FirstUnusedExists
  <2>5. Good(index.table)
    BY <1>4 DEF GoodResult
  <2>6. ~entries.stopped /\ GoodResult(entries)
    BY <1>1, <2>4, <2>5, TakeEntryGoesOn, TakeEntryGood
  <2>7. Took(index.table, size, "ALIGN_NONE", entries)
    BY <1>1, <2>5, <2>6, TakeEntryTakes
  <2>8. m = WithTable(entries)
    BY <1>4, <1>7 DEF MemoryNewTable, WithIndex
  <2>9. m.table = Longer(entries.table) /\ ~m.stopped
    BY <2>6, <2>8, WithTableIs
  <2>10. Len(entries.table) = Len(t)
    BY <1>1, <2>3, <2>7, TookIs
  <2>11. Good(entries.table)
    BY <2>6 DEF GoodResult
  <2> HIDE DEF entries
  <2> QED BY <1>5, <1>7, <2>5, <2>7, <2>9, <2>10, <2>11
<1> QED BY <1>6, <1>7

\* malloc stops the kernel only where it finds no memory for the index of a new
\* table; otherwise it leaves room for the next one.
LEMMA MallocGoesOn ==
  ASSUME NEW t, Good(t), RoomLeft(t), NEW size \in Nat, NEW align,
         blocks \in Blocks
  PROVE  LET r == __malloc_align(t, size, align)
         IN  \/ ~r.stopped /\ RoomLeft(r.table)
             \/ /\ r.stopped /\ r.addr = NULL /\ r.table = t
                /\ MemoryFindSpace(t, TableIndexSize, "ALIGN_NONE") = NULL
<1>1. ASSUME NEW u, Good(u), RoomLeft(u),
             MemoryFindSpace(u, size, align) = NULL \/ ~ReserveReached(u)
      PROVE  ~TakeEntry(u, size, align).stopped /\ RoomLeft(TakeEntry(u, size, align).table)
  <2>1. u \in Table /\ Len(u) \in Nat /\ DOMAIN u = 1..Len(u) /\ Len(u) >= 2
    BY <1>1 DEF Good, Table, RoomLeft
  <2>2. FirstUnused(u) # {}
    BY <1>1, <2>1, FirstUnusedExists DEF RoomLeft
  <2>3. ~TakeEntry(u, size, align).stopped
    BY <2>2, TakeEntryGoesOn
  <2>4. Took(u, size, align, TakeEntry(u, size, align))
    BY <1>1, <2>3, TakeEntryTakes
  <2>5. CASE MemoryFindSpace(u, size, align) = NULL
    BY <1>1, <2>4, <2>5 DEF Took, NULL
  <2>6. CASE ~ReserveReached(u)
    <3>1. PICK i \in FirstUnused(u) : ~(i > Len(u) - TableReserve + 1)
      BY <2>6 DEF ReserveReached
    <3>2. i \in Nat /\ \A j \in FirstUnused(u) : j = i
      BY <2>1, FirstUnusedIs
    <3>3. TableReserve \in Nat /\ TableReserve > 2
      BY SizesAssumption, ReserveAssumption
    <3>4. \A j \in FirstUnused(u) : j <= Len(u) - 2
      BY <2>1, <3>1, <3>2, <3>3
    <3> QED BY <1>1, <2>3, <2>4, <3>4, TookKeepsRoom
  <2> QED BY <1>1, <2>5, <2>6
<1>2. CASE MemoryFindSpace(t, size, align) = NULL \/ ~ReserveReached(t)
  BY <1>1, <1>2 DEF __malloc_align
<1>3. CASE MemoryFindSpace(t, size, align) # NULL /\ ReserveReached(t)
  <2>1. __malloc_align(t, size, align) = Restart(MemoryNewTable(t), size, align)
    BY <1>3 DEF __malloc_align
  <2>2. CASE /\ MemoryNewTable(t).table = t /\ ~MemoryNewTable(t).stopped
             /\ MemoryFindSpace(t, TableIndexSize, "ALIGN_NONE") = NULL
    BY <1>3, <2>1, <2>2 DEF Restart, Result
  <2>3. ASSUME NEW e, Good(e.table), Len(e.table) = Len(t),
               MemoryNewTable(t).table = Longer(e.table), ~MemoryNewTable(t).stopped,
               NEW j \in FirstUnused(Longer(e.table)), j <= Len(t) + 1
        PROVE  ~ReserveReached(Longer(e.table))
    <3>1. Len(Longer(e.table)) = Len(t) + MEMORY_TABLE_NEW_TABLE_ENTRIES
      BY <2>3, LongerRoom
    <3>2. Len(t) \in Nat /\ Longer(e.table) \in Table
      <4>1. MEMORY_TABLE_NEW_TABLE_ENTRIES \in Nat
        BY SizesAssumption
      <4>2. Good(Longer(e.table))
        BY <2>3, <4>1, LongerGood DEF Longer
      <4> QED BY <4>2 DEF Good, Table
    <3>3. j \in Nat
      BY <2>3, <3>2, FirstUnusedIs
    <3>4. ~(j > Len(Longer(e.table)) - TableReserve + 1)
      BY <2>3, <3>1, <3>2, <3>3, SizesAssumption, ReserveAssumption
    <3> QED BY <2>3, <3>4 DEF ReserveReached
  <2>4. ASSUME NEW e, Good(e.table), Len(e.table) = Len(t),
               MemoryNewTable(t).table = Longer(e.table), ~MemoryNewTable(t).stopped
        PROVE  /\ ~__malloc_align(t, size, align).stopped
               /\ RoomLeft(__malloc_align(t, size, align).table)
    <3>1. /\ RoomLeft(Longer(e.table)) /\ Good(Longer(e.table))
          /\ Len(Longer(e.table)) = Len(t) + MEMORY_TABLE_NEW_TABLE_ENTRIES
          /\ \A i \in DOMAIN Longer(e.table) \ DOMAIN e.table : Longer(e.table)[i] = Unused
      BY <2>4, LongerRoom, LongerGood, SizesAssumption DEF Longer
    <3>2. PICK j \in FirstUnused(Longer(e.table)) : j <= Len(t) + 1
      <4>1. Len(t) \in Nat /\ DOMAIN e.table = 1..Len(t) /\ Longer(e.table) \in Table
        BY <2>4, <3>1 DEF Good, Table
      <4>2. Len(t) + 1 \in DOMAIN Longer(e.table) \ DOMAIN e.table
        BY <3>1, <4>1, SizesAssumption DEF Table
      <4> QED BY <3>1, <4>1, <4>2, FirstUnusedExists DEF Unused
    <3>3. ~ReserveReached(Longer(e.table))
      BY <2>3, <2>4, <3>2
    <3>4. __malloc_align(t, size, align) = TakeEntry(Longer(e.table), size, align)
      BY <2>1, <2>4, <3>3 DEF Restart
    <3> QED BY <1>1, <3>1, <3>3, <3>4
  <2>5. CASE /\ MemoryNewTable(t) = TakeEntry(t, TableIndexSize, "ALIGN_NONE")
             /\ TakeEntry(t, TableIndexSize, "ALIGN_NONE").addr = NULL
             /\ ~MemoryNewTable(t).stopped /\ MemoryNewTable(t).table = t
    <3>1. Took(t, TableIndexSize, "ALIGN_NONE", MemoryNewTable(t))
      BY <2>5, TakeEntryTakes, SizesAssumption DEF SizeConstants
    <3> QED BY <2>2, <2>5, <3>1 DEF Took
  <2>6. CASE \E e : /\ Good(e.table) /\ Len(e.table) = Len(t)
                    /\ MemoryNewTable(t).table = Longer(e.table)
                    /\ ~MemoryNewTable(t).stopped
    BY <2>4, <2>6
  <2> QED BY <2>5, <2>6, NewTableMade
<1> QED BY <1>2, <1>3

\* The boot areas leave the last two entries of the first table.
RoomAtBoot == Len(BootAreas) + 3 <= MEMORY_TABLE_INITIAL_ENTRIES

LEMMA FirstTableRoom ==
  ASSUME RoomAtBoot, NEW place
  PROVE  RoomLeft(FirstTable(place))
<1> DEFINE n == MEMORY_TABLE_INITIAL_ENTRIES
           u == FirstTable(place)
<1>1. Len(BootAreas) \in Nat
  BY BootAreasAssumption
<1>2. n \in Nat /\ n - 1 > Len(BootAreas) + 1
  BY <1>1, SizesAssumption DEF RoomAtBoot
<1>3. \A i \in 1..n : i > Len(BootAreas) + 1 => u[i] = Unused
  BY <1>1, <1>2 DEF FirstTable
<1>4. Len(u) = n
  BY <1>2 DEF FirstTable
<1> HIDE DEF n, u
<1>5. n \in 1..n /\ n - 1 \in 1..n /\ n > Len(BootAreas) + 1
  BY <1>1, <1>2
<1>6. ~u[n].used /\ ~u[n - 1].used
  BY <1>2, <1>3, <1>5 DEF Unused
<1> QED BY <1>1, <1>2, <1>4, <1>6 DEF RoomLeft, u

LEMMA SameSpace ==
  ASSUME UNCHANGED <<blocks, table>>
  PROVE  MemoryFindSpace(table, TableIndexSize, "ALIGN_NONE")'
           = MemoryFindSpace(table, TableIndexSize, "ALIGN_NONE")
BY DEF MemoryFindSpace, Spaces, Fits

\* Room for the entries of a new table while the kernel runs, and why it stopped.
Growth ==
  blocks # <<>> =>
    IF halted THEN MemoryFindSpace(table, TableIndexSize, "ALIGN_NONE") = NULL
    ELSE RoomLeft(table)

\* What malloc does to Growth: r is its result, and what is not stopped may free
\* entries afterwards.
LEMMA MallocGrowth ==
  ASSUME Inv, Growth, ~halted, blocks # <<>>, NEW size \in Nat, NEW align, NEW r,
         r = __malloc_align(table, size, align), halted' = r.stopped,
         r.stopped => table' = r.table /\ (r.addr = NULL => blocks' = blocks),
         ~r.stopped /\ RoomLeft(r.table) => RoomLeft(table')
  PROVE  Growth'
<1>1. Good(table) /\ blocks \in Blocks /\ RoomLeft(table)
  BY InvGood DEF TypeOK, Blocks, Growth
<1>2. \/ ~r.stopped /\ RoomLeft(r.table)
      \/ /\ r.stopped /\ r.addr = NULL /\ r.table = table
         /\ MemoryFindSpace(table, TableIndexSize, "ALIGN_NONE") = NULL
  BY <1>1, MallocGoesOn
<1>3. CASE ~r.stopped
  <2>1. ~halted' /\ RoomLeft(table')
    BY <1>2, <1>3
  <2> QED BY <2>1 DEF Growth, RoomLeft
<1>4. CASE r.stopped
  <2>1. UNCHANGED <<blocks, table>>
    BY <1>2, <1>4
  <2> QED BY <1>2, <1>4, <2>1, SameSpace DEF Growth
<1> QED BY <1>3, <1>4

LEMMA ReleasedRoom ==
  ASSUME NEW t, RoomLeft(t), NEW addr, t \in Table
  PROVE  RoomLeft(Released(t, addr))
<1> DEFINE u == Released(t, addr)
<1>1. DOMAIN t = 1..Len(t) /\ Len(t) \in Nat /\ Len(t) >= 2
  BY DEF Table, RoomLeft
<1>2. DOMAIN u = DOMAIN t /\ \A i \in DOMAIN t : ~t[i].used => ~u[i].used
  BY EntryFields DEF Released, TableEntry
<1>3. Len(u) = Len(t)
  BY <1>1 DEF Released
<1> HIDE DEF u
<1> QED BY <1>1, <1>2, <1>3 DEF RoomLeft, u

LEMMA StepGrowth ==
  ASSUME RoomAtBoot, Inv, Growth, [Next]_vars
  PROVE  Growth'
<1>1. Good(table) /\ table \in Table /\ blocks \in Blocks
  BY InvGood DEF TypeOK, Blocks, Table
<1>2. CASE MemoryNewBlock
  <2> DEFINE e == MemoryMap[mapped + 1]
  <2>1. CASE UNCHANGED <<blocks, table, halted>>
    BY <2>1, SameSpace DEF Growth, RoomLeft
  <2>2. CASE FirstBlock(BlockOf(e))
    <3>1. CASE blocks' = blocks
      BY <2>2, <3>1 DEF FirstBlock, Growth
    <3>2. CASE blocks' # blocks
      <4>1. PICK place : table' = FirstTable(place)
        BY <2>2, <3>2 DEF FirstBlock
      <4>2. RoomLeft(table')
        BY <4>1, FirstTableRoom
      <4>3. ~halted /\ halted' = halted
        BY <1>2, <2>2, <3>2 DEF MemoryNewBlock, FirstBlock
      <4> QED BY <4>2, <4>3 DEF Growth, RoomLeft
    <3> QED BY <3>1, <3>2
  <2>3. CASE LaterBlock(BlockOf(e))
    <3>1. PICK r : /\ r = __malloc_align(table, BlockSize, "ALIGN_NONE")
                   /\ table' = r.table /\ halted' = r.stopped
                   /\ blocks' = IF r.addr = NULL THEN blocks
                                ELSE Append(blocks, BlockOf(e))
      BY <2>3 DEF LaterBlock
    <3>2. ~halted /\ blocks # <<>> /\ BlockSize \in Nat
      BY <1>2, <2>3, SizesAssumption DEF MemoryNewBlock, LaterBlock, SizeConstants
    <3> QED BY <3>1, <3>2, MallocGrowth
  <2> QED BY <1>2, <2>1, <2>2, <2>3 DEF MemoryNewBlock
<1>3. ASSUME NEW p \in Pointers, NEW size \in Sizes, NEW align \in Aligns,
             Malloc(p, size, align)
      PROVE  Growth'
  <2>1. PICK r : /\ r = __malloc_align(table, size, align)
                 /\ table' = r.table /\ halted' = r.stopped
    BY <1>3 DEF Malloc
  <2>2. ~halted /\ blocks # <<>> /\ blocks' = blocks /\ size \in Nat
    BY <1>3, SizesAssumption DEF Malloc, Running
  <2> QED BY <2>1, <2>2, MallocGrowth
<1>4. ASSUME NEW p \in Pointers, NEW size \in Sizes, Realloc(p, size)
      PROVE  Growth'
  <2>1. PICK r : /\ r = __malloc_align(table, size, "ALIGN_NONE") /\ halted' = r.stopped
                 /\ table' = IF r.stopped THEN r.table
                             ELSE Released(r.table, live[p].addr)
    BY <1>4 DEF Realloc
  <2>2. ~halted /\ blocks # <<>> /\ blocks' = blocks /\ size \in Nat
    BY <1>4, SizesAssumption DEF Realloc, Running
  <2>3. r.table \in Table
    BY <1>1, <2>1, <2>2, MallocGood DEF GoodResult, Good
  <2>4. ~r.stopped /\ RoomLeft(r.table) => RoomLeft(table')
    BY <2>1, <2>3, ReleasedRoom
  <2> QED BY <2>1, <2>2, <2>4, MallocGrowth
<1>5. ASSUME NEW p \in Pointers, Free(p)
      PROVE  Growth'
  <2>1. /\ ~halted /\ blocks # <<>> /\ UNCHANGED <<blocks, halted>>
        /\ table' = Released(table, live[p].addr)
    BY <1>5 DEF Free, Running
  <2>2. RoomLeft(table')
    BY <1>1, <2>1, ReleasedRoom DEF Growth
  <2> QED BY <2>1, <2>2 DEF Growth, RoomLeft
<1>6. CASE UNCHANGED vars
  BY <1>6, SameSpace DEF vars, Growth, RoomLeft
<1> QED BY <1>2, <1>3, <1>4, <1>5, <1>6 DEF Next

\* TablesGrow: once the kernel runs, malloc stops it only if not even the index of a
\* new memory table can be allocated, for every sequence of requests, if the boot areas
\* leave two entries of the first table.
THEOREM ReserveIsEnough ==
  ASSUME RoomAtBoot
  PROVE  Spec => []TablesGrow
<1>1. Init => Growth
  BY DEF Init, Growth
<1>2. Inv /\ Growth /\ [Next]_vars => Growth'
  BY StepGrowth
<1>3. Growth => TablesGrow
  BY DEF Growth, TablesGrow
<1> QED BY <1>1, <1>2, <1>3, InitInv, NextInv, PTL DEF Spec

-----------------------------------------------------------------------------
(* The entries in use and the pointers that hold them.                     *)

InUse(t)      == {i \in DOMAIN t : t[i].used}
At(t, a)      == {i \in InUse(t) : t[i].addr = a}
Held(l)       == {p \in Pointers : l[p] # Nothing}
HeldAt(l, a)  == {p \in Held(l) : l[p].addr = a}
If(condition) == IF condition THEN 1 ELSE 0

LEMMA InUseFinite ==
  ASSUME NEW t \in Table
  PROVE  /\ IsFiniteSet(InUse(t)) /\ Cardinality(InUse(t)) \in Nat
         /\ \A a : IsFiniteSet(At(t, a)) /\ Cardinality(At(t, a)) \in Nat
<1>1. IsFiniteSet(DOMAIN t)
  BY FS_Interval DEF Table
<1>2. IsFiniteSet(InUse(t))
  BY <1>1, FS_Subset DEF InUse
<1>3. \A a : IsFiniteSet(At(t, a))
  BY <1>2, FS_Subset DEF At
<1> QED BY <1>2, <1>3, FS_CardinalityType

\* From t to u at most n entries come into use, one of them at the address a.
Entered(t, u, a, n) ==
  /\ Cardinality(InUse(u)) <= Cardinality(InUse(t)) + n
  /\ \A b \in Nat : Cardinality(At(u, b)) >= Cardinality(At(t, b)) + If(b = a)

LEMMA IfType == \A condition : If(condition) \in {0, 1}
BY DEF If

LEMMA EnteredWeaker ==
  ASSUME NEW t \in Table, NEW u \in Table, NEW a, NEW n \in Nat, NEW m \in Nat,
         n <= m, Entered(t, u, a, n)
  PROVE  Entered(t, u, NULL, m)
<1>1. Cardinality(InUse(u)) <= Cardinality(InUse(t)) + m
  BY InUseFinite DEF Entered
<1>2. ASSUME NEW b \in Nat
      PROVE  Cardinality(At(u, b)) >= Cardinality(At(t, b)) + If(b = NULL)
  <2>1. /\ Cardinality(At(u, b)) \in Nat /\ Cardinality(At(t, b)) \in Nat
        /\ Cardinality(At(u, b)) >= Cardinality(At(t, b)) + If(b = a)
    BY InUseFinite DEF Entered
  <2>2. If(b = NULL) = 0 /\ If(b = a) \in {0, 1}
    BY DEF If, NULL
  <2> QED BY <2>1, <2>2
<1> QED BY <1>1, <1>2 DEF Entered

LEMMA EnteredTwice ==
  ASSUME NEW t \in Table, NEW u \in Table, NEW w \in Table, NEW a, NEW b,
         NEW n \in Nat, NEW m \in Nat, Entered(t, u, a, n), Entered(u, w, b, m)
  PROVE  Entered(t, w, b, n + m)
<1>1. Cardinality(InUse(w)) <= Cardinality(InUse(t)) + (n + m)
  BY InUseFinite DEF Entered
<1>2. ASSUME NEW c \in Nat
      PROVE  Cardinality(At(w, c)) >= Cardinality(At(t, c)) + If(c = b)
  <2>1. /\ Cardinality(At(u, c)) \in Nat /\ Cardinality(At(t, c)) \in Nat
        /\ Cardinality(At(w, c)) \in Nat
        /\ Cardinality(At(u, c)) >= Cardinality(At(t, c)) + If(c = a)
        /\ Cardinality(At(w, c)) >= Cardinality(At(u, c)) + If(c = b)
    BY InUseFinite DEF Entered
  <2>2. If(c = a) \in {0, 1} /\ If(c = b) \in {0, 1}
    BY IfType
  <2> QED BY <2>1, <2>2
<1> QED BY <1>1, <1>2 DEF Entered

LEMMA TookEnters ==
  ASSUME NEW t \in Table, NEW size \in Nat, NEW align, NEW r, Took(t, size, align, r)
  PROVE  Entered(t, r.table, r.addr, If(r.addr # NULL))
<1>1. CASE r.addr = NULL
  <2>1. r.table = t
    BY <1>1 DEF Took, NULL
  <2> QED BY <1>1, <2>1, InUseFinite DEF Entered, If, NULL
<1>2. CASE r.addr # NULL
  <2>1. PICK i \in FirstUnused(t) : r.table = WithEntry(t, i, r.addr, size)
    BY <1>2 DEF Took
  <2>2. i \in DOMAIN t /\ ~t[i].used /\ r.addr \in Nat
    BY <1>2, FirstUnusedIs DEF Took
  <2>3. PICK u, a : u = r.table /\ a = r.addr
    OBVIOUS
  <2>4. /\ DOMAIN u = DOMAIN t /\ u[i].used /\ u[i].addr = a
        /\ \A j \in DOMAIN t : j # i => u[j] = t[j]
    BY <2>1, <2>2, <2>3 DEF WithEntry, Table, TableEntry
  <2>5. InUse(u) = InUse(t) \cup {i} /\ i \notin InUse(t)
    BY <2>2, <2>4 DEF InUse
  <2>6. Cardinality(InUse(u)) = Cardinality(InUse(t)) + 1
    BY <2>5, InUseFinite, FS_AddElement
  <2>7. ASSUME NEW b \in Nat
        PROVE  Cardinality(At(u, b)) >= Cardinality(At(t, b)) + If(b = a)
    <3>1. CASE b = a
      <4>1. At(u, b) = At(t, b) \cup {i} /\ i \notin At(t, b)
        BY <2>2, <2>4, <2>5, <3>1 DEF At, InUse
      <4>2. Cardinality(At(u, b)) = Cardinality(At(t, b)) + 1
        BY <4>1, InUseFinite, FS_AddElement
      <4> QED BY <3>1, <4>2, InUseFinite DEF If
    <3>2. CASE b # a
      <4>1. At(u, b) = At(t, b)
        BY <2>2, <2>4, <2>5, <3>2 DEF At, InUse
      <4> QED BY <3>2, <4>1, InUseFinite DEF If
    <3> QED BY <3>1, <3>2
  <2>8. Entered(t, u, a, 1)
    BY <2>6, <2>7, InUseFinite DEF Entered
  <2> QED BY <1>2, <2>3, <2>8 DEF If
<1> QED BY <1>1, <1>2

\* malloc, unless it stops the kernel, makes at most one new table, of which the index
\* and the entries are allocated, and enters the address that it returns.
Mallocked(t, r, k) ==
  /\ r.table \in Table
  /\ Len(r.table) = Len(t) + k * MEMORY_TABLE_NEW_TABLE_ENTRIES
  /\ Entered(t, r.table, r.addr, 2 * k + If(r.addr # NULL))

LEMMA EnteredOnce ==
  ASSUME NEW t, Good(t), NEW size \in Nat, NEW align, blocks \in Blocks,
         ~TakeEntry(t, size, align).stopped
  PROVE  /\ Good(TakeEntry(t, size, align).table)
         /\ Len(TakeEntry(t, size, align).table) = Len(t)
         /\ Took(t, size, align, TakeEntry(t, size, align))
         /\ Entered(t, TakeEntry(t, size, align).table, TakeEntry(t, size, align).addr,
                    If(TakeEntry(t, size, align).addr # NULL))
<1>1. PICK r : r = TakeEntry(t, size, align)
  OBVIOUS
<1>2. Took(t, size, align, r) /\ GoodResult(r)
  BY <1>1, TakeEntryTakes, TakeEntryGood
<1>3. Len(r.table) = Len(t) /\ Entered(t, r.table, r.addr, If(r.addr # NULL))
  BY <1>2, TookIs, TookEnters DEF Good
<1> QED BY <1>1, <1>2, <1>3 DEF GoodResult

LEMMA LongerEnters ==
  ASSUME NEW t, Good(t)
  PROVE  InUse(Longer(t)) = InUse(t) /\ \A a : At(Longer(t), a) = At(t, a)
<1>1. DOMAIN t \subseteq DOMAIN Longer(t)
  <2>1. /\ DOMAIN t = 1..Len(t) /\ Len(t) \in Nat
        /\ MEMORY_TABLE_NEW_TABLE_ENTRIES \in Nat
    BY SizesAssumption DEF Good, Table
  <2>2. Good(Longer(t))
    BY <2>1, LongerGood DEF Longer
  <2>3. DOMAIN Longer(t) = 1..(Len(t) + MEMORY_TABLE_NEW_TABLE_ENTRIES)
    BY <2>2, LongerRoom DEF Good, Table
  <2> QED BY <2>1, <2>3
<1>2. /\ \A i \in DOMAIN t : Longer(t)[i] = t[i]
      /\ \A i \in DOMAIN Longer(t) \ DOMAIN t : ~Longer(t)[i].used
  BY LongerRoom DEF Unused
<1>3. InUse(Longer(t)) = InUse(t)
  BY <1>1, <1>2 DEF InUse
<1> QED BY <1>2, <1>3 DEF At, InUse

LEMMA NewTableEnters ==
  ASSUME NEW t, Good(t), blocks \in Blocks, ~MemoryNewTable(t).stopped
  PROVE  /\ Good(MemoryNewTable(t).table)
         /\ \E k \in {0, 1} :
              /\ Len(MemoryNewTable(t).table)
                   = Len(t) + k * MEMORY_TABLE_NEW_TABLE_ENTRIES
              /\ Entered(t, MemoryNewTable(t).table, NULL, 2 * k)
<1> DEFINE size == EntrySize * MEMORY_TABLE_NEW_TABLE_ENTRIES
<1>1. /\ TableIndexSize \in Nat /\ size \in Nat
      /\ MEMORY_TABLE_NEW_TABLE_ENTRIES \in Nat
  BY SizesAssumption DEF SizeConstants
<1>2. Good(MemoryNewTable(t).table)
  BY NewTableGood DEF GoodResult
<1>3. PICK index : index = TakeEntry(t, TableIndexSize, "ALIGN_NONE")
  OBVIOUS
<1>4. MemoryNewTable(t) = WithIndex(index) /\ ~index.stopped
  BY <1>3 DEF MemoryNewTable, WithIndex
<1>5. /\ Good(index.table) /\ Len(index.table) = Len(t)
      /\ Took(t, TableIndexSize, "ALIGN_NONE", index)
      /\ Entered(t, index.table, index.addr, If(index.addr # NULL))
  BY <1>1, <1>3, <1>4, EnteredOnce
<1>6. t \in Table /\ Len(t) \in Nat
  BY DEF Good, Table
<1>7. CASE index.addr = NULL
  <2>1. MemoryNewTable(t).table = t
    BY <1>4, <1>5, <1>7 DEF WithIndex, Took, NULL
  <2>2. Entered(t, t, NULL, 2 * 0)
    BY <1>6, InUseFinite DEF Entered, If, NULL
  <2>3. Len(t) = Len(t) + 0 * MEMORY_TABLE_NEW_TABLE_ENTRIES
    BY <1>1, <1>6
  <2> QED BY <1>2, <2>1, <2>2, <2>3
<1>8. CASE index.addr # NULL
  <2>1. PICK e : e = TakeEntry(index.table, size, "ALIGN_NONE")
    OBVIOUS
  <2>2. MemoryNewTable(t) = WithTable(e) /\ ~e.stopped
    BY <1>4, <1>8, <2>1 DEF WithIndex, WithTable
  <2>3. /\ Good(e.table) /\ Len(e.table) = Len(t)
        /\ Entered(index.table, e.table, e.addr, If(e.addr # NULL))
    BY <1>1, <1>5, <2>1, <2>2, EnteredOnce
  <2>4. MemoryNewTable(t).table = Longer(e.table)
    BY <2>2, WithTableIs
  <2>5. Entered(t, Longer(e.table), NULL, 2)
    <3>1. index.table \in Table /\ e.table \in Table
      BY <1>5, <2>3 DEF Good
    <3>2. PICK n \in {0, 1} : n = If(index.addr # NULL)
      BY IfType
    <3>3. PICK m \in {0, 1} : m = If(e.addr # NULL)
      BY IfType
    <3>4. Entered(t, index.table, index.addr, n) /\ Entered(index.table, e.table, e.addr, m)
      BY <1>5, <2>3, <3>2, <3>3
    <3>5. Entered(t, e.table, e.addr, n + m)
      <4>1. n \in Nat /\ m \in Nat
        OBVIOUS
      <4> QED BY <1>6, <3>1, <3>4, <4>1, EnteredTwice
    <3>6. n + m \in Nat /\ n + m <= 2
      OBVIOUS
    <3>7. Entered(t, e.table, NULL, 2)
      BY <1>6, <3>1, <3>5, <3>6, EnteredWeaker
    <3> QED BY <2>3, <3>7, LongerEnters DEF Entered
  <2>6. Len(Longer(e.table)) = Len(t) + 1 * MEMORY_TABLE_NEW_TABLE_ENTRIES
    BY <1>1, <2>3, LongerRoom
  <2> QED BY <1>2, <2>4, <2>5, <2>6
<1> QED BY <1>7, <1>8

LEMMA MallocEnters ==
  ASSUME NEW t, Good(t), NEW size \in Nat, NEW align, blocks \in Blocks,
         NEW r, r = __malloc_align(t, size, align), ~r.stopped
  PROVE  \E k \in {0, 1} : Mallocked(t, r, k)
<1>1. Len(t) \in Nat /\ t \in Table /\ MEMORY_TABLE_NEW_TABLE_ENTRIES \in Nat
  BY SizesAssumption DEF Good, Table
<1>2. CASE r = TakeEntry(t, size, align)
  <2>1. Good(r.table) /\ Len(r.table) = Len(t)
        /\ Entered(t, r.table, r.addr, If(r.addr # NULL))
    BY <1>2, EnteredOnce
  <2>2. Entered(t, r.table, r.addr, 2 * 0 + If(r.addr # NULL))
    BY <2>1 DEF If
  <2> QED BY <1>1, <2>1, <2>2 DEF Mallocked, Good
<1>3. CASE r # TakeEntry(t, size, align)
  <2>1. PICK m : m = MemoryNewTable(t)
    OBVIOUS
  <2>2. r = Restart(m, size, align)
    BY <1>3, <2>1 DEF __malloc_align
  <2>3. ~m.stopped /\ r = TakeEntry(m.table, size, align)
    BY <2>2 DEF Restart, Result
  <2>4. PICK k \in {0, 1} :
          /\ Good(m.table)
          /\ Len(m.table) = Len(t) + k * MEMORY_TABLE_NEW_TABLE_ENTRIES
          /\ Entered(t, m.table, NULL, 2 * k)
    BY <2>1, <2>3, NewTableEnters
  <2>5. Good(r.table) /\ Len(r.table) = Len(m.table)
        /\ Entered(m.table, r.table, r.addr, If(r.addr # NULL))
    BY <2>3, <2>4, EnteredOnce
  <2>6. Entered(t, r.table, r.addr, 2 * k + If(r.addr # NULL))
    <3>1. m.table \in Table /\ r.table \in Table
      BY <2>4, <2>5 DEF Good
    <3>2. If(r.addr # NULL) \in Nat /\ 2 * k \in Nat
      BY <2>4, IfType
    <3> QED BY <1>1, <2>4, <2>5, <3>1, <3>2, EnteredTwice
  <2> QED BY <2>4, <2>5, <2>6 DEF Mallocked, Good
<1> QED BY <1>2, <1>3

\* free makes one entry of the address unused, if there is one.
LEMMA ReleasedLeaves ==
  ASSUME NEW t, Good(t), NEW a, At(t, a) # {}
  PROVE  /\ Released(t, a) \in Table /\ Len(Released(t, a)) = Len(t)
         /\ Cardinality(InUse(Released(t, a))) = Cardinality(InUse(t)) - 1
         /\ \A b : Cardinality(At(Released(t, a), b))
                     >= Cardinality(At(t, b)) - If(b = a)
<1> DEFINE u == Released(t, a)
<1>1. t \in Table /\ DOMAIN t = 1..Len(t) /\ Len(t) \in Nat
  BY DEF Good, Table
<1>2. PICK i \in MemoryFind(t, a) : TRUE
  <2>1. At(t, a) \subseteq Nat
    BY <1>1 DEF At, InUse
  <2>2. PICK i \in At(t, a) : \A k \in At(t, a) : <<k, i>> \notin OpToRel(<, Nat)
    BY <2>1, WFMin, NatLessThanWellFounded
  <2>3. \A k \in At(t, a) : ~(k < i)
    BY <2>1, <2>2 DEF OpToRel
  <2>4. \A k \in 1..(i - 1) : ~(t[k].used /\ t[k].addr = a)
    <3> TAKE k \in 1..(i - 1)
    <3>1. i \in 1..Len(t)
      BY <1>1, <2>2 DEF At, InUse
    <3>2. k \in DOMAIN t /\ k < i
      BY <1>1, <3>1
    <3> QED BY <2>3, <3>2 DEF At, InUse
  <2>5. i \in MemoryFind(t, a)
    BY <2>2, <2>4 DEF MemoryFind, At, InUse
  <2> QED BY <2>5
<1>3. i \in DOMAIN t /\ t[i].used /\ t[i].addr = a
  BY <1>2 DEF MemoryFind
<1>4. \A j \in MemoryFind(t, a) : j = i
  <2> TAKE j \in MemoryFind(t, a)
  <2>1. /\ j \in DOMAIN t /\ t[j].used /\ t[j].addr = a
        /\ \A k \in 1..(j - 1) : ~(t[k].used /\ t[k].addr = a)
        /\ \A k \in 1..(i - 1) : ~(t[k].used /\ t[k].addr = a)
    BY <1>2 DEF MemoryFind
  <2>2. i \in Nat \ {0} /\ j \in Nat \ {0}
    BY <1>1, <1>3, <2>1
  <2>3. ~(i < j)
    <3>1. i < j => i \in 1..(j - 1)
      BY <2>2
    <3> QED BY <1>3, <2>1, <3>1
  <2>4. ~(j < i)
    <3>1. j < i => j \in 1..(i - 1)
      BY <2>2
    <3> QED BY <2>1, <3>1
  <2> QED BY <2>2, <2>3, <2>4
<1>5. /\ DOMAIN u = DOMAIN t /\ ~u[i].used
      /\ \A j \in DOMAIN t : j # i => u[j] = t[j]
  <2>1. DOMAIN u = DOMAIN t
    BY DEF Released
  <2>2. u[i] = [t[i] EXCEPT !.used = FALSE]
    BY <1>2, <1>3 DEF Released
  <2>3. ~u[i].used
    BY <1>1, <1>3, <2>2, EntryFields DEF TableEntry
  <2>4. \A j \in DOMAIN t : j # i => u[j] = t[j]
    BY <1>4 DEF Released
  <2> HIDE DEF u
  <2> QED BY <2>1, <2>3, <2>4
<1>6. u \in Table
  BY ReleasedGood DEF Good
<1>7. Len(u) = Len(t)
  BY <1>1 DEF Released
<1> HIDE DEF u
<1>8. InUse(u) = InUse(t) \ {i} /\ i \in InUse(t)
  BY <1>3, <1>5 DEF InUse
<1>9. Cardinality(InUse(u)) = Cardinality(InUse(t)) - 1
  BY <1>1, <1>8, InUseFinite, FS_RemoveElement
<1>10. ASSUME NEW b
       PROVE  Cardinality(At(u, b)) >= Cardinality(At(t, b)) - If(b = a)
  <2>1. At(u, b) = At(t, b) \ {i} /\ (i \in At(t, b) <=> b = a)
    BY <1>3, <1>5, <1>8 DEF At, InUse
  <2>2. Cardinality(At(u, b))
          = IF b = a THEN Cardinality(At(t, b)) - 1 ELSE Cardinality(At(t, b))
    BY ZenonT(30), <1>1, <2>1, InUseFinite, FS_RemoveElement
  <2>3. Cardinality(At(t, b)) \in Nat
    BY <1>1, InUseFinite
  <2> QED BY <2>2, <2>3 DEF If
<1> QED BY <1>6, <1>7, <1>9, <1>10 DEF u

LEMMA Replaced ==
  ASSUME NEW S, IsFiniteSet(S), NEW p, NEW T, NEW c \in BOOLEAN,
         T = (S \ {p}) \cup (IF c THEN {p} ELSE {})
  PROVE  /\ IsFiniteSet(T)
         /\ Cardinality(T) = Cardinality(S) - If(p \in S) + If(c)
<1>1. /\ IsFiniteSet(S \ {p}) /\ Cardinality(S) \in Nat
      /\ Cardinality(S \ {p}) = Cardinality(S) - If(p \in S)
  BY FS_RemoveElement, FS_CardinalityType DEF If
<1>2. CASE c
  <2>1. T = (S \ {p}) \cup {p} /\ p \notin S \ {p}
    BY <1>2
  <2>2. IsFiniteSet(T) /\ Cardinality(T) = Cardinality(S \ {p}) + 1
    BY <1>1, <2>1, FS_AddElement
  <2> QED BY <1>1, <1>2, <2>2 DEF If
<1>3. CASE ~c
  <2>1. T = S \ {p}
    BY <1>3
  <2> QED BY <1>1, <1>3, <2>1 DEF If
<1> QED BY <1>2, <1>3

\* What a change of one pointer from l to u does to the counts.
Changed(l, u, p) ==
  /\ IsFiniteSet(Held(u))
  /\ Cardinality(Held(u))
       = Cardinality(Held(l)) - If(l[p] # Nothing) + If(u[p] # Nothing)
  /\ \A a : Cardinality(HeldAt(u, a))
              = Cardinality(HeldAt(l, a)) - If(l[p] # Nothing /\ l[p].addr = a)
                  + If(u[p] # Nothing /\ u[p].addr = a)

LEMMA PointerChanged ==
  ASSUME NEW l, IsFiniteSet(Held(l)), NEW p \in Pointers,
         NEW u, \A q \in Pointers : q # p => u[q] = l[q]
  PROVE  Changed(l, u, p)
<1> DEFINE v == u[p]
<1>1. u[p] = v /\ \A q \in Pointers \ {p} : u[q] = l[q]
  OBVIOUS
<1>2. Held(u) = (Held(l) \ {p}) \cup (IF v # Nothing THEN {p} ELSE {})
  BY <1>1 DEF Held
<1>3. p \in Held(l) <=> l[p] # Nothing
  BY DEF Held
<1>4. /\ IsFiniteSet(Held(u))
      /\ Cardinality(Held(u))
           = Cardinality(Held(l)) - If(l[p] # Nothing) + If(v # Nothing)
  <2>1. PICK c \in BOOLEAN : c <=> v # Nothing
    OBVIOUS
  <2>2. Held(u) = (Held(l) \ {p}) \cup (IF c THEN {p} ELSE {})
    BY <1>2, <2>1
  <2>3. /\ IsFiniteSet(Held(u))
        /\ Cardinality(Held(u)) = Cardinality(Held(l)) - If(p \in Held(l)) + If(c)
    BY <2>2, Replaced
  <2> QED BY <1>3, <2>1, <2>3 DEF If
<1>5. ASSUME NEW a
      PROVE  Cardinality(HeldAt(u, a))
               = Cardinality(HeldAt(l, a)) - If(l[p] # Nothing /\ l[p].addr = a)
                   + If(v # Nothing /\ v.addr = a)
  <2>1. HeldAt(u, a) = (HeldAt(l, a) \ {p})
                         \cup (IF v # Nothing /\ v.addr = a THEN {p} ELSE {})
    BY <1>1, <1>2 DEF HeldAt, Held
  <2>2. p \in HeldAt(l, a) <=> l[p] # Nothing /\ l[p].addr = a
    BY <1>3 DEF HeldAt
  <2>3. IsFiniteSet(HeldAt(l, a))
    BY FS_Subset DEF HeldAt
  <2>4. PICK c \in BOOLEAN : c <=> (v # Nothing /\ v.addr = a)
    OBVIOUS
  <2>5. HeldAt(u, a) = (HeldAt(l, a) \ {p}) \cup (IF c THEN {p} ELSE {})
    BY <2>1, <2>4
  <2>6. Cardinality(HeldAt(u, a))
          = Cardinality(HeldAt(l, a)) - If(p \in HeldAt(l, a)) + If(c)
    BY <2>3, <2>5, Replaced
  <2> QED BY <2>2, <2>4, <2>6 DEF If
<1> QED BY <1>4, <1>5 DEF Changed

NewTables(t) ==
  (Len(t) - MEMORY_TABLE_INITIAL_ENTRIES) \div MEMORY_TABLE_NEW_TABLE_ENTRIES

LEMMA NewTablesAdded ==
  ASSUME NEW t \in Table, NEW u \in Table, NEW k \in {0, 1},
         Len(u) = Len(t) + k * MEMORY_TABLE_NEW_TABLE_ENTRIES
  PROVE  NewTables(u) = NewTables(t) + k /\ NewTables(t) \in Int
<1> DEFINE n == MEMORY_TABLE_NEW_TABLE_ENTRIES
           x == Len(t) - MEMORY_TABLE_INITIAL_ENTRIES
<1>1. n \in Nat \ {0} /\ x \in Int
  BY SizesAssumption DEF Table
<1>2. Len(u) - MEMORY_TABLE_INITIAL_ENTRIES = x + k * n
  BY <1>1, SizesAssumption DEF Table
<1>3. NewTables(t) = x \div n /\ NewTables(u) = (x + k * n) \div n
  BY <1>2 DEF NewTables
<1> HIDE DEF n, x
<1>4. (x + 0 * n) \div n = x \div n /\ (x + 1 * n) \div n = (x \div n) + 1
  BY <1>1
<1>5. x \div n \in Int
  BY <1>1
<1> QED BY <1>3, <1>4, <1>5

\* The entries in use are those of the pointers and those that the kernel keeps.
Booked(t, l, n) ==
  /\ \A a \in Nat : Cardinality(HeldAt(l, a)) <= Cardinality(At(t, a))
  /\ Cardinality(InUse(t))
       <= Len(BootAreas) + n + 2 * NewTables(t) + Cardinality(Held(l))

\* As Booked, but what was entered at addr belongs to nobody yet.
Owed(t, l, n, addr) ==
  /\ \A a \in Nat :
       Cardinality(HeldAt(l, a)) + If(a = addr) <= Cardinality(At(t, a))
  /\ Cardinality(InUse(t))
       <= Len(BootAreas) + n + 2 * NewTables(t) + Cardinality(Held(l))
            + If(addr # NULL)

Ledger ==
  /\ IsFiniteSet(Held(live))
  /\ \A p \in Held(live) : live[p].addr \in Nat
  /\ blocks = <<>> => Held(live) = {}
  /\ ~halted /\ blocks # <<>> => Booked(table, live, Len(blocks))

LEMMA HeldFinite ==
  ASSUME NEW l, IsFiniteSet(Held(l))
  PROVE  /\ Cardinality(Held(l)) \in Nat
         /\ \A a : Cardinality(HeldAt(l, a)) \in Nat
<1>1. \A a : IsFiniteSet(HeldAt(l, a))
  BY FS_Subset DEF HeldAt
<1> QED BY <1>1, FS_CardinalityType

\* malloc enters what it returns, once, for a block or for a pointer.
LEMMA MallocBooked ==
  ASSUME NEW t \in Table, NEW l, IsFiniteSet(Held(l)), NEW n \in Nat, Booked(t, l, n),
         NEW r, NEW k \in {0, 1}, Mallocked(t, r, k)
  PROVE  r.table \in Table /\ Owed(r.table, l, n, r.addr)
<1>1. PICK u : u = r.table
  OBVIOUS
<1>2. /\ u \in Table /\ Len(u) = Len(t) + k * MEMORY_TABLE_NEW_TABLE_ENTRIES
      /\ Entered(t, u, r.addr, 2 * k + If(r.addr # NULL))
  BY <1>1 DEF Mallocked
<1>3. NewTables(u) = NewTables(t) + k /\ NewTables(t) \in Int
  BY <1>2, NewTablesAdded
<1>4. /\ Cardinality(Held(l)) \in Nat /\ \A a : Cardinality(HeldAt(l, a)) \in Nat
      /\ Len(BootAreas) \in Nat /\ If(r.addr # NULL) \in {0, 1}
  BY HeldFinite, BootAreasAssumption, IfType
<1>5. Cardinality(InUse(u))
        <= Len(BootAreas) + n + 2 * NewTables(u) + Cardinality(Held(l))
             + If(r.addr # NULL)
  <2>1. Cardinality(InUse(u)) \in Nat /\ Cardinality(InUse(t)) \in Nat
    BY <1>2, InUseFinite
  <2>2. /\ Cardinality(InUse(u)) <= Cardinality(InUse(t)) + (2 * k + If(r.addr # NULL))
        /\ Cardinality(InUse(t))
             <= Len(BootAreas) + n + 2 * NewTables(t) + Cardinality(Held(l))
    BY <1>2 DEF Entered, Booked
  <2>3. ASSUME NEW cu \in Nat, NEW ct \in Nat, NEW h \in Nat, NEW b \in Nat,
               NEW new \in Int, NEW i \in {0, 1},
               cu <= ct + (2 * k + i), ct <= b + n + 2 * new + h
        PROVE  cu <= b + n + 2 * (new + k) + h + i
    BY <2>3
  <2> QED BY <1>3, <1>4, <2>1, <2>2, <2>3
<1>6. ASSUME NEW a \in Nat
      PROVE  Cardinality(HeldAt(l, a)) + If(a = r.addr) <= Cardinality(At(u, a))
  <2>1. /\ Cardinality(At(u, a)) \in Nat /\ Cardinality(At(t, a)) \in Nat
        /\ Cardinality(HeldAt(l, a)) \in Nat /\ If(a = r.addr) \in {0, 1}
    BY <1>2, <1>4, InUseFinite, IfType
  <2>2. /\ Cardinality(At(u, a)) >= Cardinality(At(t, a)) + If(a = r.addr)
        /\ Cardinality(HeldAt(l, a)) <= Cardinality(At(t, a))
    BY <1>2 DEF Entered, Booked
  <2> QED BY <2>1, <2>2
<1> QED BY <1>1, <1>2, <1>5, <1>6 DEF Owed

LEMMA FirstTableBooked ==
  ASSUME NEW place, Good(FirstTable(place)), NEW l, Held(l) = {}
  PROVE  Booked(FirstTable(place), l, 1)
<1> DEFINE u == FirstTable(place)
           n == MEMORY_TABLE_INITIAL_ENTRIES
<1>1. Len(BootAreas) \in Nat /\ n \in Nat \ {0} /\ MEMORY_TABLE_NEW_TABLE_ENTRIES \in Nat \ {0}
  BY BootAreasAssumption, SizesAssumption
<1>2. DOMAIN u = 1..n /\ Len(u) = n
  BY <1>1 DEF FirstTable
<1>3. InUse(u) \subseteq 1..(Len(BootAreas) + 1)
  <2> SUFFICES ASSUME NEW i \in 1..n, u[i].used, ~(i <= Len(BootAreas) + 1)
               PROVE  FALSE
    BY <1>1, <1>2 DEF InUse
  <2>1. i # 1
    BY <1>1
  <2>2. u[i] = Unused
    BY <2>1 DEF FirstTable
  <2> QED BY <2>2 DEF Unused
<1>4. Cardinality(InUse(u)) <= Len(BootAreas) + 1
  <2>1. /\ IsFiniteSet(1..(Len(BootAreas) + 1))
        /\ Cardinality(1..(Len(BootAreas) + 1)) = Len(BootAreas) + 1
    BY <1>1, FS_Interval
  <2> QED BY <1>3, <2>1, FS_Subset
<1>5. NewTables(u) = 0
  BY <1>1, <1>2 DEF NewTables
<1>6. Cardinality(Held(l)) = 0 /\ \A a : Cardinality(HeldAt(l, a)) = 0
  <2>1. \A a : HeldAt(l, a) = {}
    BY DEF HeldAt
  <2> QED BY <2>1, FS_EmptySet
<1>7. u \in Table
  BY DEF Good
<1> HIDE DEF u
<1>8. Cardinality(InUse(u)) \in Nat /\ \A a : Cardinality(At(u, a)) \in Nat
  BY <1>7, InUseFinite
<1>9. Booked(u, l, 1)
  BY <1>1, <1>4, <1>5, <1>6, <1>8 DEF Booked
<1> QED BY <1>9 DEF u

LEMMA CountTypes ==
  ASSUME NEW t \in Table, NEW l, IsFiniteSet(Held(l))
  PROVE  /\ Cardinality(InUse(t)) \in Nat /\ Cardinality(Held(l)) \in Nat
         /\ \A a : /\ Cardinality(At(t, a)) \in Nat
                   /\ Cardinality(HeldAt(l, a)) \in Nat
         /\ NewTables(t) \in Int /\ Len(BootAreas) \in Nat
<1>1. NewTables(t) \in Int
  <2>1. /\ Len(t) - MEMORY_TABLE_INITIAL_ENTRIES \in Int
        /\ MEMORY_TABLE_NEW_TABLE_ENTRIES \in Nat \ {0}
    BY SizesAssumption DEF Table
  <2> QED BY <2>1 DEF NewTables
<1> QED BY <1>1, HeldFinite, InUseFinite, BootAreasAssumption

\* The entry belongs to the kernel, that is to a block.
LEMMA OwedToKernel ==
  ASSUME NEW t \in Table, NEW l, IsFiniteSet(Held(l)), NEW n \in Nat, NEW addr,
         Owed(t, l, n, addr)
  PROVE  Booked(t, l, n + If(addr # NULL))
<1>1. ASSUME NEW a \in Nat
      PROVE  Cardinality(HeldAt(l, a)) <= Cardinality(At(t, a))
  <2>1. /\ Cardinality(HeldAt(l, a)) \in Nat /\ Cardinality(At(t, a)) \in Nat
        /\ If(a = addr) \in {0, 1}
        /\ Cardinality(HeldAt(l, a)) + If(a = addr) <= Cardinality(At(t, a))
    BY CountTypes, IfType DEF Owed
  <2> QED BY <2>1
<1>2. Cardinality(InUse(t)) <= Len(BootAreas) + (n + If(addr # NULL))
                                 + 2 * NewTables(t) + Cardinality(Held(l))
  <2>1. /\ Cardinality(Held(l)) \in Nat /\ Cardinality(InUse(t)) \in Nat
        /\ NewTables(t) \in Int /\ Len(BootAreas) \in Nat /\ If(addr # NULL) \in {0, 1}
        /\ Cardinality(InUse(t)) <= Len(BootAreas) + n + 2 * NewTables(t)
                                     + Cardinality(Held(l)) + If(addr # NULL)
    BY CountTypes, IfType DEF Owed
  <2> QED BY <2>1
<1> QED BY <1>1, <1>2 DEF Booked

\* The entry belongs to a pointer that held nothing.
LEMMA OwedToPointer ==
  ASSUME NEW t \in Table, NEW V, NEW l \in [Pointers -> V], IsFiniteSet(Held(l)),
         NEW n \in Nat, NEW addr \in Nat, NEW size, Owed(t, l, n, addr),
         NEW p \in Pointers, l[p] = Nothing,
         NEW u, u = [l EXCEPT ![p] = [addr |-> addr, size |-> size]]
  PROVE  IsFiniteSet(Held(u)) /\ Booked(t, u, n)
<1>1. PICK v : v = [addr |-> addr, size |-> size]
  OBVIOUS
<1>2. v # Nothing /\ v.addr = addr /\ addr # NULL
  BY <1>1 DEF Nothing, NULL
<1>3. u[p] = v /\ Changed(l, u, p)
  <2>1. u[p] = v /\ \A q \in Pointers : q # p => u[q] = l[q]
    BY <1>1
  <2> QED BY <2>1, PointerChanged
<1>4. If(l[p] # Nothing) = 0 /\ If(v # Nothing) = 1 /\ If(addr # NULL) = 1
  BY <1>2 DEF If
<1>5. ASSUME NEW a \in Nat
      PROVE  Cardinality(HeldAt(u, a)) <= Cardinality(At(t, a))
  <2>1. /\ If(l[p] # Nothing /\ l[p].addr = a) = 0
        /\ If(v # Nothing /\ v.addr = a) = If(a = addr)
    BY <1>2 DEF If
  <2>2. /\ Cardinality(HeldAt(l, a)) \in Nat /\ If(a = addr) \in {0, 1}
        /\ Cardinality(HeldAt(l, a)) + If(a = addr) <= Cardinality(At(t, a))
    BY CountTypes, IfType DEF Owed
  <2>3. Cardinality(HeldAt(u, a)) = Cardinality(HeldAt(l, a)) - 0 + If(a = addr)
    BY <1>3, <2>1 DEF Changed
  <2> QED BY <2>2, <2>3
<1>6. Cardinality(InUse(t))
        <= Len(BootAreas) + n + 2 * NewTables(t) + Cardinality(Held(u))
  <2>1. /\ Cardinality(Held(l)) \in Nat /\ Cardinality(InUse(t)) \in Nat
        /\ NewTables(t) \in Int /\ Len(BootAreas) \in Nat
        /\ Cardinality(InUse(t)) <= Len(BootAreas) + n + 2 * NewTables(t)
                                     + Cardinality(Held(l)) + 1
    BY <1>4, CountTypes DEF Owed
  <2> QED BY <1>3, <1>4, <2>1 DEF Changed
<1> QED BY <1>3, <1>5, <1>6 DEF Booked, Changed

\* What a pointer held is released, and the pointer holds what was entered, if anything.
LEMMA OwedForOld ==
  ASSUME NEW t, Good(t), NEW l, IsFiniteSet(Held(l)), NEW n \in Nat, NEW addr,
         Owed(t, l, n, addr), NEW p \in Pointers, l[p] # Nothing, l[p].addr \in Nat,
         NEW u, \A q \in Pointers : q # p => u[q] = l[q],
         IF addr = NULL THEN u[p] = Nothing ELSE u[p] # Nothing /\ u[p].addr = addr
  PROVE  IsFiniteSet(Held(u)) /\ Booked(Released(t, l[p].addr), u, n)
<1> DEFINE v == u[p]
<1>1. PICK old \in Nat : old = l[p].addr
  OBVIOUS
<1>2. t \in Table
  BY DEF Good
<1>3. At(t, old) # {}
  <2>1. p \in HeldAt(l, old)
    BY <1>1 DEF HeldAt, Held
  <2>2. Cardinality(HeldAt(l, old)) # 0
    <3>1. IsFiniteSet(HeldAt(l, old))
      BY FS_Subset DEF HeldAt
    <3> QED BY <2>1, <3>1, FS_EmptySet
  <2>3. Cardinality(At(t, old)) # 0
    <3>1. /\ Cardinality(HeldAt(l, old)) \in Nat /\ Cardinality(At(t, old)) \in Nat
          /\ If(old = addr) \in {0, 1}
          /\ Cardinality(HeldAt(l, old)) + If(old = addr) <= Cardinality(At(t, old))
      BY <1>2, CountTypes, IfType DEF Owed
    <3> QED BY <2>2, <3>1
  <2> QED BY <2>3, FS_EmptySet
<1>4. PICK w : w = Released(t, old)
  OBVIOUS
<1>5. /\ w \in Table /\ Len(w) = Len(t)
      /\ Cardinality(InUse(w)) = Cardinality(InUse(t)) - 1
      /\ \A b : Cardinality(At(w, b)) >= Cardinality(At(t, b)) - If(b = old)
  BY <1>3, <1>4, ReleasedLeaves
<1>6. Changed(l, u, p)
  BY PointerChanged
<1>7. ASSUME NEW a \in Nat
      PROVE  Cardinality(HeldAt(u, a)) <= Cardinality(At(w, a))
  <2>1. /\ If(l[p] # Nothing /\ l[p].addr = a) = If(a = old)
        /\ If(v # Nothing /\ v.addr = a) = If(a = addr)
    BY <1>1 DEF If, NULL
  <2>2. /\ Cardinality(HeldAt(l, a)) \in Nat /\ Cardinality(HeldAt(u, a)) \in Nat
        /\ Cardinality(At(t, a)) \in Nat /\ Cardinality(At(w, a)) \in Nat
        /\ If(a = old) \in {0, 1} /\ If(a = addr) \in {0, 1}
    BY <1>2, <1>5, <1>6, CountTypes, IfType DEF Changed
  <2>3. /\ Cardinality(HeldAt(u, a))
             = Cardinality(HeldAt(l, a)) - If(a = old) + If(a = addr)
        /\ Cardinality(At(w, a)) >= Cardinality(At(t, a)) - If(a = old)
        /\ Cardinality(HeldAt(l, a)) + If(a = addr) <= Cardinality(At(t, a))
    BY <1>5, <1>6, <2>1 DEF Owed, Changed
  <2> QED BY <2>2, <2>3
<1>8. Cardinality(InUse(w))
        <= Len(BootAreas) + n + 2 * NewTables(w) + Cardinality(Held(u))
  <2>1. /\ Cardinality(Held(u)) = Cardinality(Held(l)) - 1 + If(addr # NULL)
        /\ NewTables(w) = NewTables(t)
    BY <1>5, <1>6 DEF If, NewTables, Changed
  <2>2. /\ Cardinality(Held(l)) \in Nat /\ Cardinality(InUse(t)) \in Nat
        /\ NewTables(t) \in Int /\ Len(BootAreas) \in Nat /\ If(addr # NULL) \in {0, 1}
    BY <1>2, CountTypes, IfType
  <2>3. Cardinality(InUse(t))
          <= Len(BootAreas) + n + 2 * NewTables(t) + Cardinality(Held(l))
               + If(addr # NULL)
    BY DEF Owed
  <2> QED BY SMTT(30), <1>5, <2>1, <2>2, <2>3
<1> QED BY <1>1, <1>4, <1>6, <1>7, <1>8 DEF Booked, Changed

LEMMA OwedNothing ==
  ASSUME NEW t \in Table, NEW l, IsFiniteSet(Held(l)), NEW n \in Nat, Owed(t, l, n, NULL)
  PROVE  Booked(t, l, n)
<1>1. If(NULL # NULL) = 0
  BY DEF If
<1> QED BY <1>1, OwedToKernel

LEMMA BlockLedger ==
  ASSUME Inv, Inv', Ledger, NEW block, live' = live, ~halted,
         FirstBlock(block) \/ LaterBlock(block)
  PROVE  Ledger'
<1>1. Good(table) /\ table \in Table /\ blocks \in Blocks /\ Len(blocks) \in Nat
  BY InvGood DEF TypeOK, Blocks, Table
<1>2. IsFiniteSet(Held(live)) /\ \A p \in Held(live) : live[p].addr \in Nat
  BY DEF Ledger
<1>3. CASE FirstBlock(block)
  <2>1. CASE halted'
    BY <1>3, <2>1 DEF FirstBlock, Ledger
  <2>2. CASE ~halted'
    <3>1. PICK place : table' = FirstTable(place)
      BY <1>3, <2>2 DEF FirstBlock
    <3>2. blocks' = <<block>> /\ Len(blocks') = 1 /\ Held(live) = {}
      BY <1>3, <2>2 DEF FirstBlock, Ledger
    <3>3. Good(FirstTable(place))
      BY <3>1 DEF Inv, TypeOK, Disjoint, Good, DisjointIn, Table
    <3>4. Booked(FirstTable(place), live, 1)
      BY <3>2, <3>3, FirstTableBooked
    <3> QED BY <1>2, <3>1, <3>2, <3>4 DEF Ledger
  <2> QED BY <2>1, <2>2
<1>4. CASE LaterBlock(block)
  <2>1. PICK r : /\ r = __malloc_align(table, BlockSize, "ALIGN_NONE")
                 /\ table' = r.table /\ halted' = r.stopped
                 /\ blocks' = IF r.addr = NULL THEN blocks ELSE Append(blocks, block)
    BY <1>4 DEF LaterBlock
  <2>2. blocks # <<>> /\ BlockSize \in Nat /\ Booked(table, live, Len(blocks))
    BY <1>4, SizesAssumption DEF LaterBlock, SizeConstants, Ledger
  <2>3. blocks' # <<>> /\ Len(blocks') = Len(blocks) + If(r.addr # NULL)
    BY <1>1, <2>1, <2>2 DEF If, Blocks
  <2>4. CASE halted'
    BY <1>2, <2>3, <2>4 DEF Ledger
  <2>5. CASE ~halted'
    <3>1. PICK k \in {0, 1} : Mallocked(table, r, k)
      BY <1>1, <2>1, <2>2, <2>5, MallocEnters
    <3>2. r.table \in Table /\ Owed(r.table, live, Len(blocks), r.addr)
      BY <1>1, <1>2, <2>2, <3>1, MallocBooked
    <3>3. Booked(r.table, live, Len(blocks) + If(r.addr # NULL))
      BY <1>1, <1>2, <3>2, OwedToKernel
    <3> QED BY <1>2, <2>1, <2>3, <3>3 DEF Ledger
  <2> QED BY <2>4, <2>5
<1> QED BY <1>3, <1>4

LEMMA StepLedger ==
  ASSUME Inv, Ledger, [Next]_vars
  PROVE  Ledger'
<1>1. /\ Good(table) /\ table \in Table /\ blocks \in Blocks /\ Len(blocks) \in Nat
      /\ live \in [Pointers -> [addr : Nat \cup {NULL}, size : Sizes \cup {0}]]
  BY InvGood DEF TypeOK, Blocks, Table
<1>2. IsFiniteSet(Held(live)) /\ \A p \in Held(live) : live[p].addr \in Nat
  BY DEF Ledger
<1>3. CASE MemoryNewBlock
  <2>1. CASE UNCHANGED <<blocks, table, halted, live>>
    BY <2>1 DEF Ledger
  <2>2. ASSUME NEW block, FirstBlock(block) \/ LaterBlock(block)
        PROVE  Ledger'
    BY <1>3, <2>2, NextInv, BlockLedger DEF MemoryNewBlock
  <2> QED BY <1>3, <2>1, <2>2 DEF MemoryNewBlock
<1>4. ASSUME NEW p \in Pointers, NEW size \in Sizes, NEW align \in Aligns,
             Malloc(p, size, align)
      PROVE  Ledger'
  <2>1. PICK r : /\ r = __malloc_align(table, size, align)
                 /\ table' = r.table /\ halted' = r.stopped
                 /\ live' = IF r.addr = NULL THEN live
                            ELSE [live EXCEPT ![p] = [addr |-> r.addr, size |-> size]]
    BY <1>4 DEF Malloc
  <2>2. /\ ~halted /\ blocks # <<>> /\ blocks' = blocks /\ size \in Nat
        /\ live[p] = Nothing /\ Booked(table, live, Len(blocks))
    BY <1>4, SizesAssumption DEF Malloc, Running, Ledger
  <2>3. r.addr \in Nat \cup {NULL}
    BY <1>1, <2>1, <2>2, MallocGood DEF GoodResult
  <2>4. IsFiniteSet(Held(live')) /\ \A q \in Held(live') : live'[q].addr \in Nat
    <3>1. CASE r.addr = NULL
      BY <1>2, <2>1, <3>1
    <3>2. CASE r.addr # NULL
      <4>1. /\ live'[p].addr \in Nat
            /\ \A q \in Pointers : q # p => live'[q] = live[q]
        BY <1>1, <2>1, <2>3, <3>2
      <4>2. IsFiniteSet(Held(live'))
        BY <1>2, <4>1, PointerChanged DEF Changed
      <4> QED BY <1>2, <4>1, <4>2 DEF Held
    <3> QED BY <3>1, <3>2
  <2>5. CASE halted'
    BY <2>2, <2>4, <2>5 DEF Ledger
  <2>6. CASE ~halted'
    <3>1. PICK k \in {0, 1} : Mallocked(table, r, k)
      BY <1>1, <2>1, <2>2, <2>6, MallocEnters
    <3>2. r.table \in Table /\ Owed(r.table, live, Len(blocks), r.addr)
      BY <1>1, <1>2, <2>2, <3>1, MallocBooked
    <3>3. Booked(r.table, live', Len(blocks))
      <4>1. CASE r.addr = NULL
        BY <1>1, <1>2, <2>1, <3>2, <4>1, OwedNothing
      <4>2. CASE r.addr # NULL
        <5>1. PICK t, a, u : t = r.table /\ a = r.addr /\ u = live'
          OBVIOUS
        <5>2. u = [live EXCEPT ![p] = [addr |-> a, size |-> size]] /\ a \in Nat
          BY <2>1, <2>3, <4>2, <5>1
        <5> QED BY ZenonT(30), <1>1, <1>2, <2>2, <3>2, <5>1, <5>2, OwedToPointer
      <4> QED BY <4>1, <4>2
    <3> QED BY <2>1, <2>2, <2>4, <3>3 DEF Ledger
  <2> QED BY <2>5, <2>6
<1>5. ASSUME NEW p \in Pointers, NEW size \in Sizes, Realloc(p, size)
      PROVE  Ledger'
  <2>1. PICK r : /\ r = __malloc_align(table, size, "ALIGN_NONE") /\ halted' = r.stopped
                 /\ table' = IF r.stopped THEN r.table
                             ELSE Released(r.table, live[p].addr)
                 /\ live' = IF r.stopped THEN live
                            ELSE IF r.addr = NULL THEN [live EXCEPT ![p] = Nothing]
                            ELSE [live EXCEPT ![p] = [addr |-> r.addr, size |-> size]]
    BY <1>5 DEF Realloc
  <2>2. /\ ~halted /\ blocks # <<>> /\ blocks' = blocks /\ size \in Nat
        /\ live[p] # Nothing /\ live[p].addr \in Nat
        /\ Booked(table, live, Len(blocks))
    BY <1>2, <1>5, SizesAssumption DEF Realloc, Running, Ledger, Held
  <2>3. CASE halted'
    BY <1>2, <2>1, <2>2, <2>3 DEF Ledger
  <2>4. CASE ~halted'
    <3>1. PICK k \in {0, 1} : Mallocked(table, r, k)
      BY <1>1, <2>1, <2>2, <2>4, MallocEnters
    <3>2. Owed(r.table, live, Len(blocks), r.addr)
      BY <1>1, <1>2, <2>2, <3>1, MallocBooked
    <3>3. Good(r.table) /\ r.addr \in Nat \cup {NULL}
      BY <1>1, <2>1, <2>2, MallocGood DEF GoodResult
    <3>4. PICK t, a, u : t = r.table /\ a = r.addr /\ u = live'
      OBVIOUS
    <3>5. /\ IF a = NULL THEN u[p] = Nothing ELSE u[p] # Nothing /\ u[p].addr = a
          /\ \A q \in Pointers : q # p => u[q] = live[q]
      BY <1>1, <2>1, <2>4, <3>3, <3>4 DEF Nothing, NULL
    <3>6. Owed(t, live, Len(blocks), a) /\ Good(t)
      BY <3>2, <3>3, <3>4
    <3>7. IsFiniteSet(Held(u)) /\ Booked(Released(t, live[p].addr), u, Len(blocks))
      BY <1>1, <1>2, <2>2, <3>5, <3>6, OwedForOld
    <3>8. \A q \in Held(u) : u[q].addr \in Nat
      BY <1>2, <3>3, <3>4, <3>5 DEF Held
    <3> QED BY <2>1, <2>2, <2>4, <3>4, <3>7, <3>8 DEF Ledger
  <2> QED BY <2>3, <2>4
<1>6. ASSUME NEW p \in Pointers, Free(p)
      PROVE  Ledger'
  <2>1. /\ ~halted /\ blocks # <<>> /\ UNCHANGED <<blocks, halted>>
        /\ live[p] # Nothing /\ live[p].addr \in Nat
        /\ Booked(table, live, Len(blocks))
        /\ table' = Released(table, live[p].addr) /\ live' = [live EXCEPT ![p] = Nothing]
    BY <1>2, <1>6 DEF Free, Running, Ledger, Held
  <2>2. Owed(table, live, Len(blocks), NULL)
    <3>1. If(NULL # NULL) = 0 /\ \A a \in Nat : If(a = NULL) = 0
      BY DEF If, NULL
    <3>2. /\ Cardinality(Held(live)) \in Nat /\ NewTables(table) \in Int
          /\ Len(BootAreas) \in Nat /\ \A a : Cardinality(HeldAt(live, a)) \in Nat
      BY <1>1, <1>2, CountTypes
    <3>3. \A a \in Nat : Cardinality(HeldAt(live, a)) + If(a = NULL)
                           <= Cardinality(At(table, a))
      BY <2>1, <3>1, <3>2 DEF Booked
    <3>4. Cardinality(InUse(table))
            <= Len(BootAreas) + Len(blocks) + 2 * NewTables(table)
                 + Cardinality(Held(live)) + If(NULL # NULL)
      BY <1>1, <2>1, <3>1, <3>2 DEF Booked
    <3> QED BY <3>3, <3>4 DEF Owed
  <2>3. live'[p] = Nothing /\ \A q \in Pointers : q # p => live'[q] = live[q]
    BY <1>1, <2>1
  <2>4. IsFiniteSet(Held(live')) /\ Booked(table', live', Len(blocks))
    <3>1. PICK u : u = live'
      OBVIOUS
    <3>2. IsFiniteSet(Held(u)) /\ Booked(Released(table, live[p].addr), u, Len(blocks))
      BY ZenonT(30), <1>1, <1>2, <2>1, <2>2, <2>3, <3>1, OwedForOld
    <3> QED BY <2>1, <3>1, <3>2
  <2>5. \A q \in Held(live') : live'[q].addr \in Nat
    BY <1>1, <1>2, <2>1 DEF Held
  <2> QED BY <2>1, <2>4, <2>5 DEF Ledger
<1>7. CASE UNCHANGED vars
  BY <1>7 DEF vars, Ledger
<1> QED BY <1>3, <1>4, <1>5, <1>6, <1>7 DEF Next

\* Accounted: a pointer that was not freed has its entry, and nothing stays allocated
\* but what pointers hold and what the kernel keeps for itself, for every memory map,
\* however many tables were made in between.
THEOREM NothingLeaks == Spec => []Accounted
<1>1. Init => Ledger
  <2> SUFFICES ASSUME Init PROVE Ledger
    OBVIOUS
  <2>1. Held(live) = {} /\ blocks = <<>>
    BY DEF Init, Held
  <2> QED BY <2>1, FS_EmptySet DEF Ledger
<1>2. Inv /\ Ledger /\ [Next]_vars => Inv' /\ Ledger'
  BY StepLedger, NextInv
<1>3. Inv /\ Ledger => Accounted
  <2> SUFFICES ASSUME Inv, Ledger, ~halted, blocks # <<>>
               PROVE  /\ \A p \in Held(live) :
                           Cardinality(HeldAt(live, live[p].addr))
                             <= Cardinality(At(table, live[p].addr))
                      /\ Cardinality(InUse(table))
                           <= Len(BootAreas) + Len(blocks) + 2 * NewTables(table)
                                + Cardinality(Held(live))
    BY DEF Accounted, InUse, At, Held, HeldAt, NewTables
  <2> QED BY DEF Ledger, Booked
<1> QED BY <1>1, <1>2, <1>3, InitInv, PTL DEF Spec
-----------------------------------------------------------------------------
(* The loops of the search find the lowest address.                        *)

\* The addresses to which the search of a block comes from addr, if none is free, and
\* those of them that are.
Onward(addr, end, align) ==
  IF align = "ALIGN_4KB"
  THEN {a \in Nat : \E k \in Nat : a = addr + k * PageSize /\ (k = 0 \/ a < end)}
  ELSE {addr} \cup
       {a \in {table[i].addr + table[i].size : i \in InUse(table)} : addr < a /\ a < end}

FreeFrom(addr, end, size, align) ==
  {a \in Onward(addr, end, align) : MemoryIsFree(table, a, size)}

LEMMA LowestOf ==
  ASSUME NEW S, NEW a \in S, a \in Nat, \A b \in S : b \in Nat /\ a <= b
  PROVE  OneOf(Lowest(S)) = a
<1>1. a \in Lowest(S)
  BY DEF Lowest
<1>2. ASSUME NEW b \in Lowest(S) PROVE b = a
  <2>1. b \in S /\ b <= a
    BY DEF Lowest
  <2> QED BY <2>1
<1>3. Lowest(S) = {a}
  BY <1>1, <1>2
<1> QED BY <1>3 DEF OneOf

LEMMA NoneOf == OneOf(Lowest({})) = NULL
BY DEF OneOf, Lowest

LEMMA OneFound ==
  ASSUME NEW S \in SUBSET Nat, S # {}
  PROVE  OneOf(Lowest(S)) \in S /\ OneOf(Lowest(S)) # NULL
<1>1. PICK a \in S : \A b \in S : a <= b
  BY LeastOf
<1>2. OneOf(Lowest(S)) = a
  BY <1>1, LowestOf
<1> QED BY <1>1, <1>2 DEF NULL

\* MemoryIsFree, when the address is not free, returns the end of an entry in use that
\* lies at the address or that the allocation would reach into.
LEMMA OverlapEnds ==
  ASSUME table \in Table, NEW addr \in Nat, NEW size \in Nat,
         ~MemoryIsFree(table, addr, size)
  PROVE  \E i \in InUse(table) :
           /\ FirstOverlapEnd(addr, size) = table[i].addr + table[i].size
           /\ addr + size >= table[i].addr
           /\ addr < table[i].addr + table[i].size
<1> DEFINE Overlaps(i) == /\ table[i].used
                          /\ addr + size >= table[i].addr
                          /\ addr < table[i].addr + table[i].size
           S == {i \in DOMAIN table : Overlaps(i)}
           first == CHOOSE i \in DOMAIN table :
                      Overlaps(i) /\ \A j \in 1..(i - 1) : ~Overlaps(j)
<1>1. Len(table) \in Nat /\ DOMAIN table = 1..Len(table)
  BY DEF Table
<1>2. \A i \in DOMAIN table : table[i].addr \in Nat /\ table[i].size \in Nat
  BY EntryFields
<1>3. S # {}
  BY <1>2 DEF MemoryIsFree
<1>4. S \in SUBSET Nat
  BY <1>1
<1>5. PICK i \in S : \A j \in S : i <= j
  BY <1>3, <1>4, LeastOf
<1>6. \A j \in 1..(i - 1) : j \in DOMAIN table /\ ~(i <= j)
  BY <1>1, <1>5
<1>7. i \in DOMAIN table /\ Overlaps(i) /\ \A j \in 1..(i - 1) : ~Overlaps(j)
  BY <1>5, <1>6
<1>8. FirstOverlapEnd(addr, size) = table[first].addr + table[first].size
  BY DEF FirstOverlapEnd
<1>9. first \in DOMAIN table /\ Overlaps(first)
  BY <1>7
<1> HIDE DEF first
<1> QED BY <1>8, <1>9 DEF InUse

\* Nothing between an address that is not free and the next one is free.
LEMMA NextIs ==
  ASSUME table \in Table, NEW addr \in Nat, NEW size \in Nat, NEW end \in Nat,
         NEW align \in Aligns, ~MemoryIsFree(table, addr, size)
  PROVE  LET next == NextAddr(addr, size, align)
         IN  /\ next \in Nat /\ addr < next
             /\ FreeFrom(addr, end, size, align)
                  = IF next < end THEN FreeFrom(next, end, size, align) ELSE {}
<1> DEFINE next == NextAddr(addr, size, align)
<1>1. CASE align = "ALIGN_4KB"
  <2>1. next = addr + PageSize /\ PageSize \in Nat \ {0}
    BY <1>1, SizesAssumption DEF NextAddr
  <2> HIDE DEF next
  <2>2. ASSUME NEW a \in Onward(addr, end, align), a # addr
        PROVE  next < end /\ a \in Onward(next, end, align)
    <3>1. PICK k \in Nat : a \in Nat /\ a = addr + k * PageSize /\ (k = 0 \/ a < end)
      BY <1>1 DEF Onward
    <3>2. k # 0
      BY <2>1, <2>2, <3>1
    <3>3. k - 1 \in Nat /\ k * PageSize = PageSize + (k - 1) * PageSize
      BY <2>1, <3>2
    <3>4. (k - 1) * PageSize \in Nat
      BY <2>1, <3>3
    <3> DEFINE m == (k - 1) * PageSize
               n == k * PageSize
    <3>5. m \in Nat /\ n = PageSize + m
      BY <3>3, <3>4
    <3>6. a \in Nat /\ a = addr + n /\ a < end
      BY <3>1, <3>2
    <3> HIDE DEF m, n
    <3>7. a = next + m /\ next < end
      BY <2>1, <3>5, <3>6
    <3> QED BY <1>1, <3>3, <3>6, <3>7 DEF Onward, m
  <2>3. ASSUME NEW a \in Onward(next, end, align), next < end
        PROVE  a \in Onward(addr, end, align)
    <3>1. PICK k \in Nat : a \in Nat /\ a = next + k * PageSize /\ (k = 0 \/ a < end)
      BY <1>1 DEF Onward
    <3>2. k + 1 \in Nat /\ (k + 1) * PageSize = k * PageSize + PageSize
      BY <2>1
    <3>3. a < end
      <4>1. CASE k = 0
        BY <2>1, <2>3, <3>1, <4>1
      <4> QED BY <3>1, <4>1
    <3> DEFINE m == k * PageSize
               n == (k + 1) * PageSize
    <3>4. m \in Nat /\ n = m + PageSize /\ a = next + m
      BY <2>1, <3>1, <3>2
    <3> HIDE DEF m, n
    <3>5. a = addr + n
      BY <2>1, <3>4
    <3> QED BY <1>1, <3>1, <3>2, <3>3, <3>5 DEF Onward, n
  <2>4. next \in Nat /\ addr < next
    BY <2>1
  <2>5. FreeFrom(addr, end, size, align)
          = IF next < end THEN FreeFrom(next, end, size, align) ELSE {}
    BY <2>2, <2>3 DEF FreeFrom
  <2> QED BY <2>4, <2>5 DEF next
<1>2. CASE align # "ALIGN_4KB"
  <2>1. PICK i \in InUse(table) :
          /\ next = table[i].addr + table[i].size
          /\ addr + size >= table[i].addr
          /\ addr < table[i].addr + table[i].size
    BY <1>2, OverlapEnds DEF NextAddr
  <2>2. \A j \in DOMAIN table : table[j].addr \in Nat /\ table[j].size \in Nat
    BY EntryFields
  <2>3. i \in DOMAIN table /\ table[i].used
    BY DEF InUse
  <2> HIDE DEF next
  <2>4. next \in Nat /\ addr < next
    BY <2>1, <2>2, <2>3
  <2>5. \A a \in Nat : addr <= a /\ a < next => ~MemoryIsFree(table, a, size)
    BY <2>1, <2>2, <2>3 DEF MemoryIsFree
  <2>6. ASSUME NEW a \in FreeFrom(addr, end, size, align)
        PROVE  next < end /\ a \in FreeFrom(next, end, size, align)
    <3>1. a \in Onward(addr, end, align) /\ MemoryIsFree(table, a, size)
      BY DEF FreeFrom
    <3>2. PICK j \in InUse(table) : /\ a = table[j].addr + table[j].size
                                    /\ addr < a /\ a < end
      BY <1>2, <3>1 DEF Onward
    <3>3. a \in Nat
      BY <2>2, <3>2 DEF InUse
    <3>4. next <= a
      BY <2>4, <2>5, <3>1, <3>2, <3>3
    <3>5. a = next \/ (next < a /\ a < end)
      BY <2>4, <3>2, <3>3, <3>4
    <3>6. a \in Onward(next, end, align)
      BY <1>2, <3>2, <3>5 DEF Onward
    <3> QED BY <2>4, <3>1, <3>2, <3>3, <3>4, <3>6 DEF FreeFrom
  <2>7. ASSUME NEW a \in FreeFrom(next, end, size, align), next < end
        PROVE  a \in FreeFrom(addr, end, size, align)
    <3>1. a \in Onward(next, end, align) /\ MemoryIsFree(table, a, size)
      BY DEF FreeFrom
    <3>2. PICK j \in InUse(table) :
            a = table[j].addr + table[j].size /\ (a = next \/ (next < a /\ a < end))
      BY <1>2, <2>1, <3>1 DEF Onward
    <3>3. a \in Nat
      BY <2>2, <3>2 DEF InUse
    <3>4. addr < a /\ a < end
      BY <2>4, <2>7, <3>2, <3>3
    <3> QED BY <1>2, <3>1, <3>2, <3>4 DEF FreeFrom, Onward
  <2>8. FreeFrom(addr, end, size, align)
          = IF next < end THEN FreeFrom(next, end, size, align) ELSE {}
    BY <2>6, <2>7
  <2> QED BY <2>4, <2>8 DEF next
<1> QED BY <1>1, <1>2

\* The loop in one block.
LEMMA SearchBlockIs ==
  ASSUME table \in Table, NEW b, b.start \in Nat, b.length \in Nat,
         NEW size \in Nat, NEW align \in Aligns
  PROVE  SearchBlock(b, size, align)
           = OneOf(Lowest(FreeFrom(b.start, b.start + b.length, size, align)))
<1> DEFINE end == b.start + b.length
           Next1(addr) == NextAddr(addr, size, align)
           from == CHOOSE f : f = [addr \in b.start..end |->
                     IF MemoryIsFree(table, addr, size) THEN addr
                     ELSE LET next == NextAddr(addr, size, align)
                          IN  IF next < end THEN f[next] ELSE NULL]
           Low(addr) == OneOf(Lowest(FreeFrom(addr, end, size, align)))
           g == [addr \in b.start..end |-> Low(addr)]
<1>1. SearchBlock(b, size, align) = from[b.start]
  BY DEF SearchBlock
<1>2. end \in Nat /\ b.start \in b.start..end /\ \A a \in b.start..end : a \in Nat
  OBVIOUS
<1>3. ASSUME NEW addr \in b.start..end, MemoryIsFree(table, addr, size)
      PROVE  Low(addr) = addr
  <2>1. addr \in Nat
    BY <1>2
  <2>2. addr \in Onward(addr, end, align)
    <3>1. 0 \in Nat /\ PageSize \in Nat
      BY SizesAssumption
    <3>2. addr = addr + 0 * PageSize
      BY <2>1, <3>1
    <3> QED BY <2>1, <3>1, <3>2 DEF Onward
  <2>3. ASSUME NEW a \in Onward(addr, end, align) PROVE a \in Nat /\ addr <= a
    <3>1. CASE align = "ALIGN_4KB"
      <4>1. PICK k \in Nat : a \in Nat /\ a = addr + k * PageSize
        BY <3>1 DEF Onward
      <4>2. k * PageSize \in Nat
        BY SizesAssumption
      <4> QED BY <2>1, <4>1, <4>2
    <3>2. CASE align # "ALIGN_4KB"
      <4>1. \A j \in DOMAIN table : table[j].addr \in Nat /\ table[j].size \in Nat
        BY EntryFields
      <4> QED BY <2>1, <3>2, <4>1 DEF Onward, InUse
    <3> QED BY <3>1, <3>2
  <2> DEFINE S == FreeFrom(addr, end, size, align)
  <2>4. addr \in S
    BY <1>3, <2>2 DEF FreeFrom
  <2>5. \A a \in S : a \in Nat /\ addr <= a
    BY <2>3 DEF FreeFrom
  <2> HIDE DEF S
  <2>6. OneOf(Lowest(S)) = addr
    BY <2>1, <2>4, <2>5, LowestOf
  <2> QED BY <2>6 DEF S
<1>4. ASSUME NEW addr \in b.start..end, ~MemoryIsFree(table, addr, size)
      PROVE  /\ addr < Next1(addr)
             /\ Next1(addr) < end => Next1(addr) \in b.start..end
             /\ Low(addr) = IF Next1(addr) < end THEN Low(Next1(addr)) ELSE NULL
  <2> DEFINE next == NextAddr(addr, size, align)
  <2>1. addr \in Nat
    BY <1>2
  <2> HIDE DEF end
  <2>2. /\ next \in Nat /\ addr < next
        /\ FreeFrom(addr, end, size, align)
             = IF next < end THEN FreeFrom(next, end, size, align) ELSE {}
    BY <1>2, <1>4, <2>1, NextIs
  <2> HIDE DEF next
  <2>3. next < end => next \in b.start..end
    BY <1>2, <2>1, <2>2
  <2>4. Low(addr) = IF next < end THEN Low(next) ELSE NULL
    BY <2>2, NoneOf
  <2> QED BY <2>2, <2>3, <2>4 DEF next
<1> HIDE DEF end, Low
<1>5. g = [addr \in b.start..end |->
             IF MemoryIsFree(table, addr, size) THEN addr
             ELSE LET next == NextAddr(addr, size, align)
                  IN  IF next < end THEN g[next] ELSE NULL]
  <2>1. \A addr \in b.start..end :
          Low(addr) = IF MemoryIsFree(table, addr, size) THEN addr
                      ELSE IF Next1(addr) < end THEN g[Next1(addr)] ELSE NULL
    BY <1>3, <1>4
  <2> QED BY <2>1
<1>6. from = [addr \in b.start..end |->
                IF MemoryIsFree(table, addr, size) THEN addr
                ELSE LET next == NextAddr(addr, size, align)
                     IN  IF next < end THEN from[next] ELSE NULL]
  BY <1>5
<1> HIDE DEF from, Next1
<1>7. \A addr \in b.start..end :
        from[addr] = IF MemoryIsFree(table, addr, size) THEN addr
                     ELSE IF Next1(addr) < end THEN from[Next1(addr)] ELSE NULL
  BY <1>6 DEF Next1
<1> DEFINE Bad == {a \in b.start..end : from[a] # Low(a)}
<1>8. Bad = {}
  <2> SUFFICES ASSUME Bad # {} PROVE FALSE
    OBVIOUS
  <2>1. Bad \in SUBSET Nat /\ end \in Nat /\ \A a \in Bad : a <= end
    BY <1>2
  <2>2. PICK a \in Bad : \A c \in Bad : c <= a
    <3> HIDE DEF Bad
    <3> QED BY <2>1, GreatestOf
  <2>3. a \in b.start..end /\ a \in Nat /\ from[a] # Low(a)
    BY <1>2
  <2>4. ~MemoryIsFree(table, a, size)
    BY <1>3, <1>7, <2>3
  <2>5. CASE Next1(a) < end
    <3>1. Next1(a) \in b.start..end /\ a < Next1(a) /\ Low(a) = Low(Next1(a))
      BY <1>4, <2>3, <2>4, <2>5
    <3>2. from[a] = from[Next1(a)]
      BY <1>7, <2>3, <2>4, <2>5
    <3>3. Next1(a) \notin Bad
      <4>1. Next1(a) \in Nat
        BY <1>2, <3>1
      <4> QED BY <2>2, <2>3, <3>1, <4>1
    <3> QED BY <2>3, <3>1, <3>2, <3>3
  <2>6. CASE ~(Next1(a) < end)
    BY <1>4, <1>7, <2>3, <2>4, <2>6
  <2> QED BY <2>5, <2>6
<1> QED BY <1>1, <1>2, <1>8 DEF Low, end

\* What the search finds in a block is what fits there.
LEMMA FitsIs ==
  ASSUME blocks \in Blocks, NEW k \in DOMAIN blocks, NEW size, NEW align \in Aligns
  PROVE  LET b == blocks[k]
         IN  Fits(table, size, align, k)
               = IF Skipped(b, align) THEN {}
                 ELSE FreeFrom(b.start, b.start + b.length, size, align)
<1> DEFINE b == blocks[k]
           end == b.start + b.length
<1>1. b.start \in Nat /\ b.length \in Nat
  <2>1. blocks[k] \in [start : Nat, length : Nat, available : BOOLEAN]
    BY SeqElement DEF Blocks
  <2> QED BY <2>1
<1>2. CASE Skipped(b, align)
  BY <1>2 DEF Fits, Skipped, Candidates
<1>3. CASE ~Skipped(b, align)
  <2>1. b.available
    BY <1>3 DEF Skipped
  <2>2. CASE align = "ALIGN_4KB"
    <3>1. PageSize \in Nat \ {0} /\ b.start % PageSize = 0
      BY <1>3, <2>2, SizesAssumption DEF Skipped
    <3>2. Candidates(table, align, b)
            = {b.start + j * PageSize :
                 j \in {j \in 0..(b.length \div PageSize) :
                          j = 0 \/ j * PageSize < b.length}}
      BY <2>2, <3>1 DEF Candidates
    <3>3. ASSUME NEW a \in Candidates(table, align, b)
          PROVE  a \in Onward(b.start, end, align)
      <4>1. PICK j \in 0..(b.length \div PageSize) :
              a = b.start + j * PageSize /\ (j = 0 \/ j * PageSize < b.length)
        BY <3>2
      <4> DEFINE m == j * PageSize
      <4>2. j \in Nat /\ m \in Nat
        BY <3>1
      <4>3. a = b.start + m /\ (j = 0 \/ m < b.length)
        BY <4>1
      <4> HIDE DEF m
      <4>4. a \in Nat /\ (j = 0 \/ a < end)
        BY <1>1, <4>2, <4>3
      <4> QED BY <2>2, <4>2, <4>3, <4>4 DEF Onward, m
    <3>4. ASSUME NEW a \in Onward(b.start, end, align)
          PROVE  a \in Candidates(table, align, b)
      <4>1. PICK j \in Nat : a \in Nat /\ a = b.start + j * PageSize /\ (j = 0 \/ a < end)
        BY <2>2 DEF Onward
      <4> DEFINE m == j * PageSize
      <4>2. m \in Nat
        BY <3>1
      <4>3. a = b.start + m /\ (j = 0 \/ a < end)
        BY <4>1
      <4> HIDE DEF m
      <4>4. j = 0 \/ m < b.length
        BY <1>1, <4>2, <4>3
      <4>5. j \in 0..(b.length \div PageSize)
        <5> DEFINE len == b.length
                   q == len \div PageSize
        <5>1. q \in Nat
          BY <1>1, <3>1
        <5>2. CASE j = 0
          BY <5>1, <5>2
        <5>3. CASE j # 0
          <6>1. j * PageSize < len
            BY <4>4, <5>3 DEF m
          <6>2. len = PageSize * q + (len % PageSize) /\ len % PageSize \in 0..(PageSize - 1)
            BY <1>1, <3>1
          <6>3. len < PageSize * q + PageSize
            BY <1>1, <3>1, <5>1, <6>2
          <6> HIDE DEF q, len
          <6>4. ~(q + 1 <= j)
            <7> SUFFICES ASSUME q + 1 <= j PROVE FALSE
              OBVIOUS
            <7>1. (q + 1) * PageSize <= j * PageSize
              BY ONLY <3>1, <5>1, q + 1 <= j, j \in Nat
            <7>2. (q + 1) * PageSize = PageSize * q + PageSize
              BY ONLY <3>1, <5>1
            <7> QED BY <1>1, <3>1, <5>1, <6>1, <6>3, <7>1, <7>2 DEF len
          <6> QED BY <5>1, <6>4 DEF q, len
        <5> QED BY <5>2, <5>3
      <4> QED BY <3>2, <4>1, <4>4, <4>5 DEF m
    <3>5. Candidates(table, align, b) = Onward(b.start, end, align)
      BY <3>3, <3>4
    <3> QED BY <1>3, <2>1, <3>5 DEF Fits, FreeFrom
  <2>3. CASE align # "ALIGN_4KB"
    <3>1. Candidates(table, align, b) = Onward(b.start, end, align)
      BY <2>3 DEF Candidates, Onward, InUse
    <3> QED BY <1>3, <2>1, <3>1 DEF Fits, FreeFrom
  <2> QED BY <2>2, <2>3
<1> QED BY <1>2, <1>3

LEMMA FitsAddresses ==
  ASSUME table \in Table, blocks \in Blocks, NEW k \in DOMAIN blocks, NEW size,
         NEW align \in Aligns
  PROVE  Fits(table, size, align, k) \in SUBSET Nat
<1> DEFINE b == blocks[k]
<1>1. b.start \in Nat /\ b.length \in Nat
  <2>1. blocks[k] \in [start : Nat, length : Nat, available : BOOLEAN]
    BY SeqElement DEF Blocks
  <2> QED BY <2>1
<1>2. FreeFrom(b.start, b.start + b.length, size, align) \in SUBSET Nat
  <2>1. \A j \in DOMAIN table : table[j].addr \in Nat /\ table[j].size \in Nat
    BY EntryFields
  <2> QED BY <1>1, <2>1 DEF FreeFrom, Onward, InUse
<1> QED BY <1>2, FitsIs

\* The loop over the blocks, from the k-th on.
LEMMA SearchBlocksIs ==
  ASSUME table \in Table, blocks \in Blocks, NEW size \in Nat, NEW align \in Aligns
  PROVE  SearchBlocks(size, align) = MemoryFindSpace(table, size, align)
<1> DEFINE n == Len(blocks)
           Fit(k) == Fits(table, size, align, k)
           Fitting(k) == {j \in k..n : Fit(j) # {}}
           Low(k) == OneOf(UNION {Lowest(Fit(j)) : j \in Lowest(Fitting(k))})
           Found(k) == IF Skipped(blocks[k], align) THEN NULL
                       ELSE SearchBlock(blocks[k], size, align)
           from == CHOOSE f : f = [k \in 1..(n + 1) |->
                     IF k > n THEN NULL
                     ELSE LET found == IF Skipped(blocks[k], align) THEN NULL
                                       ELSE SearchBlock(blocks[k], size, align)
                          IN  IF found = NULL THEN f[k + 1] ELSE found]
           g == [k \in 1..(n + 1) |-> Low(k)]
<1>1. SearchBlocks(size, align) = from[1]
  BY DEF SearchBlocks
<1>2. n \in Nat /\ DOMAIN blocks = 1..n
  BY DEF Blocks
<1>3. MemoryFindSpace(table, size, align) = Low(1)
  BY <1>2 DEF MemoryFindSpace, Spaces
<1>4. \A k \in 1..n : Fit(k) \in SUBSET Nat
  BY <1>2, FitsAddresses
<1>5. \A k \in 1..n : Found(k) = OneOf(Lowest(Fit(k)))
  <2> TAKE k \in 1..n
  <2>1. blocks[k].start \in Nat /\ blocks[k].length \in Nat
    <3>1. blocks[k] \in [start : Nat, length : Nat, available : BOOLEAN]
      BY <1>2, SeqElement DEF Blocks
    <3> QED BY <3>1
  <2>2. CASE Skipped(blocks[k], align)
    <3>1. Fit(k) = {}
      BY <1>2, <2>2, FitsIs
    <3> QED BY <2>2, <3>1, NoneOf
  <2>3. CASE ~Skipped(blocks[k], align)
    <3>1. Fit(k) = FreeFrom(blocks[k].start, blocks[k].start + blocks[k].length, size, align)
      BY <1>2, <2>3, FitsIs
    <3> QED BY <2>1, <2>3, <3>1, SearchBlockIs
  <2> QED BY <2>2, <2>3
<1> HIDE DEF n, Fit, Found
<1>6. ASSUME NEW k \in 1..n PROVE Low(k) = IF Found(k) = NULL THEN Low(k + 1) ELSE Found(k)
  <2>1. CASE Fit(k) = {}
    <3>1. Found(k) = NULL
      BY <1>5, <2>1, NoneOf
    <3>2. Fitting(k) = Fitting(k + 1)
      BY <1>2, <2>1
    <3> QED BY <3>1, <3>2
  <2>2. CASE Fit(k) # {}
    <3>1. Found(k) # NULL
      BY <1>4, <1>5, <2>2, OneFound
    <3>2. Lowest(Fitting(k)) = {k}
      <4>1. k \in Fitting(k) /\ \A j \in Fitting(k) : j \in Int /\ k <= j
        BY <1>2, <2>2
      <4> QED BY <4>1 DEF Lowest
    <3>3. Low(k) = OneOf(Lowest(Fit(k)))
      BY <3>2
    <3> QED BY <1>5, <3>1, <3>3
  <2> QED BY <2>1, <2>2
<1>7. Low(n + 1) = NULL
  <2>1. Fitting(n + 1) = {}
    BY <1>2
  <2>2. Lowest(Fitting(n + 1)) = {}
    BY <2>1 DEF Lowest
  <2> QED BY <2>2 DEF OneOf
<1> HIDE DEF Low
<1>8. g = [k \in 1..(n + 1) |->
             IF k > n THEN NULL
             ELSE LET found == IF Skipped(blocks[k], align) THEN NULL
                               ELSE SearchBlock(blocks[k], size, align)
                  IN  IF found = NULL THEN g[k + 1] ELSE found]
  <2>1. \A k \in 1..(n + 1) :
          Low(k) = IF k > n THEN NULL
                   ELSE IF Found(k) = NULL THEN g[k + 1] ELSE Found(k)
    <3> TAKE k \in 1..(n + 1)
    <3>1. CASE k = n + 1
      BY <1>2, <1>7, <3>1
    <3>2. CASE k # n + 1
      <4>1. k \in 1..n /\ k + 1 \in 1..(n + 1) /\ ~(k > n)
        BY <1>2, <3>2
      <4> QED BY <1>6, <4>1
    <3> QED BY <3>1, <3>2
  <2> QED BY <2>1 DEF Found
<1>9. from = [k \in 1..(n + 1) |->
                IF k > n THEN NULL
                ELSE LET found == IF Skipped(blocks[k], align) THEN NULL
                                  ELSE SearchBlock(blocks[k], size, align)
                     IN  IF found = NULL THEN from[k + 1] ELSE found]
  BY <1>8
<1> HIDE DEF from
<1>10. \A k \in 1..(n + 1) :
         from[k] = IF k > n THEN NULL
                   ELSE IF Found(k) = NULL THEN from[k + 1] ELSE Found(k)
  BY <1>9 DEF Found
<1> DEFINE Bad == {k \in 1..(n + 1) : from[k] # Low(k)}
<1>11. Bad = {}
  <2> SUFFICES ASSUME Bad # {} PROVE FALSE
    OBVIOUS
  <2>1. Bad \in SUBSET Nat /\ n + 1 \in Nat /\ \A k \in Bad : k <= n + 1
    BY <1>2
  <2>2. PICK k \in Bad : \A j \in Bad : j <= k
    <3> HIDE DEF Bad
    <3> QED BY <2>1, GreatestOf
  <2>3. k \in 1..(n + 1) /\ from[k] # Low(k)
    OBVIOUS
  <2>4. k # n + 1
    BY <1>2, <1>7, <1>10, <2>3
  <2>5. k \in 1..n /\ k + 1 \in 1..(n + 1) /\ ~(k > n) /\ ~(k + 1 <= k)
    BY <1>2, <2>3, <2>4
  <2>6. k + 1 \notin Bad
    BY <2>2, <2>5
  <2>7. from[k + 1] = Low(k + 1)
    BY <2>5, <2>6
  <2>8. from[k] = IF Found(k) = NULL THEN from[k + 1] ELSE Found(k)
    BY <1>10, <2>3, <2>5
  <2> QED BY <1>6, <2>3, <2>5, <2>7, <2>8
<1>12. from[1] = Low(1)
  <2>1. 1 \in 1..(n + 1)
    BY <1>2
  <2> QED BY <1>11, <2>1
<1> QED BY <1>1, <1>3, <1>12

\* Whatever the tables and the blocks hold, the search, which jumps from the end of one
\* overlapping entry to the next in the order of the tables, finds the lowest address
\* that is free in the first block that has one, and NULL only if no block has one.
THEOREM SearchFindsLowest == Spec => []FirstFit
<1>1. TypeOK => FirstFit
  <2> SUFFICES ASSUME TypeOK, NEW size \in Sizes, NEW align \in Aligns
               PROVE  SearchBlocks(size, align) = MemoryFindSpace(table, size, align)
    BY DEF FirstFit
  <2>1. table \in Table /\ blocks \in Blocks /\ size \in Nat
    BY SizesAssumption DEF TypeOK, Table, Blocks
  <2> QED BY <2>1, SearchBlocksIs
<1> QED BY <1>1, MemoryTypeCorrect, PTL
=============================================================================
