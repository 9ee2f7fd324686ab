---------------------------- MODULE UserHeapProofs ----------------------------
(***************************************************************************)
(* The memory of processes, for every number of processes, frames and      *)
(* calls.  First what a page that is entered changes, for tables of every  *)
(* size and every address: the page is found where it was put, and no      *)
(* other page is touched, although tables are made on the way.  Then that  *)
(* what a process can reach is its own, that its page tables say what the  *)
(* kernel notes of its pages, and what the blocks of its heap keep to.     *)
(***************************************************************************)
EXTENDS UserHeap, Induction, FiniteSetTheorems, WellFoundedInduction, TLAPS

\* Entries of a level are reached through a table in the level above.
Tree(tables) ==
  \A va \in Nat : \A n \in 2..4 :
    Present(tables, va, n) => Present(tables, va, n - 1) /\ ~IsPage(tables, va, n - 1)

LEMMA UpNat == ASSUME NEW va \in Nat PROVE Up(va) \in Nat
  BY PagingAssumption DEF Up

LEMMA AtLevels ==
  ASSUME NEW va \in Nat
  PROVE  /\ At(va, 1) = <<1, Up(Up(Up(va)))>>
         /\ At(va, 2) = <<2, Up(Up(va))>>
         /\ At(va, 3) = <<3, Up(va)>>
         /\ At(va, 4) = <<4, va>>
  BY DEF At

\* Addresses that share an entry share the entries above it.
LEMMA AtAbove ==
  ASSUME NEW va \in Nat, NEW other \in Nat, NEW n \in 2..4, At(va, n) = At(other, n)
  PROVE  At(va, n - 1) = At(other, n - 1)
  <1>1. CASE n = 2
    BY <1>1, AtLevels
  <1>2. CASE n = 3
    BY <1>2, AtLevels
  <1>3. CASE n = 4
    BY <1>3, AtLevels
  <1> QED BY <1>1, <1>2, <1>3

LEMMA AtApart ==
  ASSUME NEW va \in Nat, NEW other \in Nat, NEW n \in 1..4, NEW m \in 1..4, n # m
  PROVE  At(va, n) # At(other, m)
  BY DEF At

\* MemoryPagingSetPage: once the tables on the way are there, a page that is entered is
\* found at its place, with its frame and its rights.
THEOREM PageFound ==
  ASSUME NEW tables, NEW va \in Nat, NEW frame \in Nat, NEW flags, NEW size \in PageSizes,
         ~Refused(tables, va, frame, size), Missing(tables, va, size) = {}
  PROVE  LET new == WithPage(tables, va, frame, flags, size)
         IN  /\ MemoryPagingPagePresent(new, va) = At(va, size)
             /\ new[At(va, size)] = Entry(frame, flags, TRUE)
  <1> DEFINE new == WithPage(tables, va, frame, flags, size)
  <1>1. /\ DOMAIN new = DOMAIN tables \cup {At(va, size)}
        /\ new[At(va, size)] = Entry(frame, flags, TRUE)
        /\ \A x \in DOMAIN tables : x # At(va, size) => new[x] = tables[x]
    BY DEF WithPage, WithEntry
  <1> HIDE DEF new
  <1>2. \A n \in 1..(size - 1) : Present(new, va, n)
    BY <1>1 DEF Missing, Present, PageSizes
  <1>3. \A n \in 2..(size - 1) : ~IsPage(new, va, n)
    <2> SUFFICES ASSUME NEW n \in 2..(size - 1) PROVE ~IsPage(new, va, n)
      OBVIOUS
    <2>1. Present(tables, va, n) /\ ~IsPage(tables, va, n)
      BY DEF Refused, Missing, PageSizes
    <2>2. At(va, n) # At(va, size)
      BY AtApart DEF PageSizes
    <2> QED BY <1>1, <2>1, <2>2 DEF IsPage, Present
  <1>4. Present(new, va, size) /\ IsPage(new, va, size)
    BY <1>1 DEF Present, IsPage, Entry
  <1>5. MemoryPagingPagePresent(new, va) = At(va, size)
    <2>1. CASE size = 2
      BY <1>2, <1>3, <1>4, <2>1 DEF MemoryPagingPagePresent
    <2>2. CASE size = 3
      BY <1>2, <1>3, <1>4, <2>2 DEF MemoryPagingPagePresent
    <2>3. CASE size = 4
      BY <1>2, <1>3, <1>4, <2>3 DEF MemoryPagingPagePresent
    <2> QED BY <2>1, <2>2, <2>3 DEF PageSizes
  <1> QED BY <1>1, <1>5 DEF new

\* MemoryPagingSetPage: entering a page changes nothing for an address outside of it.
THEOREM OthersStay ==
  ASSUME NEW tables, NEW va \in Nat, NEW frame \in Nat, NEW flags, NEW size \in PageSizes,
         NEW other \in Nat, At(other, size) # At(va, size)
  PROVE  Leads(WithPage(tables, va, frame, flags, size), other) = Leads(tables, other)
  <1> DEFINE new == WithPage(tables, va, frame, flags, size)
  <1>1. /\ DOMAIN new = DOMAIN tables \cup {At(va, size)}
        /\ \A x \in DOMAIN tables : x # At(va, size) => new[x] = tables[x]
    BY DEF WithPage, WithEntry
  <1> HIDE DEF new
  <1>2. \A n \in 1..4 : At(other, n) # At(va, size)
    BY AtApart DEF PageSizes
  <1>3. \A n \in 1..4 : Present(new, other, n) <=> Present(tables, other, n)
    BY <1>1, <1>2 DEF Present
  <1>4. \A n \in 1..4 : Present(tables, other, n) => new[At(other, n)] = tables[At(other, n)]
    BY <1>1, <1>2 DEF Present
  <1>5. \A n \in 1..4 : IsPage(new, other, n) <=> IsPage(tables, other, n)
    BY <1>3, <1>4 DEF IsPage
  <1>6. MemoryPagingPagePresent(new, other) = MemoryPagingPagePresent(tables, other)
    BY <1>3, <1>5 DEF MemoryPagingPagePresent
  <1>7. \/ MemoryPagingPagePresent(tables, other) = None
        \/ \E m \in 2..4 : /\ MemoryPagingPagePresent(tables, other) = At(other, m)
                           /\ \A n \in 1..m : Present(tables, other, n)
    BY DEF MemoryPagingPagePresent, IsPage
  <1>8. CASE MemoryPagingPagePresent(tables, other) = None
    BY <1>6, <1>8 DEF Leads, new
  <1>9. ASSUME NEW m \in 2..4,
               MemoryPagingPagePresent(tables, other) = At(other, m),
               \A n \in 1..m : Present(tables, other, n)
        PROVE  Leads(new, other) = Leads(tables, other)
    <2>1. At(other, m)[1] = m
      BY DEF At
    <2>2. new[At(other, m)] = tables[At(other, m)]
      BY <1>4, <1>9
    <2>3. \A n \in 1..m : new[At(other, n)] = tables[At(other, n)]
      BY <1>4, <1>9
    <2>4. \A f \in Flags :
            (\A n \in 1..m : f \in new[At(other, n)].flags)
              <=> (\A n \in 1..m : f \in tables[At(other, n)].flags)
      BY <2>3
    <2> QED BY <1>6, <1>9, <2>1, <2>2, <2>4 DEF Leads
  <1> QED BY <1>7, <1>8, <1>9 DEF new

\* MemoryPagingSetPage: a table that is made on the way leads nowhere yet, so that no
\* address leads elsewhere than before, and the entries stay a tree.
THEOREM TablesStay ==
  ASSUME NEW tables, Tree(tables), NEW va \in Nat, NEW frame \in Nat, NEW n \in 1..3,
         ~Present(tables, va, n),
         n > 1 => Present(tables, va, n - 1) /\ ~IsPage(tables, va, n - 1)
  PROVE  LET new == WithTable(tables, va, n, frame)
         IN  /\ Tree(new)
             /\ \A other \in Nat : MemoryPagingPagePresent(new, other) =
                                   MemoryPagingPagePresent(tables, other)
  <1> DEFINE new == WithTable(tables, va, n, frame)
  <1>1. /\ DOMAIN new = DOMAIN tables \cup {At(va, n)}
        /\ new[At(va, n)].page = FALSE
        /\ \A x \in DOMAIN tables : x # At(va, n) => new[x] = tables[x]
    BY DEF WithTable, WithEntry, Entry
  <1> HIDE DEF new
  <1>2. At(va, n) \notin DOMAIN tables
    BY DEF Present
  <1>3. \A other \in Nat : \A m \in 1..4 :
          Present(new, other, m) <=> Present(tables, other, m) \/ At(other, m) = At(va, n)
    BY <1>1 DEF Present
  <1>4. \A other \in Nat : \A m \in 1..4 :
          IsPage(new, other, m) <=> IsPage(tables, other, m)
    BY <1>1, <1>2 DEF Present, IsPage
  <1>5. ASSUME NEW other \in Nat, NEW m \in 2..4, Present(new, other, m)
        PROVE  Present(new, other, m - 1) /\ ~IsPage(new, other, m - 1)
    <2>1. CASE Present(tables, other, m)
      <3>1. Present(tables, other, m - 1) /\ ~IsPage(tables, other, m - 1)
        BY <2>1 DEF Tree
      <3> QED BY <3>1, <1>3, <1>4
    <2>2. CASE At(other, m) = At(va, n)
      <3>1. m = n
        BY <2>2 DEF At
      <3>2. At(other, n - 1) = At(va, n - 1)
        BY <2>2, <3>1, AtAbove
      <3>3. Present(tables, other, m - 1) /\ ~IsPage(tables, other, m - 1)
        BY <3>1, <3>2 DEF Present, IsPage
      <3> QED BY <3>3, <1>3, <1>4
    <2> QED BY <1>3, <1>5, <2>1, <2>2
  <1>6. ASSUME NEW other \in Nat
        PROVE  MemoryPagingPagePresent(new, other) = MemoryPagingPagePresent(tables, other)
    <2>1. CASE At(other, n) # At(va, n)
      <3>1. \A m \in 1..4 : At(other, m) # At(va, n)
        BY <2>1, AtApart
      <3> QED BY <1>3, <1>4, <3>1 DEF MemoryPagingPagePresent
    <2>2. CASE At(other, n) = At(va, n)
      <3>1. ~Present(tables, other, n) /\ ~IsPage(tables, other, n)
        BY <2>2, <1>2 DEF Present, IsPage
      <3>2. ~Present(tables, other, n + 1) /\ ~Present(new, other, n + 1)
        <4>1. ~Present(tables, other, n + 1)
          BY <3>1 DEF Tree
        <4>2. At(other, n + 1) # At(va, n)
          BY AtApart
        <4> QED BY <4>1, <4>2, <1>3
      <3>3. \A m \in 1..4 : m # n => (Present(new, other, m) <=> Present(tables, other, m))
        BY <1>3, AtApart
      <3>4. CASE n = 1
        BY <3>1, <3>2, <3>3, <3>4, <1>3, <1>4 DEF MemoryPagingPagePresent
      <3>5. CASE n = 2
        BY <3>1, <3>2, <3>3, <3>5, <1>3, <1>4 DEF MemoryPagingPagePresent
      <3>6. CASE n = 3
        BY <3>1, <3>2, <3>3, <3>6, <1>3, <1>4 DEF MemoryPagingPagePresent
      <3> QED BY <3>4, <3>5, <3>6
    <2> QED BY <2>1, <2>2
  <1> QED BY <1>5, <1>6 DEF new, Tree

-----------------------------------------------------------------------------
(* Partial functions, and the least of some numbers.                       *)

Partial(S, T) == UNION {[D -> T] : D \in SUBSET S}

LEMMA PartialIs ==
  ASSUME NEW S, NEW T, NEW f
  PROVE  f \in Partial(S, T) <=> DOMAIN f \in SUBSET S /\ f \in [DOMAIN f -> T]
  BY DEF Partial

LEMMA WithEntryIs ==
  ASSUME NEW S, NEW T, NEW f \in Partial(S, T), NEW at \in S, NEW e \in T
  PROVE  /\ WithEntry(f, at, e) \in Partial(S, T)
         /\ DOMAIN WithEntry(f, at, e) = DOMAIN f \cup {at}
         /\ WithEntry(f, at, e)[at] = e
         /\ \A x \in DOMAIN f : x # at => WithEntry(f, at, e)[x] = f[x]
  <1>1. DOMAIN f \in SUBSET S /\ f \in [DOMAIN f -> T]
    BY PartialIs
  <1>2. /\ DOMAIN WithEntry(f, at, e) = DOMAIN f \cup {at}
        /\ WithEntry(f, at, e) \in [DOMAIN f \cup {at} -> T]
        /\ WithEntry(f, at, e)[at] = e
        /\ \A x \in DOMAIN f : x # at => WithEntry(f, at, e)[x] = f[x]
    BY <1>1 DEF WithEntry
  <1> QED BY <1>1, <1>2, PartialIs

LEMMA LeastIn == ASSUME NEW S \in SUBSET Nat, S # {} PROVE Min(S) \in S
  <1>1. PICK j \in S : \A i \in S : <<i, j>> \notin OpToRel(<, Nat)
    BY WFMin, NatLessThanWellFounded
  <1>2. \A i \in S : ~(i < j)
    BY <1>1 DEF OpToRel
  <1>3. \A i \in S : j <= i
    BY <1>2
  <1> QED BY <1>3 DEF Min

-----------------------------------------------------------------------------
(* The structs and the record that a kernel function changes.              *)

Pages == Areas \X Nat
Places == Frames \cup {FirstFrame + FrameCount}
Names == (0..4) \X Nat
Entries == [frame : Nat, flags : SUBSET Flags, page : BOOLEAN]
Arguments == [at : Nat, size : Nat, frame : {NULL} \cup Places]

Structs ==
  [status : Statuses, va : Partial(Pages, Places), tables : Partial(Names, Entries),
   heap_size : Nat, init_ptr : Nat, args : Seq(Arguments), data : {NULL} \cup Frames]

Records == [owner : [Frames -> Owners], proc : Structs, ok : BOOLEAN, lost : BOOLEAN]

\* The pages of a process are its own, under one address only, and none is a page table;
\* its page tables are its own; and it has no page larger than 4 KB, so that no page is
\* refused once it has been noted.
Private(o, p, va, tables) ==
  /\ \A a \in DOMAIN va \ {BeyondStack} :
       /\ va[a] \in Frames /\ o[va[a]] = p
       /\ \A b \in DOMAIN va \ {a, BeyondStack} : va[a] # va[b]
       /\ \A x \in DOMAIN tables : ~tables[x].page => tables[x].frame # va[a]
  /\ \A x \in DOMAIN tables :
       IF tables[x].page THEN x[1] = 4
       ELSE tables[x].frame \in Frames /\ o[tables[x].frame] = p

\* Only frames that were free have been given to p.
GivenTo(p, before, o) ==
  \A f \in Frames : o[f] = before[f] \/ (before[f] = "free" /\ o[f] = p)

\* The records that a kernel function may make for p, as far as the frames go.
Fair(o, p) ==
  {k \in Records : /\ GivenTo(p, o, k.owner)
                   /\ Private(k.owner, p, k.proc.va, k.proc.tables)}

\* What is the same in k and r when only frames and page tables have changed.
SameButTables(k, r) ==
  /\ r.ok = k.ok
  /\ r.proc = [k.proc EXCEPT !.tables = r.proc.tables]

LEMMA FramesAreNat == Frames \in SUBSET Nat /\ NULL \notin Frames
  BY MemoryAssumption DEF Frames, NULL

LEMMA LeastFree ==
  ASSUME NEW o, FreeFrames(o) # {}
  PROVE  /\ Min(FreeFrames(o)) \in Frames
         /\ o[Min(FreeFrames(o))] = "free"
  <1>1. FreeFrames(o) \in SUBSET Nat
    BY FramesAreNat DEF FreeFrames
  <1>2. Min(FreeFrames(o)) \in FreeFrames(o)
    BY <1>1, LeastIn
  <1> QED BY <1>2 DEF FreeFrames

LEMMA AtIn ==
  ASSUME NEW va \in Nat, NEW n \in 0..4
  PROVE  At(va, n) \in Names /\ At(va, n)[1] = n
  <1>1. Up(va) \in Nat /\ Up(Up(va)) \in Nat /\ Up(Up(Up(va))) \in Nat
    BY UpNat
  <1>2. CASE n = 0
    BY <1>2 DEF At, Names
  <1>3. CASE n \in 1..4
    BY <1>1, <1>3 DEF At, Names
  <1> QED BY <1>2, <1>3

\* Another process keeps what it has.
LEMMA OthersKeep ==
  ASSUME NEW p \in Processes, NEW q \in Processes, p # q, NEW before, NEW o,
         GivenTo(p, before, o), NEW va, NEW tables, Private(before, q, va, tables)
  PROVE  Private(o, q, va, tables)
  <1>1. q # "free"
    BY MemoryAssumption DEF KernelOwners
  <1>2. \A f \in Frames : before[f] = q => o[f] = q
    BY <1>1 DEF GivenTo
  <1> QED BY <1>2 DEF Private

\* A table that is entered in a frame which was free.
LEMMA PrivateTable ==
  ASSUME NEW p \in Processes, NEW o \in [Frames -> Owners],
         NEW va \in Partial(Pages, Places), NEW tables \in Partial(Names, Entries),
         Private(o, p, va, tables), NEW at \in Names, NEW entry \in Entries, ~entry.page,
         NEW frame \in Frames, o[frame] = "free", entry.frame = frame
  PROVE  Private([o EXCEPT ![frame] = p], p, va, WithEntry(tables, at, entry))
  <1> DEFINE new == WithEntry(tables, at, entry)
             u == [o EXCEPT ![frame] = p]
  <1>1. /\ DOMAIN new = DOMAIN tables \cup {at}
        /\ new[at] = entry
        /\ \A x \in DOMAIN tables : x # at => new[x] = tables[x]
    BY DEF WithEntry
  <1>2. u[frame] = p /\ \A f \in Frames : f # frame => u[f] = o[f]
    OBVIOUS
  <1>3. p # "free"
    BY MemoryAssumption DEF KernelOwners
  <1> HIDE DEF new, u
  <1>4. ASSUME NEW a \in DOMAIN va \ {BeyondStack}
        PROVE  /\ va[a] \in Frames /\ u[va[a]] = p
               /\ \A b \in DOMAIN va \ {a, BeyondStack} : va[a] # va[b]
               /\ \A x \in DOMAIN new : ~new[x].page => new[x].frame # va[a]
    <2>1. va[a] \in Frames /\ o[va[a]] = p
      BY DEF Private
    <2>2. va[a] # frame
      BY <2>1, <1>3
    <2>3. \A x \in DOMAIN new : ~new[x].page => new[x].frame # va[a]
      BY <1>1, <2>2 DEF Private
    <2> QED BY <2>1, <2>2, <2>3, <1>2 DEF Private
  <1>5. ASSUME NEW x \in DOMAIN new
        PROVE  IF new[x].page THEN x[1] = 4
               ELSE new[x].frame \in Frames /\ u[new[x].frame] = p
    <2>1. CASE x = at
      BY <2>1, <1>1, <1>2
    <2>2. CASE x # at
      BY <2>2, <1>1, <1>2 DEF Private
    <2> QED BY <2>1, <2>2
  <1>6. Private(u, p, va, new)
    BY <1>4, <1>5 DEF Private
  <1> QED BY <1>6 DEF u, new

LEMMA MakeTableFair ==
  ASSUME NEW p \in Processes, NEW o, NEW k \in Fair(o, p),
         NEW va \in Nat, NEW n \in 0..3
  PROVE  /\ MakeTable(k, p, va, n) \in Fair(o, p)
         /\ SameButTables(k, MakeTable(k, p, va, n))
  <1> DEFINE r == MakeTable(k, p, va, n)
  <1>1. /\ k \in Records /\ k.proc \in Structs
        /\ GivenTo(p, o, k.owner)
        /\ Private(k.owner, p, k.proc.va, k.proc.tables)
    BY DEF Fair, Records
  <1>2. CASE FreeFrames(k.owner) = {}
    <2>1. r = [k EXCEPT !.lost = TRUE]
      BY <1>2 DEF MakeTable
    <2>2. r \in Records /\ r.owner = k.owner /\ r.proc = k.proc /\ r.ok = k.ok
      BY <1>1, <2>1 DEF Records
    <2>3. r.proc = [k.proc EXCEPT !.tables = r.proc.tables]
      BY <1>1, <2>2 DEF Structs
    <2> QED BY <1>1, <2>2, <2>3 DEF Fair, SameButTables
  <1>3. CASE FreeFrames(k.owner) # {}
    <2> DEFINE frame == Min(FreeFrames(k.owner))
               at == At(va, n)
               entry == Entry(frame, {"rw", "user"}, FALSE)
               new == WithEntry(k.proc.tables, at, entry)
    <2>1. frame \in Frames /\ k.owner[frame] = "free"
      BY <1>3, LeastFree
    <2>2. r = [k EXCEPT !.owner[frame] = p, !.proc.tables = new]
      BY <1>3 DEF MakeTable, WithTable
    <2>3. at \in Names
      BY AtIn
    <2>4. entry \in Entries /\ ~entry.page /\ entry.frame = frame
      BY <2>1, FramesAreNat DEF Entry, Entries, Flags
    <2> HIDE DEF frame, at, entry
    <2>5. new \in Partial(Names, Entries)
      BY <1>1, <2>3, <2>4, WithEntryIs DEF Structs
    <2>6. Private([k.owner EXCEPT ![frame] = p], p, k.proc.va, new)
      BY <1>1, <2>1, <2>3, <2>4, PrivateTable DEF Structs, Records
    <2> HIDE DEF new, r
    <2>7. /\ r \in Records /\ r.owner = [k.owner EXCEPT ![frame] = p]
          /\ r.proc = [k.proc EXCEPT !.tables = new] /\ r.ok = k.ok
      BY <1>1, <2>1, <2>2, <2>5 DEF Records, Structs, Owners
    <2>8. r.proc.va = k.proc.va /\ r.proc.tables = new
      BY <1>1, <2>7 DEF Structs
    <2>9. GivenTo(p, o, r.owner)
      BY <1>1, <2>1, <2>7 DEF GivenTo, Records
    <2> QED BY <2>6, <2>7, <2>8, <2>9 DEF Fair, SameButTables, r
  <1> QED BY <1>2, <1>3

\* A page of 4 KB that is entered takes at most the place of a table.
LEMMA PrivateEntry ==
  ASSUME NEW p, NEW o, NEW va, NEW tables, Private(o, p, va, tables),
         NEW at, at[1] = 4, NEW entry, entry.page
  PROVE  Private(o, p, va, WithEntry(tables, at, entry))
  <1> DEFINE new == WithEntry(tables, at, entry)
  <1>1. /\ DOMAIN new = DOMAIN tables \cup {at}
        /\ new[at] = entry
        /\ \A x \in DOMAIN tables : x # at => new[x] = tables[x]
    BY DEF WithEntry
  <1> HIDE DEF new
  <1>2. \A x \in DOMAIN new : ~new[x].page => x \in DOMAIN tables /\ new[x] = tables[x]
    BY <1>1
  <1>3. \A x \in DOMAIN new : new[x].page => x[1] = 4
    BY <1>1 DEF Private
  <1>4. Private(o, p, va, new)
    BY <1>2, <1>3 DEF Private
  <1> QED BY <1>4 DEF new

LEMMA SameButTablesTwice ==
  ASSUME NEW k, NEW s, NEW r, k.proc \in Structs, s.proc \in Structs, r.proc \in Structs,
         SameButTables(k, s), SameButTables(s, r)
  PROVE  SameButTables(k, r)
  BY DEF SameButTables, Structs

LEMMA SameAsItself ==
  ASSUME NEW k, k.proc \in Structs PROVE SameButTables(k, k)
  BY DEF SameButTables, Structs

\* A page of 4 KB is not refused by page tables that have no larger page.
LEMMA NotRefused ==
  ASSUME NEW p, NEW o, NEW pages, NEW tables, Private(o, p, pages, tables),
         NEW va \in Nat, NEW frame \in Nat
  PROVE  ~Refused(tables, va, frame, 4)
  <1>1. Span(4) = 1
    BY DEF Span
  <1>2. Aligned(va, frame, 4)
    BY <1>1 DEF Aligned
  <1>3. \A n \in 2..3 : ~IsPage(tables, va, n)
    <2> TAKE n \in 2..3
    <2>1. At(va, n)[1] = n
      BY AtIn
    <2>2. n # 4
      OBVIOUS
    <2> QED BY <2>1, <2>2 DEF IsPage, Present, Private
  <1> QED BY <1>2, <1>3 DEF Refused

LEMMA SetPageFair ==
  ASSUME NEW p \in Processes, NEW o, NEW k \in Fair(o, p),
         NEW va \in Nat, NEW frame \in Nat, NEW flags \in SUBSET Flags
  PROVE  /\ MemoryPagingSetPage(k, p, va, frame, flags, 4) \in Fair(o, p)
         /\ SameButTables(k, MemoryPagingSetPage(k, p, va, frame, flags, 4))
  <1> DEFINE missing == Missing(k.proc.tables, va, 4)
             Made(s, n) == IF n \in missing THEN MakeTable(s, p, va, n) ELSE s
             one == Made(k, 1)
             two == Made(one, 2)
             way == Made(two, 3)
             r == MemoryPagingSetPage(k, p, va, frame, flags, 4)
  <1>1. \A s \in Fair(o, p) : s.proc \in Structs
    BY DEF Fair, Records
  <1>2. ASSUME NEW s \in Fair(o, p), NEW n \in 1..3
        PROVE  Made(s, n) \in Fair(o, p) /\ SameButTables(s, Made(s, n))
    <2> HIDE DEF missing
    <2>1. n \in 0..3
      OBVIOUS
    <2>2. CASE n \in missing
      BY <2>1, <2>2, MakeTableFair
    <2>3. CASE n \notin missing
      BY <2>3, <1>1, SameAsItself
    <2> QED BY <2>2, <2>3
  <1> HIDE DEF missing
  <1>3. one \in Fair(o, p) /\ SameButTables(k, one)
    BY <1>2
  <1>4. two \in Fair(o, p) /\ SameButTables(k, two)
    <2> HIDE DEF one
    <2>1. two \in Fair(o, p) /\ SameButTables(one, two)
      BY <1>2, <1>3
    <2> QED BY <2>1, <1>1, <1>3, SameButTablesTwice
  <1>5. way \in Fair(o, p) /\ SameButTables(k, way)
    <2> HIDE DEF two
    <2>1. way \in Fair(o, p) /\ SameButTables(two, way)
      BY <1>2, <1>4
    <2> QED BY <2>1, <1>1, <1>4, SameButTablesTwice
  <1>6. ~Refused(k.proc.tables, va, frame, 4)
    BY NotRefused DEF Fair
  <1> DEFINE at == At(va, 4)
             entry == Entry(frame, flags, TRUE)
             new == WithEntry(way.proc.tables, at, entry)
  <1>7. r = [way EXCEPT !.proc.tables = new]
    BY <1>6 DEF MemoryPagingSetPage, WithPage, missing
  <1>8. at \in Names /\ at[1] = 4 /\ entry \in Entries /\ entry.page
    BY AtIn DEF Entry, Entries
  <1> HIDE DEF way, r, at, entry
  <1>9. /\ way \in Records /\ way.proc \in Structs
        /\ GivenTo(p, o, way.owner)
        /\ Private(way.owner, p, way.proc.va, way.proc.tables)
    BY <1>5 DEF Fair, Records
  <1>10. new \in Partial(Names, Entries)
    BY <1>8, <1>9, WithEntryIs DEF Structs
  <1>11. Private(way.owner, p, way.proc.va, new)
    BY <1>8, <1>9, PrivateEntry
  <1> HIDE DEF new
  <1>12. /\ r \in Records /\ r.owner = way.owner /\ r.ok = way.ok
         /\ r.proc = [way.proc EXCEPT !.tables = new]
    BY <1>7, <1>9, <1>10 DEF Records, Structs
  <1>13. r.proc.va = way.proc.va /\ r.proc.tables = new
    BY <1>9, <1>12 DEF Structs
  <1>14. r \in Fair(o, p)
    BY <1>9, <1>11, <1>12, <1>13 DEF Fair
  <1>15. SameButTables(way, r)
    BY <1>12, <1>13 DEF SameButTables
  <1>16. SameButTables(k, r)
    BY <1>1, <1>5, <1>14, <1>15, SameButTablesTwice
  <1> QED BY <1>14, <1>16 DEF r

-----------------------------------------------------------------------------
(* The tables that are made on the way.                                    *)

\* What the kernel functions change is a record, with page tables.
IsRecord(k) ==
  /\ k = [owner |-> k.owner, proc |-> k.proc, ok |-> k.ok, lost |-> k.lost]
  /\ k.proc = [x \in DOMAIN k.proc |-> k.proc[x]] /\ "tables" \in DOMAIN k.proc

\* The entries of an address on some levels, as tables that let everything pass, are
\* added where nothing was.
MoreTables(tables, new, va, S) ==
  /\ DOMAIN new = DOMAIN tables \cup {At(va, n) : n \in S}
  /\ \A x \in DOMAIN tables : new[x] = tables[x]
  /\ \A n \in S : ~new[At(va, n)].page /\ new[At(va, n)].flags = Flags

\* What the tables are after MemoryPagingSetPage.
EnteredIn(tables, new, va, frame, flags, size) ==
  /\ DOMAIN new = DOMAIN tables \cup {At(va, n) : n \in 1..size}
  /\ new[At(va, size)] = Entry(frame, flags, TRUE)
  /\ \A x \in DOMAIN tables : x # At(va, size) => new[x] = tables[x]
  /\ \A n \in 1..(size - 1) : At(va, n) \notin DOMAIN tables =>
       ~new[At(va, n)].page /\ new[At(va, n)].flags = Flags

LEMMA MakeTableIs ==
  ASSUME NEW k, IsRecord(k), NEW who, NEW va, NEW n
  PROVE  LET r == MakeTable(k, who, va, n)
         IN  /\ IsRecord(r) /\ (k.lost => r.lost)
             /\ ~r.lost => ~k.lost /\ \E frame : r.proc.tables =
                             WithEntry(k.proc.tables, At(va, n), Entry(frame, Flags, FALSE))
  <1> DEFINE r == MakeTable(k, who, va, n)
             frame == Min(FreeFrames(k.owner))
             new == WithEntry(k.proc.tables, At(va, n), Entry(frame, Flags, FALSE))
  <1>1. CASE FreeFrames(k.owner) = {}
    <2>1. r = [k EXCEPT !.lost = TRUE]
      BY <1>1 DEF MakeTable
    <2>2. r = [owner |-> k.owner, proc |-> k.proc, ok |-> k.ok, lost |-> TRUE]
      BY <2>1 DEF IsRecord
    <2> QED BY <2>2 DEF IsRecord
  <1>2. CASE FreeFrames(k.owner) # {}
    <2>1. r = [k EXCEPT !.owner[frame] = who, !.proc.tables = new]
      BY <1>2 DEF MakeTable, WithTable, Flags
    <2> HIDE DEF new, frame, r
    <2>2. r = [owner |-> [k.owner EXCEPT ![frame] = who],
               proc |-> [k.proc EXCEPT !.tables = new], ok |-> k.ok, lost |-> k.lost]
      BY <2>1 DEF IsRecord
    <2>3. /\ r.lost = k.lost /\ r.proc.tables = new
          /\ r.proc = [k.proc EXCEPT !.tables = new]
      BY <2>2 DEF IsRecord
    <2>4. IsRecord(r)
      BY <2>2, <2>3 DEF IsRecord
    <2> QED BY <2>3, <2>4 DEF r, new
  <1> QED BY <1>1, <1>2

LEMMA TableMore ==
  ASSUME NEW tables, NEW new, NEW va, NEW S, MoreTables(tables, new, va, S),
         NEW n, At(va, n) \notin DOMAIN tables, NEW frame
  PROVE  MoreTables(tables, WithEntry(new, At(va, n), Entry(frame, Flags, FALSE)), va, S \cup {n})
  <1> DEFINE at == At(va, n)
             entry == Entry(frame, Flags, FALSE)
             newer == WithEntry(new, at, entry)
  <1>1. /\ DOMAIN newer = DOMAIN new \cup {at} /\ newer[at] = entry
        /\ \A x \in DOMAIN new : x # at => newer[x] = new[x]
    BY DEF WithEntry
  <1>2. ~entry.page /\ entry.flags = Flags
    BY DEF Entry
  <1> HIDE DEF newer, entry
  <1>3. DOMAIN newer = DOMAIN tables \cup {At(va, m) : m \in S \cup {n}}
    BY <1>1 DEF MoreTables
  <1>4. \A x \in DOMAIN tables : newer[x] = tables[x]
    BY <1>1 DEF MoreTables
  <1>5. ASSUME NEW m \in S \cup {n}
        PROVE  ~newer[At(va, m)].page /\ newer[At(va, m)].flags = Flags
    <2>1. CASE At(va, m) = at
      BY <1>1, <1>2, <2>1
    <2>2. CASE At(va, m) # at
      <3>1. m \in S /\ At(va, m) \in DOMAIN new
        BY <2>2 DEF MoreTables
      <3> QED BY <1>1, <2>2, <3>1 DEF MoreTables
    <2> QED BY <2>1, <2>2
  <1> QED BY <1>3, <1>4, <1>5 DEF MoreTables, newer, entry

\* MemoryPagingSetPage: the tables that are missing, and the page.
LEMMA SetPageIs ==
  ASSUME NEW k, IsRecord(k), NEW who, NEW va \in Nat, NEW frame, NEW flags,
         NEW size \in PageSizes, ~Refused(k.proc.tables, va, frame, size)
  PROVE  LET r == MemoryPagingSetPage(k, who, va, frame, flags, size)
         IN  /\ IsRecord(r) /\ (k.lost => r.lost)
             /\ ~r.lost => EnteredIn(k.proc.tables, r.proc.tables, va, frame, flags, size)
  <1> DEFINE tables == k.proc.tables
             missing == Missing(tables, va, size)
             Made(s, n) == IF n \in missing THEN MakeTable(s, who, va, n) ELSE s
             one == Made(k, 1)
             two == Made(one, 2)
             way == Made(two, 3)
             r == MemoryPagingSetPage(k, who, va, frame, flags, size)
             From(s, n) == /\ IsRecord(s) /\ (k.lost => s.lost)
                           /\ ~s.lost => MoreTables(tables, s.proc.tables, va, missing \cap 1..n)
  <1>0. missing = {n \in 1..(size - 1) : At(va, n) \notin DOMAIN tables} /\ size \in 2..4
    BY DEF Missing, Present, PageSizes
  <1>1. From(k, 0)
    BY DEF MoreTables
  <1>2. r = [way EXCEPT !.proc.tables = WithPage(@, va, frame, flags, size)]
    BY DEF MemoryPagingSetPage
  <1> HIDE DEF missing
  <1>3. ASSUME NEW s, NEW n \in 1..3, From(s, n - 1)
        PROVE  From(Made(s, n), n)
    <2>1. CASE n \notin missing
      <3>1. missing \cap 1..n = missing \cap 1..(n - 1)
        BY <2>1
      <3> QED BY <1>3, <2>1, <3>1
    <2>2. CASE n \in missing
      <3> DEFINE t == MakeTable(s, who, va, n)
      <3>1. /\ IsRecord(t) /\ (s.lost => t.lost)
            /\ ~t.lost => ~s.lost /\ \E f : t.proc.tables =
                            WithEntry(s.proc.tables, At(va, n), Entry(f, Flags, FALSE))
        BY <1>3, MakeTableIs
      <3>2. missing \cap 1..n = (missing \cap 1..(n - 1)) \cup {n}
        BY <2>2
      <3>3. At(va, n) \notin DOMAIN tables
        BY <1>0, <2>2
      <3> HIDE DEF t, tables
      <3>4. ASSUME ~t.lost
            PROVE  MoreTables(tables, t.proc.tables, va, missing \cap 1..n)
        <4>1. PICK f : t.proc.tables =
                         WithEntry(s.proc.tables, At(va, n), Entry(f, Flags, FALSE))
          BY <3>1, <3>4
        <4>2. MoreTables(tables, s.proc.tables, va, missing \cap 1..(n - 1))
          BY <1>3, <3>1, <3>4
        <4>3. PICK S : S = missing \cap 1..(n - 1)
          OBVIOUS
        <4>4. MoreTables(tables, s.proc.tables, va, S)
          BY <4>2, <4>3
        <4>5. MoreTables(tables, WithEntry(s.proc.tables, At(va, n), Entry(f, Flags, FALSE)),
                         va, S \cup {n})
          BY ONLY <3>3, <4>4, TableMore
        <4> QED BY <3>2, <4>1, <4>3, <4>5
      <3>5. From(t, n)
        BY <1>3, <3>1, <3>4
      <3> QED BY <2>2, <3>5 DEF t
    <2> QED BY <2>1, <2>2
  <1> HIDE DEF Made, From
  <1>4. From(one, 1)
    BY <1>1, <1>3
  <1>5. From(two, 2)
    <2> HIDE DEF one
    <2> QED BY <1>3, <1>4
  <1>6. From(way, 3)
    <2> HIDE DEF two
    <2> QED BY <1>3, <1>5
  <1>7. /\ IsRecord(way) /\ (k.lost => way.lost)
        /\ ~way.lost => MoreTables(tables, way.proc.tables, va, missing)
    <2>1. missing \cap 1..3 = missing
      BY <1>0
    <2> QED BY <1>6, <2>1 DEF From
  <1> DEFINE at == At(va, size)
             entry == Entry(frame, flags, TRUE)
             new == WithEntry(way.proc.tables, at, entry)
  <1> HIDE DEF way, r
  <1>8. r = [owner |-> way.owner, proc |-> [way.proc EXCEPT !.tables = new],
             ok |-> way.ok, lost |-> way.lost]
    BY <1>2, <1>7 DEF IsRecord, WithPage
  <1>9. /\ DOMAIN new = DOMAIN way.proc.tables \cup {at} /\ new[at] = entry
        /\ \A x \in DOMAIN way.proc.tables : x # at => new[x] = way.proc.tables[x]
    BY DEF WithEntry
  <1> HIDE DEF new, at, entry
  <1>10. /\ IsRecord(r) /\ r.proc.tables = new /\ r.lost = way.lost
    BY <1>7, <1>8 DEF IsRecord
  <1> HIDE DEF tables
  <1>11. ASSUME ~r.lost PROVE EnteredIn(tables, new, va, frame, flags, size)
    <2>1. MoreTables(tables, way.proc.tables, va, missing)
      BY <1>7, <1>10, <1>11
    <2>2. DOMAIN new = DOMAIN tables \cup {At(va, n) : n \in 1..size}
      <3>1. DOMAIN new = DOMAIN tables \cup {At(va, n) : n \in missing} \cup {at}
        BY <1>9, <2>1 DEF MoreTables
      <3>2. \A n \in 1..size : At(va, n) \in DOMAIN tables \/ n \in missing \/ n = size
        BY <1>0
      <3>3. missing \subseteq 1..size /\ size \in 1..size
        BY <1>0
      <3> QED BY <3>1, <3>2, <3>3 DEF at
    <2>3. \A x \in DOMAIN tables : x # at => new[x] = tables[x]
      BY <1>9, <2>1 DEF MoreTables
    <2>4. ASSUME NEW n \in 1..(size - 1), At(va, n) \notin DOMAIN tables
          PROVE  ~new[At(va, n)].page /\ new[At(va, n)].flags = Flags
      <3>1. n \in missing
        BY <1>0, <2>4
      <3>2. At(va, n) # at
        BY <1>0, AtApart DEF at
      <3>3. At(va, n) \in DOMAIN way.proc.tables
        BY <2>1, <3>1 DEF MoreTables
      <3> QED BY <1>9, <2>1, <3>1, <3>2, <3>3 DEF MoreTables
    <2> QED BY <1>9, <2>2, <2>3, <2>4 DEF EnteredIn, at, entry
  <1> QED BY <1>7, <1>10, <1>11 DEF r, tables

\* Neither is lost when tables are added to tables: a page of 2 MB or 1 GB is entered
\* where nothing was.
LEMMA EnteredTree ==
  ASSUME NEW tables, NEW new, NEW va \in Nat, NEW frame, NEW flags, NEW size \in {3, 4},
         Tree(tables), \A x \in DOMAIN tables : tables[x].page => x[1] \in {3, 4},
         ~Refused(tables, va, frame, size),
         EnteredIn(tables, new, va, frame, flags, size)
  PROVE  Tree(new) /\ \A x \in DOMAIN new : new[x].page => x[1] \in {3, 4}
  <1>1. ASSUME NEW x \in DOMAIN new, new[x].page PROVE x[1] \in {3, 4}
    <2>1. CASE x = At(va, size)
      BY <2>1, AtIn
    <2>2. CASE x # At(va, size)
      BY <1>1, <2>2 DEF EnteredIn
    <2> QED BY <2>1, <2>2
  <1>2. ASSUME NEW other \in Nat, NEW n \in 2..4, Present(new, other, n)
        PROVE  Present(new, other, n - 1) /\ ~IsPage(new, other, n - 1)
    <2>0. n - 1 \in 1..3 /\ n \in 1..4 /\ size \in 1..4 /\ n - 1 # n /\ n - 1 \in 0..4
      OBVIOUS
    <2>1. CASE At(other, n) \in DOMAIN tables
      <3>1. At(other, n - 1) \in DOMAIN tables /\ ~tables[At(other, n - 1)].page
        BY <2>1 DEF Tree, Present, IsPage
      <3>2. At(other, n - 1) # At(va, size)
        <4>1. CASE size = 4
          BY <2>0, <4>1, AtApart
        <4>2. CASE size = 3
          BY <3>1, <4>2 DEF Refused, Present
        <4> QED BY <4>1, <4>2
      <3> QED BY <3>1, <3>2 DEF EnteredIn, Present, IsPage
    <2>2. CASE At(other, n) \notin DOMAIN tables
      <3>1. PICK m \in 1..size : At(other, n) = At(va, m)
        BY <1>2, <2>2 DEF EnteredIn, Present
      <3>2. m = n
        BY <2>0, <3>1, AtApart
      <3>3. At(other, n - 1) = At(va, n - 1)
        BY <3>1, <3>2, AtAbove
      <3>4. n - 1 \in 1..(size - 1) /\ n - 1 \in 1..size
        BY <3>2
      <3>5. At(va, n - 1) \in DOMAIN new
        BY <3>4 DEF EnteredIn
      <3>6. ~new[At(va, n - 1)].page
        <4>1. CASE At(va, n - 1) \notin DOMAIN tables
          BY <3>4, <4>1 DEF EnteredIn
        <4>2. CASE At(va, n - 1) \in DOMAIN tables
          <5>1. ~tables[At(va, n - 1)].page
            <6>1. CASE n - 1 \in 2..(size - 1)
              BY <4>2, <6>1 DEF Refused, IsPage, Present
            <6>2. CASE n - 1 = 1
              <7>1. At(va, n - 1)[1] = 1
                BY <6>2, AtIn
              <7> QED BY <4>2, <7>1
            <6> QED BY <3>4, <6>1, <6>2
          <5>2. At(va, n - 1) # At(va, size)
            BY <2>0, <3>4, AtApart
          <5> QED BY <4>2, <5>1, <5>2 DEF EnteredIn
        <4> QED BY <4>1, <4>2
      <3> QED BY <3>3, <3>5, <3>6 DEF Present, IsPage
    <2> QED BY <2>1, <2>2
  <1> QED BY <1>1, <1>2 DEF Tree

-----------------------------------------------------------------------------
(* What the page tables say of a process.                                  *)

\* Everything on the way to a page of 4 KB lets everything pass.
Passes(tables) ==
  /\ Tree(tables)
  /\ \A x \in DOMAIN tables : x[1] # 4 => ~tables[x].page /\ tables[x].flags = Flags

IsEntry(tables, va, frame, flags) ==
  Present(tables, va, 4) /\ tables[At(va, 4)] = Entry(frame, flags, TRUE)

\* The rights of the kernel's own pages.
KernelFlags(page) == IF page \in TextPages THEN {} ELSE {"rw"}

\* Every page that was noted has its entry, with its frame and its rights, and so have
\* those pages of the kernel; what has an entry is one of these or the kernel's.
Agrees(va, tables, kernel) ==
  /\ Passes(tables)
  /\ DOMAIN va \subseteq PagesUsed
  /\ \A page \in DOMAIN va : IsEntry(tables, AddressOfPage(page), va[page], FlagsOf(page))
  /\ \A page \in kernel : IsEntry(tables, page, page, KernelFlags(page))
  /\ \A x \in DOMAIN tables : x[1] = 4 =>
       \/ \E page \in DOMAIN va : x = At(AddressOfPage(page), 4)
       \/ \E page \in KernelPages : x = At(page, 4)

\* What a kernel function begins with: the frames, and the pages of the kernel that the
\* process has.
Before(o, kernel) == [owner |-> o, kernel |-> kernel]

\* The records that it may make for p.
Good(before, p) ==
  {k \in Fair(before.owner, p) :
    /\ before.kernel \subseteq KernelPages
    /\ ~k.lost => Agrees(k.proc.va, k.proc.tables, before.kernel)}

LEMMA PageIn ==
  ASSUME NEW page \in Pages
  PROVE  AddressOfPage(page) \in Nat /\ FlagsOf(page) \in SUBSET Flags
  BY MemoryAssumption DEF Pages, AddressOfPage, FlagsOf, Flags

LEMMA RecordIs ==
  ASSUME NEW k \in Records
  PROVE  IsRecord(k)
  BY DEF Records, Structs, IsRecord

LEMMA AreNumbers == KernelPages \subseteq Nat /\ NULL \notin KernelPages
  BY MemoryAssumption DEF NULL

\* An entry of 4 KB changes no other.
LEMMA OtherEntries ==
  ASSUME NEW tables, Passes(tables), NEW new, NEW va \in Nat, NEW frame, NEW flags,
         ~Refused(tables, va, frame, 4), EnteredIn(tables, new, va, frame, flags, 4)
  PROVE  /\ Passes(new) /\ IsEntry(new, va, frame, flags)
         /\ \A x \in DOMAIN tables : x # At(va, 4) => x \in DOMAIN new /\ new[x] = tables[x]
         /\ \A x \in DOMAIN new : x[1] = 4 => x = At(va, 4) \/ x \in DOMAIN tables
  <1>1. Tree(new)
    <2>1. Tree(tables) /\ \A x \in DOMAIN tables : tables[x].page => x[1] \in {3, 4}
      BY DEF Passes
    <2>2. 4 \in {3, 4}
      OBVIOUS
    <2> QED BY <2>1, <2>2, EnteredTree
  <1>2. IsEntry(new, va, frame, flags)
    BY DEF EnteredIn, IsEntry, Present
  <1>3. \A x \in DOMAIN tables : x # At(va, 4) => x \in DOMAIN new /\ new[x] = tables[x]
    BY DEF EnteredIn
  <1>4. ASSUME NEW x \in DOMAIN new, x \notin DOMAIN tables, x # At(va, 4)
        PROVE  x[1] # 4 /\ ~new[x].page /\ new[x].flags = Flags
    <2>1. PICK n \in 1..4 : x = At(va, n)
      BY <1>4 DEF EnteredIn
    <2>2. n \in 1..(4 - 1) /\ n \in 0..4
      BY <1>4, <2>1
    <2>3. x[1] = n
      BY <2>1, <2>2, AtIn
    <2> QED BY <1>4, <2>1, <2>2, <2>3 DEF EnteredIn
  <1>5. At(va, 4)[1] = 4
    BY AtIn
  <1>6. ASSUME NEW x \in DOMAIN new, x[1] # 4 PROVE ~new[x].page /\ new[x].flags = Flags
    BY <1>3, <1>4, <1>5, <1>6 DEF Passes
  <1> QED BY <1>1, <1>2, <1>3, <1>4, <1>6 DEF Passes

\* DispatcherProcessMap: the pages of a process lie apart.
LEMMA AgreesPage ==
  ASSUME NEW va \in Partial(Pages, Places), NEW tables, NEW kernel \in SUBSET KernelPages,
         Agrees(va, tables, kernel), NEW page \in Pages, page \in PagesUsed,
         page \notin DOMAIN va, NEW frame \in Nat,
         ~Refused(tables, AddressOfPage(page), frame, 4), NEW new,
         EnteredIn(tables, new, AddressOfPage(page), frame, FlagsOf(page), 4)
  PROVE  Agrees(WithEntry(va, page, frame), new, kernel)
  <1> DEFINE at == AddressOfPage(page)
             more == WithEntry(va, page, frame)
  <1>1. at \in Nat
    BY PageIn
  <1>2. /\ DOMAIN more = DOMAIN va \cup {page} /\ more[page] = frame
        /\ \A a \in DOMAIN va : more[a] = va[a]
    BY DEF WithEntry
  <1>3. at \notin KernelPages /\ \A other \in PagesUsed \ {page} : AddressOfPage(other) # at
    BY AreasAssumption
  <1>4. Passes(tables) /\ DOMAIN va \subseteq PagesUsed /\ DOMAIN va \subseteq Pages
    BY PartialIs DEF Agrees
  <1> HIDE DEF more, at
  <1>5. EnteredIn(tables, new, at, frame, FlagsOf(page), 4) /\ ~Refused(tables, at, frame, 4)
    BY DEF at
  <1>6. /\ Passes(new) /\ IsEntry(new, at, frame, FlagsOf(page))
        /\ \A x \in DOMAIN tables : x # At(at, 4) => x \in DOMAIN new /\ new[x] = tables[x]
        /\ \A x \in DOMAIN new : x[1] = 4 => x = At(at, 4) \/ x \in DOMAIN tables
    BY <1>1, <1>4, <1>5, OtherEntries
  <1>7. ASSUME NEW b \in Nat, b # at, NEW f, NEW flags, IsEntry(tables, b, f, flags)
        PROVE  IsEntry(new, b, f, flags)
    <2>1. At(b, 4) # At(at, 4)
      BY <1>1, <1>7, AtLevels
    <2> QED BY <1>6, <1>7, <2>1 DEF IsEntry, Present
  <1>8. ASSUME NEW a \in DOMAIN more
        PROVE  IsEntry(new, AddressOfPage(a), more[a], FlagsOf(a))
    <2>1. CASE a = page
      BY <1>2, <1>6, <2>1 DEF at
    <2>2. CASE a # page
      <3>1. a \in DOMAIN va /\ AddressOfPage(a) # at /\ more[a] = va[a]
        BY <1>2, <1>3, <1>4, <2>2
      <3>2. AddressOfPage(a) \in Nat
        BY <1>4, <3>1, PageIn
      <3>3. IsEntry(tables, AddressOfPage(a), va[a], FlagsOf(a))
        BY <3>1 DEF Agrees
      <3> QED BY <1>7, <3>1, <3>2, <3>3
    <2> QED BY <2>1, <2>2
  <1>9. ASSUME NEW a \in kernel PROVE IsEntry(new, a, a, KernelFlags(a))
    <2>1. a \in Nat /\ a # at
      BY <1>3, AreNumbers
    <2>2. IsEntry(tables, a, a, KernelFlags(a))
      BY DEF Agrees
    <2> QED BY <1>7, <2>1, <2>2
  <1>10. ASSUME NEW x \in DOMAIN new, x[1] = 4
         PROVE  \/ \E a \in DOMAIN more : x = At(AddressOfPage(a), 4)
                \/ \E a \in KernelPages : x = At(a, 4)
    BY <1>2, <1>6, <1>10 DEF Agrees, at
  <1>11. DOMAIN more \subseteq PagesUsed
    BY <1>2, <1>4
  <1> QED BY <1>6, <1>8, <1>9, <1>10, <1>11 DEF Agrees, more

\* MemoryPagingNewPD: a page of the kernel, before the process has any.
LEMMA AgreesKernel ==
  ASSUME NEW va, DOMAIN va = {}, NEW tables, NEW kernel \in SUBSET KernelPages,
         Agrees(va, tables, kernel), NEW page \in KernelPages,
         ~Refused(tables, page, page, 4), NEW new,
         EnteredIn(tables, new, page, page, KernelFlags(page), 4)
  PROVE  Agrees(va, new, kernel \cup {page})
  <1>1. page \in Nat /\ Passes(tables)
    BY AreNumbers DEF Agrees
  <1>2. /\ Passes(new) /\ IsEntry(new, page, page, KernelFlags(page))
        /\ \A x \in DOMAIN tables : x # At(page, 4) => x \in DOMAIN new /\ new[x] = tables[x]
        /\ \A x \in DOMAIN new : x[1] = 4 => x = At(page, 4) \/ x \in DOMAIN tables
    BY <1>1, OtherEntries
  <1>3. ASSUME NEW a \in kernel \cup {page} PROVE IsEntry(new, a, a, KernelFlags(a))
    <2>1. CASE a = page
      BY <1>2, <2>1
    <2>2. CASE a # page
      <3>1. a \in Nat /\ IsEntry(tables, a, a, KernelFlags(a))
        BY <2>2, AreNumbers DEF Agrees
      <3>2. At(a, 4) # At(page, 4)
        BY <1>1, <2>2, <3>1, AtLevels
      <3> QED BY <1>2, <3>1, <3>2 DEF IsEntry, Present
    <2> QED BY <2>1, <2>2
  <1>4. \A x \in DOMAIN new : x[1] = 4 => \E a \in KernelPages : x = At(a, 4)
    BY <1>2 DEF Agrees
  <1> QED BY <1>2, <1>3, <1>4 DEF Agrees

\* The first table, for which nothing is there.
LEMMA AgreesRoot ==
  ASSUME NEW frame
  PROVE  Agrees(<<>>, WithEntry(<<>>, At(0, 0), Entry(frame, Flags, FALSE)), {})
  <1> DEFINE new == WithEntry(<<>>, At(0, 0), Entry(frame, Flags, FALSE))
  <1>1. DOMAIN <<>> = {}
    OBVIOUS
  <1>2. At(0, 0) = <<0, 0>>
    BY DEF At
  <1>3. DOMAIN new = {<<0, 0>>} /\ new[<<0, 0>>] = Entry(frame, Flags, FALSE)
    BY <1>1, <1>2 DEF WithEntry
  <1> HIDE DEF new
  <1>4. \A va \in Nat : \A n \in 2..4 : ~Present(new, va, n)
    <2> TAKE va \in Nat
    <2> TAKE n \in 2..4
    <2>1. At(va, n)[1] = n /\ n # 0
      BY AtIn
    <2>2. <<0, 0>>[1] = 0
      OBVIOUS
    <2> QED BY <1>3, <2>1, <2>2 DEF Present
  <1>5. Tree(new)
    BY <1>4 DEF Tree
  <1>6. \A x \in DOMAIN new : x[1] # 4 /\ ~new[x].page /\ new[x].flags = Flags
    BY <1>3 DEF Entry
  <1>7. Agrees(<<>>, new, {})
    BY <1>1, <1>5, <1>6 DEF Agrees, Passes
  <1> QED BY <1>7 DEF new

\* What is read of a page that has an entry.
LEMMA LeadsTo ==
  ASSUME NEW tables, Passes(tables), NEW va \in Nat, NEW frame \in Nat,
         NEW flags \in SUBSET Flags, IsEntry(tables, va, frame, flags)
  PROVE  Leads(tables, va) = [frame |-> frame, flags |-> flags]
  <1>1. Present(tables, va, 4) /\ tables[At(va, 4)] = Entry(frame, flags, TRUE)
    BY DEF IsEntry
  <1>2. \A n \in 2..4 :
          Present(tables, va, n) => Present(tables, va, n - 1) /\ ~IsPage(tables, va, n - 1)
    BY DEF Passes, Tree
  <1>3. Present(tables, va, 3) /\ ~IsPage(tables, va, 3)
    BY <1>1, <1>2
  <1>4. Present(tables, va, 2) /\ ~IsPage(tables, va, 2)
    BY <1>2, <1>3
  <1>5. Present(tables, va, 1)
    BY <1>2, <1>4
  <1>6. MemoryPagingPagePresent(tables, va) = At(va, 4)
    BY <1>1, <1>3, <1>4, <1>5 DEF MemoryPagingPagePresent
  <1>7. At(va, 4) = <<4, va>> /\ At(va, 4)[1] = 4 /\ At(va, 4) # None
    <2>1. At(va, 4) = <<4, va>>
      BY AtLevels
    <2>2. <<4, va>> # <<>>
      OBVIOUS
    <2> QED BY <2>1, <2>2 DEF None
  <1>8. Span(4) = 1 /\ va % 1 = 0 /\ frame + 0 = frame
    BY DEF Span
  <1>9. \A n \in 1..3 : tables[At(va, n)].flags = Flags
    <2> TAKE n \in 1..3
    <2>1. At(va, n) \in DOMAIN tables
      BY <1>3, <1>4, <1>5 DEF Present
    <2>2. At(va, n)[1] = n /\ n # 4
      BY AtIn
    <2> QED BY <2>1, <2>2 DEF Passes
  <1>10. tables[At(va, 4)].frame = frame /\ tables[At(va, 4)].flags = flags
    BY <1>1 DEF Entry
  <1>11. {f \in Flags : \A n \in 1..4 : f \in tables[At(va, n)].flags} = flags
    <2>1. \A n \in 1..4 : n = 4 \/ n \in 1..3
      OBVIOUS
    <2>2. 4 \in 1..4
      OBVIOUS
    <2> QED BY <1>9, <1>10, <2>1, <2>2
  <1> QED BY <1>6, <1>7, <1>8, <1>10, <1>11 DEF Leads

-----------------------------------------------------------------------------
(* Pages of a process.                                                     *)

\* r has one page more than k, which was not there.
OnePageMore(k, r, page) ==
  /\ page \notin DOMAIN k.proc.va
  /\ DOMAIN r.proc.va = DOMAIN k.proc.va \cup {page}
  /\ \A a \in DOMAIN k.proc.va : r.proc.va[a] = k.proc.va[a]

\* What is the same in k and r when only frames, pages and page tables have changed.
SameButPages(k, r) ==
  r.proc = [k.proc EXCEPT !.va = r.proc.va, !.tables = r.proc.tables]

LEMMA MapRefused ==
  ASSUME NEW p, NEW k, NEW page, NEW frame, page \in DOMAIN k.proc.va
  PROVE  DispatcherProcessMap(k, p, page, frame) = [k EXCEPT !.ok = FALSE]
  BY DEF DispatcherProcessMap

LEMMA MapGood ==
  ASSUME NEW p \in Processes, NEW before, NEW k \in Good(before, p),
         NEW page \in Pages, page \in PagesUsed, NEW frame \in Places,
         page \notin DOMAIN k.proc.va,
         Private(k.owner, p, WithEntry(k.proc.va, page, frame), k.proc.tables)
  PROVE  LET r == DispatcherProcessMap(k, p, page, frame)
         IN  /\ r \in Good(before, p) /\ r.ok = k.ok
             /\ OnePageMore(k, r, page) /\ SameButPages(k, r)
             /\ r.proc.va = WithEntry(k.proc.va, page, frame)
  <1> DEFINE new == WithEntry(k.proc.va, page, frame)
             noted == [k EXCEPT !.proc.va = new]
             r == DispatcherProcessMap(k, p, page, frame)
  <1>1. /\ k \in Records /\ k.proc \in Structs
        /\ GivenTo(p, before.owner, k.owner)
        /\ Private(k.owner, p, k.proc.va, k.proc.tables)
        /\ k.proc.va \in Partial(Pages, Places)
        /\ before.kernel \in SUBSET KernelPages
        /\ ~k.lost => Agrees(k.proc.va, k.proc.tables, before.kernel)
    BY DEF Good, Fair, Records, Structs
  <1>2. new \in Partial(Pages, Places) /\ DOMAIN new = DOMAIN k.proc.va \cup {page}
    <2>1. new \in Partial(Pages, Places)
      BY <1>1, WithEntryIs
    <2>2. DOMAIN new = DOMAIN k.proc.va \cup {page}
      BY DEF WithEntry
    <2> QED BY <2>1, <2>2
  <1>3. \A a \in DOMAIN k.proc.va : new[a] = k.proc.va[a]
    BY DEF WithEntry
  <1>4. Private(k.owner, p, new, k.proc.tables)
    OBVIOUS
  <1>5. r = MemoryPagingSetPage(noted, p, AddressOfPage(page), frame, FlagsOf(page), 4)
    BY DEF DispatcherProcessMap
  <1> HIDE DEF new
  <1>6. /\ noted \in Records /\ noted.owner = k.owner /\ noted.ok = k.ok
        /\ noted.lost = k.lost /\ noted.proc = [k.proc EXCEPT !.va = new]
    BY <1>1, <1>2 DEF Records, Structs
  <1>7. noted.proc.va = new /\ noted.proc.tables = k.proc.tables
    BY <1>1, <1>6 DEF Structs
  <1> HIDE DEF noted, r
  <1>8. noted \in Fair(before.owner, p)
    BY <1>1, <1>4, <1>6, <1>7 DEF Fair
  <1>9. frame \in Nat
    BY MemoryAssumption, FramesAreNat DEF Places
  <1>10. r \in Fair(before.owner, p) /\ SameButTables(noted, r)
    BY <1>5, <1>8, <1>9, PageIn, SetPageFair
  <1>11. r.ok = k.ok /\ r.proc = [noted.proc EXCEPT !.tables = r.proc.tables]
    BY <1>6, <1>10 DEF SameButTables
  <1>12. r.proc.va = new
    BY <1>1, <1>6, <1>7, <1>11 DEF Structs
  <1>13. SameButPages(k, r)
    BY <1>1, <1>6, <1>11, <1>12 DEF SameButPages, Structs
  <1>14. OnePageMore(k, r, page)
    BY <1>2, <1>3, <1>12 DEF OnePageMore
  <1>15. ASSUME ~r.lost PROVE Agrees(r.proc.va, r.proc.tables, before.kernel)
    <2> DEFINE at == AddressOfPage(page)
               flags == FlagsOf(page)
    <2>1. at \in Nat /\ IsRecord(noted) /\ 4 \in PageSizes
      BY <1>6, PageIn, RecordIs DEF PageSizes
    <2>2. ~Refused(k.proc.tables, at, frame, 4)
      BY <1>1, <1>9, <2>1, NotRefused
    <2> HIDE DEF at, flags
    <2>3. r = MemoryPagingSetPage(noted, p, at, frame, flags, 4)
      BY <1>5 DEF at, flags
    <2>4. /\ noted.lost => r.lost
          /\ ~r.lost => EnteredIn(noted.proc.tables, r.proc.tables, at, frame, flags, 4)
      BY <1>7, <2>1, <2>2, <2>3, SetPageIs
    <2>5. EnteredIn(k.proc.tables, r.proc.tables, at, frame, flags, 4)
      BY <1>7, <1>15, <2>4
    <2>6. Agrees(k.proc.va, k.proc.tables, before.kernel)
      BY <1>1, <1>6, <1>15, <2>4
    <2>7. Agrees(WithEntry(k.proc.va, page, frame), r.proc.tables, before.kernel)
      BY <1>1, <1>9, <2>2, <2>5, <2>6, AgreesPage DEF at, flags
    <2> QED BY <1>12, <2>7 DEF new
  <1>16. r \in Good(before, p)
    BY <1>1, <1>10, <1>15 DEF Good
  <1> QED BY <1>11, <1>12, <1>13, <1>14, <1>16 DEF r, new

\* A page that is not the one beyond the stack, in a frame that was free.
LEMMA PrivatePage ==
  ASSUME NEW p \in Processes, NEW o \in [Frames -> Owners],
         NEW va \in Partial(Pages, Places), NEW tables \in Partial(Names, Entries),
         Private(o, p, va, tables), NEW page \in Pages, page \notin DOMAIN va,
         NEW frame \in Frames, o[frame] = "free"
  PROVE  Private([o EXCEPT ![frame] = p], p, WithEntry(va, page, frame), tables)
  <1> DEFINE new == WithEntry(va, page, frame)
             u == [o EXCEPT ![frame] = p]
  <1>1. /\ DOMAIN new = DOMAIN va \cup {page}
        /\ new[page] = frame
        /\ \A a \in DOMAIN va : new[a] = va[a]
    BY DEF WithEntry
  <1>2. u[frame] = p /\ \A f \in Frames : f # frame => u[f] = o[f]
    OBVIOUS
  <1>3. p # "free"
    BY MemoryAssumption DEF KernelOwners
  <1> HIDE DEF new, u
  <1>4. ASSUME NEW a \in DOMAIN va \ {BeyondStack}
        PROVE  va[a] \in Frames /\ o[va[a]] = p /\ va[a] # frame
    BY <1>3 DEF Private
  <1>5. ASSUME NEW x \in DOMAIN tables, ~tables[x].page
        PROVE  /\ tables[x].frame \in Frames /\ o[tables[x].frame] = p
               /\ tables[x].frame # frame
    BY <1>3, <1>5 DEF Private
  <1>6. ASSUME NEW a \in DOMAIN new \ {BeyondStack}
        PROVE  /\ new[a] \in Frames /\ u[new[a]] = p
               /\ \A b \in DOMAIN new \ {a, BeyondStack} : new[a] # new[b]
               /\ \A x \in DOMAIN tables : ~tables[x].page => tables[x].frame # new[a]
    <2>1. CASE a = page
      BY <2>1, <1>1, <1>2, <1>4, <1>5
    <2>2. CASE a # page
      <3>1. a \in DOMAIN va \ {BeyondStack} /\ new[a] = va[a]
        BY <2>2, <1>1
      <3>2. new[a] \in Frames /\ u[new[a]] = p
        BY <3>1, <1>2, <1>4
      <3>3. \A b \in DOMAIN new \ {a, BeyondStack} : new[a] # new[b]
        BY <3>1, <1>1, <1>4 DEF Private
      <3>4. \A x \in DOMAIN tables : ~tables[x].page => tables[x].frame # new[a]
        BY <3>1 DEF Private
      <3> QED BY <3>2, <3>3, <3>4
    <2> QED BY <2>1, <2>2
  <1>7. ASSUME NEW x \in DOMAIN tables
        PROVE  IF tables[x].page THEN x[1] = 4
               ELSE tables[x].frame \in Frames /\ u[tables[x].frame] = p
    BY <1>2, <1>5 DEF Private
  <1>8. Private(u, p, new, tables)
    BY <1>6, <1>7 DEF Private
  <1> QED BY <1>8 DEF u, new

\* The page beyond the stack is not looked at.
LEMMA PrivateBeyond ==
  ASSUME NEW p, NEW o, NEW va, NEW tables, Private(o, p, va, tables),
         BeyondStack \notin DOMAIN va, NEW frame
  PROVE  Private(o, p, WithEntry(va, BeyondStack, frame), tables)
  <1> DEFINE new == WithEntry(va, BeyondStack, frame)
  <1>1. /\ DOMAIN new \ {BeyondStack} = DOMAIN va \ {BeyondStack}
        /\ \A a \in DOMAIN va : new[a] = va[a]
    BY DEF WithEntry
  <1> HIDE DEF new
  <1>2. Private(o, p, new, tables)
    BY <1>1 DEF Private
  <1> QED BY <1>2 DEF new

\* A free frame is taken, and is not given back.
LEMMA PrivateFrame ==
  ASSUME NEW p \in Processes, NEW o \in [Frames -> Owners], NEW va, NEW tables,
         Private(o, p, va, tables), NEW frame \in Frames, o[frame] = "free"
  PROVE  Private([o EXCEPT ![frame] = p], p, va, tables)
  <1>1. \A f \in Frames : o[f] = p => [o EXCEPT ![frame] = p][f] = p
    OBVIOUS
  <1> QED BY <1>1 DEF Private

LEMMA TakeFrameGood ==
  ASSUME NEW p \in Processes, NEW before, NEW k \in Good(before, p),
         NEW frame \in Frames, k.owner[frame] = "free",
         NEW r, r = [k EXCEPT !.owner[frame] = p]
  PROVE  /\ r \in Good(before, p) /\ r.owner = [k.owner EXCEPT ![frame] = p]
         /\ r.proc = k.proc /\ r.ok = k.ok /\ r.lost = k.lost
  <1>1. /\ k \in Records /\ k.owner \in [Frames -> Owners] /\ GivenTo(p, before.owner, k.owner)
        /\ Private(k.owner, p, k.proc.va, k.proc.tables)
    BY DEF Good, Fair, Records
  <1>2. /\ r \in Records /\ r.owner = [k.owner EXCEPT ![frame] = p]
        /\ r.proc = k.proc /\ r.ok = k.ok /\ r.lost = k.lost
    BY <1>1 DEF Records, Owners
  <1>3. GivenTo(p, before.owner, r.owner)
    BY <1>1, <1>2 DEF GivenTo
  <1>4. Private(r.owner, p, r.proc.va, r.proc.tables)
    BY <1>1, <1>2, PrivateFrame
  <1>5. r \in Good(before, p)
    BY <1>2, <1>3, <1>4 DEF Good, Fair
  <1> QED BY <1>2, <1>5

LEMMA FailGood ==
  ASSUME NEW p, NEW before, NEW k \in Good(before, p)
  PROVE  /\ [k EXCEPT !.ok = FALSE] \in Good(before, p)
         /\ [k EXCEPT !.ok = FALSE].ok = FALSE
         /\ [k EXCEPT !.ok = FALSE].owner = k.owner
         /\ [k EXCEPT !.ok = FALSE].proc = k.proc
  <1>1. k \in Records
    BY DEF Good, Fair
  <1> DEFINE r == [k EXCEPT !.ok = FALSE]
  <1>2. r \in Records /\ r.ok = FALSE /\ r.owner = k.owner /\ r.proc = k.proc
        /\ r.lost = k.lost
    BY <1>1 DEF Records
  <1> HIDE DEF r
  <1>3. r \in Good(before, p)
    BY <1>2 DEF Good, Fair
  <1> QED BY <1>2, <1>3 DEF r

LEMMA SamePages == ASSUME NEW k, NEW r, k.proc \in Structs, r.proc = k.proc
                   PROVE  SameButPages(k, r)
  BY DEF SameButPages, Structs

\* What comes of a call that makes one page.
Allocated(before, p, k, r, page) ==
  /\ r \in Good(before, p) /\ SameButPages(k, r)
  /\ IF r.ok THEN OnePageMore(k, r, page)
     ELSE /\ r.proc = k.proc /\ r.owner = k.owner
          /\ page \in DOMAIN k.proc.va \/ FreeFrames(k.owner) = {}

\* DispatcherProcessAllocatePage: a page is made, or nothing is changed.
LEMMA AllocateGood ==
  ASSUME NEW p \in Processes, NEW before, NEW k \in Good(before, p), k.ok,
         NEW page \in Pages, page \in PagesUsed, page # BeyondStack
  PROVE  Allocated(before, p, k, DispatcherProcessAllocatePage(k, p, page), page)
  <1> DEFINE frame == Min(FreeFrames(k.owner))
             taken == [k EXCEPT !.owner[frame] = p]
             mapped == DispatcherProcessMap(taken, p, page, frame)
             r == DispatcherProcessAllocatePage(k, p, page)
  <1>1. k \in Records /\ k.proc \in Structs /\ k.owner \in [Frames -> Owners]
    BY DEF Good, Fair, Records
  <1>2. CASE FreeFrames(k.owner) = {}
    <2>1. r = [k EXCEPT !.ok = FALSE]
      BY <1>2 DEF DispatcherProcessAllocatePage
    <2> HIDE DEF r
    <2>2. r \in Good(before, p) /\ r.ok = FALSE /\ r.owner = k.owner /\ r.proc = k.proc
      BY <2>1, FailGood
    <2> QED BY <1>1, <1>2, <2>2, SamePages DEF Allocated, r
  <1>3. CASE FreeFrames(k.owner) # {}
    <2>1. frame \in Frames /\ k.owner[frame] = "free"
      BY <1>3, LeastFree
    <2>2. r = IF mapped.ok THEN mapped ELSE [mapped EXCEPT !.owner[frame] = "free"]
      BY <1>3 DEF DispatcherProcessAllocatePage
    <2> HIDE DEF frame, r
    <2>0. taken = [k EXCEPT !.owner[frame] = p]
      OBVIOUS
    <2> HIDE DEF taken
    <2>3. /\ taken \in Good(before, p) /\ taken.ok = k.ok /\ taken.proc = k.proc
          /\ taken.owner = [k.owner EXCEPT ![frame] = p]
      <3>1. taken \in Good(before, p)
        BY <2>0, <2>1, TakeFrameGood
      <3>2. taken.proc = k.proc
        BY <2>0, <2>1, TakeFrameGood
      <3>3. taken.ok = k.ok
        BY <1>1, <2>0 DEF Records
      <3>4. taken.owner = [k.owner EXCEPT ![frame] = p]
        BY <2>0, <2>1, TakeFrameGood
      <3> QED BY <3>1, <3>2, <3>3, <3>4
    <2>4. CASE page \in DOMAIN k.proc.va
      <3>1. mapped = [taken EXCEPT !.ok = FALSE]
        BY <2>3, <2>4, MapRefused
      <3>2. r = [taken EXCEPT !.ok = FALSE, !.owner[frame] = "free"]
        <4>1. mapped.ok = FALSE
          BY <2>3, <3>1, FailGood
        <4>2. r = [mapped EXCEPT !.owner[frame] = "free"]
          BY <2>2, <4>1
        <4> QED BY <3>1, <4>2
      <3>3. r = [k EXCEPT !.ok = FALSE]
        <4>1. [[k.owner EXCEPT ![frame] = p] EXCEPT ![frame] = "free"] = k.owner
          BY <1>1, <2>1
        <4>2. taken \in Records
          BY <2>3 DEF Good, Fair
        <4>3. r \in [owner : {k.owner}, proc : {k.proc}, ok : {FALSE}, lost : {taken.lost}]
          BY <2>3, <3>2, <4>1, <4>2 DEF Records
        <4>4. taken.lost = k.lost
          BY <1>1, <2>0 DEF Records
        <4> QED BY <1>1, <4>3, <4>4 DEF Records
      <3>4. r \in Good(before, p) /\ r.ok = FALSE /\ r.owner = k.owner /\ r.proc = k.proc
        BY <3>3, FailGood
      <3> QED BY <1>1, <2>4, <3>4, SamePages DEF Allocated, r
    <2>5. CASE page \notin DOMAIN k.proc.va
      <3>1. Private(taken.owner, p, WithEntry(taken.proc.va, page, frame), taken.proc.tables)
        BY <1>1, <2>1, <2>3, <2>5, PrivatePage DEF Good, Fair, Structs
      <3>2. frame \in Places /\ page \notin DOMAIN taken.proc.va
        BY <2>1, <2>3, <2>5 DEF Places
      <3>3. /\ mapped \in Good(before, p) /\ mapped.ok = taken.ok
            /\ OnePageMore(taken, mapped, page) /\ SameButPages(taken, mapped)
        BY <2>3, <3>1, <3>2, MapGood
      <3> HIDE DEF mapped
      <3>4. r = mapped /\ r.ok
        BY <2>2, <2>3, <3>3
      <3>5. OnePageMore(k, r, page) /\ SameButPages(k, r)
        BY <2>3, <3>3, <3>4 DEF OnePageMore, SameButPages
      <3> QED BY <3>3, <3>4, <3>5 DEF Allocated, r
    <2> QED BY <2>4, <2>5
  <1> QED BY <1>2, <1>3

-----------------------------------------------------------------------------
(* Several pages.                                                          *)

\* What a process had is still there.
Extends(k, r) ==
  /\ \A a \in DOMAIN k.proc.va : a \in DOMAIN r.proc.va /\ r.proc.va[a] = k.proc.va[a]
  /\ r.proc.status = k.proc.status /\ r.proc.data = k.proc.data

HeapPages(proc) == {n \in Nat : <<"heap", n>> \in DOMAIN proc.va}

\* heap_size counts the pages of the heap, and there is one.
HeapCounted(proc) ==
  proc.heap_size >= 1 /\ HeapPages(proc) = 0..(proc.heap_size - 1)

SameHeap(k, r) ==
  r.proc.heap_size = k.proc.heap_size /\ HeapPages(r.proc) = HeapPages(k.proc)

SameArguments(k, r) == r.proc.init_ptr = k.proc.init_ptr /\ r.proc.args = k.proc.args

LEMMA ExtendsTwice ==
  ASSUME NEW k, NEW s, NEW r, Extends(k, s), Extends(s, r) PROVE Extends(k, r)
  BY DEF Extends

LEMMA AllocatedKeeps ==
  ASSUME NEW p, NEW before, NEW k, k.proc \in Structs, NEW r, NEW page,
         Allocated(before, p, k, r, page)
  PROVE  /\ r \in Good(before, p) /\ r.proc \in Structs
         /\ Extends(k, r) /\ SameArguments(k, r)
         /\ r.proc.heap_size = k.proc.heap_size
         /\ page[1] # "heap" => SameHeap(k, r)
  <1>1. r \in Good(before, p) /\ r.proc \in Structs
    BY DEF Allocated, Good, Fair, Records
  <1>2. /\ r.proc.status = k.proc.status /\ r.proc.data = k.proc.data
        /\ r.proc.heap_size = k.proc.heap_size /\ SameArguments(k, r)
    BY <1>1 DEF Allocated, SameButPages, SameArguments, Structs
  <1>3. CASE r.ok
    <2>1. OnePageMore(k, r, page)
      BY <1>3 DEF Allocated
    <2>2. Extends(k, r)
      BY <1>2, <2>1 DEF Extends, OnePageMore
    <2>3. page[1] # "heap" => HeapPages(r.proc) = HeapPages(k.proc)
      BY <2>1 DEF HeapPages, OnePageMore
    <2> QED BY <1>1, <1>2, <2>2, <2>3 DEF SameHeap
  <1>4. CASE ~r.ok
    <2>1. r.proc = k.proc
      BY <1>4 DEF Allocated
    <2> QED BY <1>1, <1>2, <2>1 DEF SameHeap, Extends
  <1> QED BY <1>3, <1>4

\* What comes of a call that makes some pages outside of the heap.
PagesMade(before, p, k) ==
  {r \in Good(before, p) : Extends(k, r) /\ SameHeap(k, r) /\ SameArguments(k, r)}

\* AllocatePages stops at the first page that cannot be made.
LEMMA AllocatePagesGood ==
  ASSUME NEW p \in Processes, NEW before, NEW k \in Good(before, p), NEW pages,
         Len(pages) \in Nat,
         \A i \in 1..Len(pages) :
           pages[i] \in Pages \cap PagesUsed /\ pages[i][1] \notin {"heap", "stack"}
  PROVE  AllocatePages(k, p, pages) \in PagesMade(before, p, k)
  <1> DEFINE K == PagesMade(before, p, k)
             len == Len(pages)
             op(s, x) == IF s.ok THEN DispatcherProcessAllocatePage(s, p, x) ELSE s
             f == CHOOSE g : g = [n \in 0..len |-> IF n = 0 THEN k ELSE op(g[n - 1], pages[n])]
             G == [n \in 1..len |-> [s \in K |-> op(s, pages[n])]]
  <1>1. k \in K
    BY DEF PagesMade, Extends, SameHeap, SameArguments
  <1>2. ASSUME NEW s \in K, NEW n \in 1..len PROVE op(s, pages[n]) \in K
    <2>1. s \in Good(before, p) /\ s.proc \in Structs
      BY DEF PagesMade, Good, Fair, Records
    <2>2. CASE ~s.ok
      BY <2>2
    <2>3. CASE s.ok
      <3> DEFINE page == pages[n]
                 r == DispatcherProcessAllocatePage(s, p, page)
      <3>1. page \in Pages \cap PagesUsed /\ page[1] # "heap" /\ page # BeyondStack
        BY DEF BeyondStack
      <3> HIDE DEF page
      <3>2. Allocated(before, p, s, r, page)
        BY <2>1, <2>3, <3>1, AllocateGood
      <3> HIDE DEF r
      <3>3. r \in Good(before, p) /\ Extends(s, r) /\ SameHeap(s, r) /\ SameArguments(s, r)
        BY ZenonT(30), <2>1, <3>1, <3>2, AllocatedKeeps
      <3>4. r \in K
        BY <3>3, ExtendsTwice DEF PagesMade, SameHeap, SameArguments
      <3> QED BY <2>3, <3>4 DEF r, page
    <2> QED BY <2>2, <2>3
  <1>3. AllocatePages(k, p, pages) = f[len]
    BY DEF AllocatePages, UntilFailure, ForEach
  <1> HIDE DEF K, op
  <1>4. G \in [1..len -> [K -> K]]
    BY <1>2
  <1>5. \A n \in 1..len : \A s \in K : G[n][s] = op(s, pages[n])
    OBVIOUS
  <1>0. len \in Nat
    OBVIOUS
  <1> HIDE DEF G, len
  <1>6. PICK g \in [0..len -> K] : g[0] = k /\ \A n \in 1..len : g[n] = G[n][g[n - 1]]
    <2>1. Runs(K, k, len, G) # {}
      BY <1>0, <1>1, <1>4, CanBeRun
    <2> QED BY <2>1 DEF Runs
  <1>7. \A n \in 1..len : g[n] = op(g[n - 1], pages[n])
    <2> TAKE n \in 1..len
    <2>1. g[n - 1] \in K
      BY <1>0, <1>6
    <2> QED BY <2>1, <1>5, <1>6
  <1>8. g = [n \in 0..len |-> IF n = 0 THEN k ELSE op(g[n - 1], pages[n])]
    BY <1>0, <1>6, <1>7
  <1>9. f = [n \in 0..len |-> IF n = 0 THEN k ELSE op(f[n - 1], pages[n])]
    BY <1>8
  <1> HIDE DEF f
  <1>10. f[0] = k /\ \A n \in 1..len : f[n] = op(f[n - 1], pages[n])
    BY <1>0, <1>9
  <1>11. \A n \in 1..len : f[n - 1] \in K => f[n] \in K
    BY <1>2, <1>10
  <1>12. f[len] \in K
    BY <1>1, <1>10, <1>11, <1>0, KeptToTheEnd
  <1> QED BY <1>3, <1>12 DEF K

\* What comes of a call that makes pages of the heap.
HeapMade(before, p, k) ==
  {r \in Good(before, p) :
    /\ Extends(k, r) /\ SameArguments(k, r)
    /\ r.proc.heap_size >= k.proc.heap_size /\ HeapCounted(r.proc)}

Larger(k, r) == r.ok => r.proc.heap_size > k.proc.heap_size

\* A heap has not more pages than there are frames.
LEMMA HeapBounded ==
  ASSUME NEW p, NEW before, NEW k \in Good(before, p), HeapCounted(k.proc)
  PROVE  <<"heap", k.proc.heap_size>> \in PagesUsed
  <1> DEFINE h == k.proc.heap_size
             va == k.proc.va
             f == [n \in 0..(h - 1) |-> va[<<"heap", n>>]]
  <1>1. h \in Nat
    BY DEF Good, Fair, Records, Structs
  <1>2. Private(k.owner, p, va, k.proc.tables)
    BY DEF Good, Fair
  <1>3. \A n \in 0..(h - 1) : <<"heap", n>> \in DOMAIN va \ {BeyondStack}
    <2>1. \A n \in 0..(h - 1) : <<"heap", n>> \in DOMAIN va
      BY DEF HeapCounted, HeapPages
    <2>2. \A n : <<"heap", n>> # BeyondStack
      BY DEF BeyondStack
    <2> QED BY <2>1, <2>2
  <1> HIDE DEF va, h
  <1>4. f \in [0..(h - 1) -> Frames]
    BY <1>2, <1>3 DEF Private
  <1>5. \A m, n \in 0..(h - 1) : f[m] = f[n] => m = n
    <2> SUFFICES ASSUME NEW m \in 0..(h - 1), NEW n \in 0..(h - 1), m # n
                 PROVE  f[m] # f[n]
      OBVIOUS
    <2>1. <<"heap", m>> # <<"heap", n>>
      OBVIOUS
    <2>2. va[<<"heap", m>>] # va[<<"heap", n>>]
      BY <1>2, <1>3, <2>1 DEF Private
    <2> QED BY <2>2
  <1>6. f \in Injection(0..(h - 1), Frames)
    BY <1>4, <1>5 DEF Injection, IsInjective
  <1> HIDE DEF f
  <1>7. IsFiniteSet(Frames) /\ Cardinality(Frames) = FrameCount
    <2>1. FirstFrame \in Int /\ FirstFrame + FrameCount - 1 \in Int
          /\ FrameCount \in Nat \ {0} /\ FirstFrame \in Nat
      BY MemoryAssumption
    <2>2. ~(FirstFrame > FirstFrame + FrameCount - 1)
          /\ (FirstFrame + FrameCount - 1) - FirstFrame + 1 = FrameCount
      BY <2>1
    <2> QED BY <2>1, <2>2, FS_Interval DEF Frames
  <1>8. Cardinality(0..(h - 1)) <= FrameCount
    BY <1>6, <1>7, FS_Injection
  <1>9. Cardinality(0..(h - 1)) = h
    <2>1. 0 \in Int /\ h - 1 \in Int /\ (h - 1) - 0 + 1 = h /\ (0 > h - 1 => h = 0)
      BY <1>1
    <2>2. Cardinality(0..(h - 1)) = IF 0 > h - 1 THEN 0 ELSE (h - 1) - 0 + 1
      BY <2>1, FS_Interval
    <2> QED BY <2>1, <2>2
  <1>10. h \in 0..FrameCount
    BY <1>1, <1>8, <1>9, MemoryAssumption
  <1> QED BY <1>10 DEF PagesUsed, h

LEMMA HeapGrows ==
  ASSUME NEW p \in Processes, NEW before, NEW s \in Good(before, p), s.ok,
         HeapCounted(s.proc), NEW op,
         op = AndThen(DispatcherProcessAllocatePage(s, p, <<"heap", s.proc.heap_size>>),
                      LAMBDA t : [t EXCEPT !.proc.heap_size = @ + 1])
  PROVE  op \in HeapMade(before, p, s) /\ Larger(s, op)
  <1> DEFINE page == <<"heap", s.proc.heap_size>>
             t == DispatcherProcessAllocatePage(s, p, page)
  <1>1. s.proc \in Structs /\ s.proc.heap_size \in Nat
    BY DEF Good, Fair, Records, Structs
  <1>2. page \in Pages /\ page # BeyondStack /\ page \in PagesUsed
    BY <1>1, HeapBounded DEF Pages, Areas, BeyondStack
  <1>3. op = IF t.ok THEN [t EXCEPT !.proc.heap_size = @ + 1] ELSE t
    BY DEF AndThen
  <1>4. Allocated(before, p, s, t, page)
    BY <1>2, AllocateGood
  <1> HIDE DEF t, page
  <1>5. /\ t \in Good(before, p) /\ t.proc \in Structs
        /\ Extends(s, t) /\ SameArguments(s, t) /\ t.proc.heap_size = s.proc.heap_size
    <2>1. t \in Good(before, p) /\ t.proc \in Structs
      BY <1>4 DEF Allocated, Good, Fair, Records
    <2>2. Extends(s, t) /\ SameArguments(s, t)
      BY <1>1, <1>4, AllocatedKeeps
    <2>3. t.proc.heap_size = s.proc.heap_size
      <3>1. SameButPages(s, t)
        BY <1>4 DEF Allocated
      <3> QED BY <1>1, <2>1, <3>1 DEF SameButPages, Structs
    <2> QED BY <2>1, <2>2, <2>3
  <1>6. CASE ~t.ok
    <2>1. op = t /\ t.proc = s.proc
      BY <1>3, <1>4, <1>6 DEF Allocated
    <2> QED BY <1>1, <1>5, <1>6, <2>1 DEF HeapMade, Larger
  <1>7. CASE t.ok
    <2>1. op = [t EXCEPT !.proc.heap_size = @ + 1] /\ OnePageMore(s, t, page)
      BY <1>3, <1>4, <1>7 DEF Allocated
    <2> DEFINE new == [t.proc EXCEPT !.heap_size = s.proc.heap_size + 1]
    <2>2. t \in Records
      BY <1>5 DEF Good, Fair
    <2>9. new \in Structs
      <3>1. PICK h \in Nat : h = s.proc.heap_size + 1
        BY <1>1
      <3>2. [t.proc EXCEPT !.heap_size = h] \in Structs
        BY <1>5 DEF Structs
      <3> QED BY <3>1, <3>2
    <2>10. op = [t EXCEPT !.proc = new]
      BY <1>5, <2>1
    <2>3. op \in Records /\ op.owner = t.owner /\ op.proc = new /\ op.lost = t.lost
      <3> HIDE DEF new
      <3> QED BY <2>2, <2>9, <2>10 DEF Records
    <2>4. /\ op.proc.va = t.proc.va /\ op.proc.tables = t.proc.tables
          /\ op.proc.status = t.proc.status /\ op.proc.data = t.proc.data
          /\ op.proc.init_ptr = t.proc.init_ptr /\ op.proc.args = t.proc.args
          /\ op.proc.heap_size = s.proc.heap_size + 1
      BY <1>5, <2>3 DEF Structs
    <2>5. op \in Good(before, p)
      BY <1>5, <2>3, <2>4 DEF Good, Fair
    <2>6. Extends(s, op) /\ SameArguments(s, op)
      BY <1>5, <2>4 DEF Extends, SameArguments
    <2>7. HeapPages(op.proc) = HeapPages(s.proc) \cup {s.proc.heap_size}
      <3>1. DOMAIN op.proc.va = DOMAIN s.proc.va \cup {page}
        BY <2>1, <2>4 DEF OnePageMore
      <3>2. \A n \in Nat : <<"heap", n>> = page <=> n = s.proc.heap_size
        BY DEF page
      <3> QED BY <1>1, <3>1, <3>2 DEF HeapPages
    <2>8. HeapCounted(op.proc)
      <3>1. PICK h \in Nat : h = s.proc.heap_size
        BY <1>1
      <3>2. op.proc.heap_size = h + 1
        BY <2>4, <3>1
      <3>3. 0..(h - 1) \cup {h} = 0..((h + 1) - 1)
        OBVIOUS
      <3>4. op.proc.heap_size >= 1
        BY <3>2
      <3>5. HeapPages(s.proc) = 0..(h - 1) => HeapPages(op.proc) = 0..((h + 1) - 1)
        BY <2>7, <3>1, <3>3
      <3>6. (h + 1) - 1 = op.proc.heap_size - 1
        BY <3>2
      <3> QED BY <3>1, <3>4, <3>5, <3>6 DEF HeapCounted
    <2>11. op.proc.heap_size > s.proc.heap_size
      BY <1>1, <2>4
    <2> QED BY SMTT(30), <1>1, <2>4, <2>5, <2>6, <2>8, <2>11 DEF HeapMade, Larger
  <1> QED BY <1>6, <1>7

\* KernelFunctionNewPage: however far it gets, heap_size counts the pages, and when it
\* gets to the end there is one more.
LEMMA NewPageGood ==
  ASSUME NEW p \in Processes, NEW before, NEW k \in Good(before, p), HeapCounted(k.proc),
         NEW count \in Nat
  PROVE  /\ KernelFunctionNewPage(k, p, count) \in HeapMade(before, p, k)
         /\ Larger(k, KernelFunctionNewPage(k, p, count))
  <1> DEFINE K == HeapMade(before, p, k)
             len == Len(NewPages(count))
             op(s, x) == IF s.ok THEN AndThen(DispatcherProcessAllocatePage(s, p, <<"heap", s.proc.heap_size>>),
                                          LAMBDA t : [t EXCEPT !.proc.heap_size = @ + 1]) ELSE s
             f == CHOOSE g : g = [n \in 0..len |-> IF n = 0 THEN k ELSE op(g[n - 1], NewPages(count)[n])]
             G == [n \in 1..len |-> [s \in K |-> op(s, NewPages(count)[n])]]
  <1>1. k \in K
    <2>1. k.proc \in Structs
      BY DEF Good, Fair, Records
    <2> QED BY <2>1 DEF HeapMade, Extends, SameArguments, Structs
  <1>2. ASSUME NEW s \in K, NEW n \in 1..len PROVE op(s, NewPages(count)[n]) \in K
    <2>1. s \in Good(before, p) /\ HeapCounted(s.proc)
      BY DEF HeapMade
    <2>2. CASE ~s.ok
      BY <2>2
    <2>3. CASE s.ok
      <3> DEFINE r == op(s, NewPages(count)[n])
      <3>1. r \in HeapMade(before, p, s)
        BY <2>1, <2>3, HeapGrows
      <3> HIDE DEF r
      <3>2. k.proc \in Structs /\ s.proc \in Structs /\ r.proc \in Structs
        BY <2>1, <3>1 DEF HeapMade, Good, Fair, Records
      <3>3. Extends(k, r)
        BY <3>1, ExtendsTwice DEF HeapMade
      <3>4. r.proc.heap_size >= k.proc.heap_size
        BY SMTT(30), <3>1, <3>2 DEF HeapMade, Structs
      <3>5. r \in K
        BY <3>1, <3>3, <3>4 DEF HeapMade, SameArguments
      <3> QED BY <3>5 DEF r
    <2> QED BY <2>2, <2>3
  <1>13. ASSUME NEW s \in K, NEW n \in 1..len PROVE Larger(k, op(s, NewPages(count)[n]))
    <2>1. s \in Good(before, p) /\ HeapCounted(s.proc)
      BY DEF HeapMade
    <2>2. CASE ~s.ok
      BY <2>2 DEF Larger
    <2>3. CASE s.ok
      <3> DEFINE r == op(s, NewPages(count)[n])
      <3>1. r \in HeapMade(before, p, s) /\ Larger(s, r)
        BY <2>1, <2>3, HeapGrows
      <3> HIDE DEF r
      <3>2. k.proc \in Structs /\ s.proc \in Structs /\ r.proc \in Structs
        BY <2>1, <3>1 DEF HeapMade, Good, Fair, Records
      <3>3. Larger(k, r)
        BY SMTT(30), <3>1, <3>2 DEF HeapMade, Larger, Structs
      <3> QED BY <3>3 DEF r
    <2> QED BY <2>2, <2>3
  <1>3. KernelFunctionNewPage(k, p, count) = f[len]
    BY DEF KernelFunctionNewPage, UntilFailure, ForEach, AndThen
  <1> HIDE DEF K, op
  <1>4. G \in [1..len -> [K -> K]]
    BY <1>2
  <1>5. \A n \in 1..len : \A s \in K : G[n][s] = op(s, NewPages(count)[n])
    OBVIOUS
  <1>0. len \in Nat /\ len >= 1
    <2>1. count \div PageSize + 1 \in Nat /\ count \div PageSize + 1 >= 1
      <3>1. PageSize \in Nat \ {0}
        BY MemoryAssumption
      <3>2. count \div PageSize \in Nat
        BY <3>1
      <3> QED BY <3>2
    <2> QED BY <2>1 DEF NewPages, len
  <1> HIDE DEF G, len
  <1>6. PICK g \in [0..len -> K] : g[0] = k /\ \A n \in 1..len : g[n] = G[n][g[n - 1]]
    <2>1. Runs(K, k, len, G) # {}
      BY <1>0, <1>1, <1>4, CanBeRun
    <2> QED BY <2>1 DEF Runs
  <1>7. \A n \in 1..len : g[n] = op(g[n - 1], NewPages(count)[n])
    <2> TAKE n \in 1..len
    <2>1. g[n - 1] \in K
      BY <1>0, <1>6
    <2> QED BY <2>1, <1>5, <1>6
  <1>8. g = [n \in 0..len |-> IF n = 0 THEN k ELSE op(g[n - 1], NewPages(count)[n])]
    BY <1>0, <1>6, <1>7
  <1>9. f = [n \in 0..len |-> IF n = 0 THEN k ELSE op(f[n - 1], NewPages(count)[n])]
    BY <1>8
  <1> HIDE DEF f
  <1>10. f[0] = k /\ \A n \in 1..len : f[n] = op(f[n - 1], NewPages(count)[n])
    BY <1>0, <1>9
  <1>11. \A n \in 1..len : f[n - 1] \in K => f[n] \in K
    BY <1>2, <1>10
  <1>12. f[len] \in K
    BY <1>0, <1>1, <1>10, <1>11, KeptToTheEnd
  <1>14. f[len - 1] \in K
    <2>1. len - 1 \in Nat /\ \A n \in 1..(len - 1) : f[n - 1] \in K => f[n] \in K
      BY <1>0, <1>11
    <2> QED BY <1>1, <1>10, <2>1, KeptToTheEnd
  <1>15. Larger(k, f[len])
    BY <1>0, <1>10, <1>13, <1>14
  <1> QED BY <1>3, <1>12, <1>15 DEF K
-----------------------------------------------------------------------------
(* A process that is loaded.                                               *)

LEMMA MadeTwice ==
  ASSUME NEW p, NEW before, NEW k, NEW s \in PagesMade(before, p, k),
         NEW r \in PagesMade(before, p, s)
  PROVE  r \in PagesMade(before, p, k)
  BY ExtendsTwice DEF PagesMade, SameHeap, SameArguments

LEMMA NothingMade ==
  ASSUME NEW p, NEW before, NEW k \in Good(before, p), NEW r \in Good(before, p),
         r.proc = k.proc
  PROVE  r \in PagesMade(before, p, k)
  BY DEF PagesMade, Extends, SameHeap, SameArguments

Segments == [va : Nat, file : Nat, memory : Nat]

LEMMA LoadAtGood ==
  ASSUME NEW p \in Processes, NEW before, NEW k \in Good(before, p),
         NEW segment \in Segments,
         \E call \in Calls : segment \in Range(call.segments)
  PROVE  DispatcherProcessLoadAt(k, p, segment) \in PagesMade(before, p, k)
  <1> DEFINE first == segment.va \div PageSize
             last == (segment.va + segment.memory) \div PageSize
             pages == SegmentPages(segment)
  <1>1. PageSize \in Nat \ {0} /\ segment.va \in Nat /\ segment.memory \in Nat
    BY MemoryAssumption DEF Segments
  <1>2. first \in Nat /\ last \in Nat
    BY <1>1
  <1>3. pages = [i \in 1..(last - first + 1) |-> <<"program", first + i - 1>>]
    BY DEF SegmentPages
  <1> HIDE DEF first, last, pages
  <1>4. Len(pages) \in Nat /\ DOMAIN pages = 1..Len(pages)
    <2>1. CASE last - first + 1 \in Nat
      BY <1>3, <2>1
    <2>2. CASE last - first + 1 \notin Nat
      <3>1. 1..(last - first + 1) = {} /\ 1..0 = {}
        BY <1>2, <2>2
      <3>2. pages = [i \in 1..0 |-> <<"program", first + i - 1>>]
        BY <1>3, <3>1
      <3> QED BY <3>2
    <2> QED BY <2>1, <2>2
  <1>5. \A i \in 1..Len(pages) :
          pages[i] \in Pages \cap PagesUsed /\ pages[i][1] \notin {"heap", "stack"}
    <2> TAKE i \in 1..Len(pages)
    <2>1. i \in 1..(last - first + 1)
      BY <1>3, <1>4
    <2>2. pages[i] = <<"program", first + i - 1>>
      BY <1>3, <2>1
    <2>3. first + i - 1 \in Nat
      BY <1>2, <2>1
    <2>4. pages[i] \in PagesUsed
      <3>1. SegmentPages(segment)[i] \in Range(SegmentPages(segment))
        BY <1>4 DEF Range, pages
      <3>2. segment \in UNION {Range(call.segments) : call \in Calls}
        OBVIOUS
      <3> QED BY <3>1, <3>2 DEF PagesUsed, pages
    <2>5. pages[i] \in Pages
      BY <2>2, <2>3 DEF Pages, Areas
    <2> QED BY <2>2, <2>4, <2>5
  <1>6. AllocatePages(k, p, pages) \in PagesMade(before, p, k)
    BY <1>4, <1>5, AllocatePagesGood
  <1>7. [k EXCEPT !.ok = FALSE] \in PagesMade(before, p, k)
    BY FailGood, NothingMade
  <1>8. DispatcherProcessLoadAt(k, p, segment) \in
          {AllocatePages(k, p, pages), [k EXCEPT !.ok = FALSE]}
    BY DEF DispatcherProcessLoadAt, pages
  <1> QED BY <1>6, <1>7, <1>8

LEMMA ElfGood ==
  ASSUME NEW p \in Processes, NEW before, NEW k \in Good(before, p), NEW call \in Calls,
         NEW segments \in Seq(Segments), segments = call.segments
  PROVE  DispatcherFormatElfSetUp(k, p, segments) \in PagesMade(before, p, k)
  <1> DEFINE K == PagesMade(before, p, k)
             len == Len(segments)
             op(s, x) == IF s.ok THEN DispatcherProcessLoadAt(s, p, x) ELSE s
             f == CHOOSE g : g = [n \in 0..len |-> IF n = 0 THEN k ELSE op(g[n - 1], segments[n])]
             G == [n \in 1..len |-> [s \in K |-> op(s, segments[n])]]
  <1>1. k \in K
    BY NothingMade
  <1>2. ASSUME NEW s \in K, NEW n \in 1..len PROVE op(s, segments[n]) \in K
    <2>1. /\ s \in Good(before, p) /\ segments[n] \in Segments
          /\ segments[n] \in Range(call.segments)
      BY DEF PagesMade, Range
    <2>2. DispatcherProcessLoadAt(s, p, segments[n]) \in PagesMade(before, p, s)
      BY <2>1, LoadAtGood
    <2>3. DispatcherProcessLoadAt(s, p, segments[n]) \in K
      BY <2>2, MadeTwice
    <2> QED BY <2>3
  <1>3. DispatcherFormatElfSetUp(k, p, segments) = f[len]
    BY DEF DispatcherFormatElfSetUp, UntilFailure, ForEach
  <1> HIDE DEF K, op
  <1>4. G \in [1..len -> [K -> K]]
    BY <1>2
  <1>5. \A n \in 1..len : \A s \in K : G[n][s] = op(s, segments[n])
    OBVIOUS
  <1>0. len \in Nat
    OBVIOUS
  <1> HIDE DEF G, len
  <1>6. PICK g \in [0..len -> K] : g[0] = k /\ \A n \in 1..len : g[n] = G[n][g[n - 1]]
    <2>1. Runs(K, k, len, G) # {}
      BY <1>0, <1>1, <1>4, CanBeRun
    <2> QED BY <2>1 DEF Runs
  <1>7. \A n \in 1..len : g[n] = op(g[n - 1], segments[n])
    <2> TAKE n \in 1..len
    <2>1. g[n - 1] \in K
      BY <1>0, <1>6
    <2> QED BY <2>1, <1>5, <1>6
  <1>8. g = [n \in 0..len |-> IF n = 0 THEN k ELSE op(g[n - 1], segments[n])]
    BY <1>0, <1>6, <1>7
  <1>9. f = [n \in 0..len |-> IF n = 0 THEN k ELSE op(f[n - 1], segments[n])]
    BY <1>8
  <1> HIDE DEF f
  <1>10. f[0] = k /\ \A n \in 1..len : f[n] = op(f[n - 1], segments[n])
    BY <1>0, <1>9
  <1>11. \A n \in 1..len : f[n - 1] \in K => f[n] \in K
    BY <1>2, <1>10
  <1>12. f[len] \in K
    BY <1>0, <1>1, <1>10, <1>11, KeptToTheEnd
  <1> QED BY <1>3, <1>12 DEF K

LEMMA OnePageMade ==
  ASSUME NEW p, NEW before, NEW k, k.proc \in Structs, NEW s, s.proc = k.proc,
         NEW r \in Good(before, p), NEW page, page[1] # "heap",
         OnePageMore(s, r, page), SameButPages(s, r)
  PROVE  r \in PagesMade(before, p, k)
  <1>1. r.proc \in Structs
    BY DEF Good, Fair, Records
  <1>2. /\ r.proc.status = k.proc.status /\ r.proc.data = k.proc.data
        /\ r.proc.heap_size = k.proc.heap_size /\ SameArguments(k, r)
    BY <1>1 DEF SameButPages, SameArguments, Structs
  <1>3. Extends(k, r)
    BY <1>2 DEF Extends, OnePageMore
  <1>4. HeapPages(r.proc) = HeapPages(k.proc)
    BY DEF HeapPages, OnePageMore
  <1> QED BY <1>2, <1>3, <1>4 DEF PagesMade, SameHeap

\* DispatcherProcessSetUpStack: the page beyond the stack is mapped to a frame that may
\* be anyone's.
LEMMA StackGood ==
  ASSUME NEW p \in Processes, NEW before, NEW k \in Good(before, p)
  PROVE  DispatcherProcessSetUpStack(k, p) \in PagesMade(before, p, k)
  <1> DEFINE frame == Min(FreeFrames(k.owner))
             taken == [k EXCEPT !.owner[frame] = p]
             page == <<"stack", 0>>
             first == DispatcherProcessMap(taken, p, page, frame)
             second == DispatcherProcessMap(first, p, BeyondStack, frame + 1)
  <1>1. CASE FreeFrames(k.owner) = {}
    <2>1. DispatcherProcessSetUpStack(k, p) = [k EXCEPT !.ok = FALSE]
      BY <1>1 DEF DispatcherProcessSetUpStack
    <2> QED BY <2>1, FailGood, NothingMade
  <1>2. CASE FreeFrames(k.owner) # {}
    <2>1. DispatcherProcessSetUpStack(k, p) = second
      BY <1>2 DEF DispatcherProcessSetUpStack, BeyondStack
    <2>2. frame \in Frames /\ k.owner[frame] = "free"
      BY <1>2, LeastFree
    <2>3. /\ page \in Pages /\ BeyondStack \in Pages /\ page # BeyondStack
          /\ page \in PagesUsed /\ BeyondStack \in PagesUsed
      BY DEF Pages, Areas, BeyondStack, PagesUsed
    <2>4. frame \in Places /\ frame + 1 \in Places
      BY <2>2, MemoryAssumption DEF Places, Frames
    <2>5. taken = [k EXCEPT !.owner[frame] = p]
      OBVIOUS
    <2> HIDE DEF frame, taken, page
    <2>6. k \in Records /\ k.proc \in Structs
      BY DEF Good, Fair, Records
    <2>7. /\ taken \in Good(before, p) /\ taken.proc = k.proc
          /\ taken.owner = [k.owner EXCEPT ![frame] = p]
      <3>1. taken \in Good(before, p)
        BY <2>2, <2>5, TakeFrameGood
      <3>2. taken.proc = k.proc
        BY <2>2, <2>5, TakeFrameGood
      <3>3. taken.owner = [k.owner EXCEPT ![frame] = p]
        BY <2>2, <2>5, TakeFrameGood
      <3> QED BY <3>1, <3>2, <3>3
    <2>8. first \in PagesMade(before, p, k)
      <3>1. CASE page \in DOMAIN k.proc.va
        <4>1. first = [taken EXCEPT !.ok = FALSE]
          BY <2>7, <3>1, MapRefused
        <4> HIDE DEF first
        <4>2. first \in Good(before, p) /\ first.proc = k.proc
          BY <2>7, <4>1, FailGood
        <4> QED BY <4>2, NothingMade
      <3>2. CASE page \notin DOMAIN k.proc.va
        <4>1. Private(taken.owner, p, WithEntry(taken.proc.va, page, frame), taken.proc.tables)
          BY <2>2, <2>3, <2>6, <2>7, <3>2, PrivatePage DEF Good, Fair, Records, Structs
        <4>2. /\ first \in Good(before, p)
              /\ OnePageMore(taken, first, page) /\ SameButPages(taken, first)
          BY <2>3, <2>4, <2>7, <3>2, <4>1, MapGood
        <4> HIDE DEF first
        <4>3. page[1] # "heap"
          BY DEF page
        <4> QED BY <2>6, <2>7, <4>2, <4>3, OnePageMade
      <3> QED BY <3>1, <3>2
    <2> HIDE DEF first
    <2>9. first \in Good(before, p)
      BY <2>8 DEF PagesMade
    <2>10. second \in PagesMade(before, p, first)
      <3>1. CASE BeyondStack \in DOMAIN first.proc.va
        <4>1. second = [first EXCEPT !.ok = FALSE]
          BY <3>1 DEF DispatcherProcessMap
        <4> HIDE DEF second
        <4>2. second \in Good(before, p) /\ second.proc = first.proc
          BY <2>9, <4>1, FailGood
        <4> QED BY <2>9, <4>2, NothingMade
      <3>2. CASE BeyondStack \notin DOMAIN first.proc.va
        <4>1. Private(first.owner, p, WithEntry(first.proc.va, BeyondStack, frame + 1),
                      first.proc.tables)
          BY <2>9, <3>2, PrivateBeyond DEF Good, Fair
        <4>2. /\ second \in Good(before, p)
              /\ OnePageMore(first, second, BeyondStack) /\ SameButPages(first, second)
          BY <2>3, <2>4, <2>9, <3>2, <4>1, MapGood
        <4> HIDE DEF second
        <4>3. BeyondStack[1] # "heap" /\ first.proc \in Structs
          BY <2>9 DEF BeyondStack, Good, Fair, Records
        <4> QED BY <2>9, <4>2, <4>3, OnePageMade
      <3> QED BY <3>1, <3>2
    <2> HIDE DEF second
    <2>11. second \in PagesMade(before, p, k)
      BY <2>8, <2>10, MadeTwice
    <2> QED BY <2>1, <2>11
  <1> QED BY <1>1, <1>2

-----------------------------------------------------------------------------
(* Initialisation data.                                                    *)

InitPage   == <<"init", 0>>
SecondPage == <<"init", 1>>

\* Every argument that begins in the first page is copied to the frame home, and begins
\* where the ones before it have ended; all end before ptr.
Held(args, ptr, home) ==
  \A i \in 1..Len(args) :
    /\ args[i].at + args[i].size <= ptr
    /\ args[i].at < PageSize => args[i].frame = home
    /\ \A j \in 1..(i - 1) : args[j].at + args[j].size <= args[i].at

InFirstPage(arg) == arg.at + arg.size <= PageSize

\* The arguments end in the first page, but the last one may not; then the process has the
\* second page, and every further argument would ask for it once more.
LastMaySpill(args, ptr, second) ==
  /\ \A i \in 1..Len(args) : i < Len(args) => InFirstPage(args[i])
  /\ \/ \A i \in 1..Len(args) : InFirstPage(args[i])
     \/ second /\ ptr > PageSize

ArgumentsHeld(proc) ==
  /\ InitPage \in DOMAIN proc.va
  /\ Held(proc.args, proc.init_ptr, proc.va[InitPage])
  /\ LastMaySpill(proc.args, proc.init_ptr, SecondPage \in DOMAIN proc.va)

ArgumentsMade(before, p, k) ==
  {r \in Good(before, p) : /\ Extends(k, r) /\ SameHeap(k, r)
                           /\ ArgumentsHeld(k.proc) => ArgumentsHeld(r.proc)}

LEMMA OneMoreHeld ==
  ASSUME NEW args \in Seq(Arguments), NEW ptr \in Nat, NEW home, Held(args, ptr, home),
         NEW arg \in Arguments, arg.at = ptr, NEW next \in Nat, next >= ptr + arg.size,
         ptr < PageSize => arg.frame = home
  PROVE  Held(Append(args, arg), next, home)
  <1> DEFINE new == Append(args, arg)
  <1>1. /\ Len(new) = Len(args) + 1 /\ new[Len(args) + 1] = arg
        /\ \A i \in 1..Len(args) : new[i] = args[i]
        /\ Len(args) \in Nat /\ arg.size \in Nat
    BY DEF Arguments
  <1> HIDE DEF new
  <1>2. \A i \in 1..Len(args) : args[i].at \in Nat /\ args[i].size \in Nat
    <2> TAKE i \in 1..Len(args)
    <2>1. args[i] \in Arguments
      OBVIOUS
    <2> QED BY <2>1 DEF Arguments
  <1>3. ASSUME NEW i \in 1..Len(new)
        PROVE  /\ new[i].at + new[i].size <= next
               /\ new[i].at < PageSize => new[i].frame = home
               /\ \A j \in 1..(i - 1) : new[j].at + new[j].size <= new[i].at
    <2>1. CASE i \in 1..Len(args)
      <3>1. new[i] = args[i] /\ \A j \in 1..(i - 1) : new[j] = args[j]
        BY <1>1, <2>1
      <3>2. /\ args[i].at + args[i].size <= ptr
            /\ args[i].at < PageSize => args[i].frame = home
            /\ \A j \in 1..(i - 1) : args[j].at + args[j].size <= args[i].at
        BY <2>1 DEF Held
      <3>3. args[i].at + args[i].size <= next
        <4>1. PICK e \in Nat : e = args[i].at + args[i].size
          BY <1>2, <2>1
        <4>2. e <= next
          BY <1>1, <3>2, <4>1
        <4> QED BY <4>1, <4>2
      <3> QED BY <3>1, <3>2, <3>3
    <2>2. CASE i = Len(args) + 1
      <3>1. new[i] = arg /\ \A j \in 1..(i - 1) : j \in 1..Len(args) /\ new[j] = args[j]
        BY <1>1, <2>2
      <3> QED BY <1>1, <3>1 DEF Held
    <2> QED BY <1>1, <2>1, <2>2
  <1>4. Held(new, next, home)
    BY <1>3 DEF Held
  <1> QED BY <1>4 DEF new

\* One more argument: it ends in the first page, or the process has got the second one.
LEMMA OneMoreSpills ==
  ASSUME NEW args \in Seq(Arguments), NEW ptr \in Nat, NEW arg \in Arguments,
         arg.at = ptr, NEW next \in Nat, next >= ptr + arg.size,
         \A i \in 1..Len(args) : InFirstPage(args[i]),
         NEW pages, ptr + arg.size > PageSize => SecondPage \in pages
  PROVE  LastMaySpill(Append(args, arg), next, SecondPage \in pages)
  <1> DEFINE new == Append(args, arg)
  <1>1. /\ Len(new) = Len(args) + 1 /\ new[Len(args) + 1] = arg
        /\ \A i \in 1..Len(args) : new[i] = args[i]
        /\ Len(args) \in Nat /\ arg.size \in Nat /\ PageSize \in Nat
    BY MemoryAssumption DEF Arguments
  <1> HIDE DEF new
  <1>2. \A i \in 1..Len(new) : i < Len(new) => InFirstPage(new[i])
    BY <1>1
  <1>3. CASE ptr + arg.size <= PageSize
    <2>1. InFirstPage(arg)
      BY <1>3 DEF InFirstPage
    <2>2. \A i \in 1..Len(new) : InFirstPage(new[i])
      BY <1>1, <2>1
    <2> QED BY <1>2, <2>2 DEF LastMaySpill, new
  <1>4. CASE ptr + arg.size > PageSize
    <2>1. SecondPage \in pages /\ next > PageSize
      BY <1>1, <1>4
    <2> QED BY <1>2, <2>1 DEF LastMaySpill, new
  <1> QED BY <1>1, <1>3, <1>4

\* A page that the process has is not given once more.
LEMMA PageTwiceRefused ==
  ASSUME NEW p \in Processes, NEW k \in Records, NEW page \in DOMAIN k.proc.va
  PROVE  ~DispatcherProcessAllocatePage(k, p, page).ok
  BY DEF DispatcherProcessAllocatePage, DispatcherProcessMap, Records, Structs

LEMMA AdvanceIs ==
  ASSUME NEW at \in Nat, NEW size \in Nat
  PROVE  /\ Advance(at, size) \in Nat /\ Advance(at, size) >= at + size
         /\ at = 0 /\ size = 0 => Advance(at, size) = 0
  <1>1. Alignment \in Nat \ {0}
    BY MemoryAssumption
  <1>2. size % Alignment \in Nat
    BY <1>1
  <1>3. 0 % Alignment = 0
    BY <1>1
  <1> QED BY <1>2, <1>3 DEF Advance

LEMMA FirstPage ==
  ASSUME NEW proc \in Structs, proc.init_ptr < PageSize, InitPage \in DOMAIN proc.va
  PROVE  GetPa(proc, proc.init_ptr) = proc.va[InitPage]
  <1>1. PageSize \in Nat \ {0} /\ proc.init_ptr \in Nat
    BY MemoryAssumption DEF Structs
  <1>2. proc.init_ptr \div PageSize = 0
    BY <1>1
  <1> QED BY <1>2 DEF GetPa, InitPage

LEMMA GetPaIn ==
  ASSUME NEW proc \in Structs, NEW at PROVE GetPa(proc, at) \in {NULL} \cup Places
  <1>1. proc.va \in [DOMAIN proc.va -> Places]
    BY PartialIs DEF Structs
  <1> QED BY <1>1 DEF GetPa

\* DispatcherProcessAddInitData: the data are put behind the ones before, whether a second
\* page is needed and can be had or not.
LEMMA AddInitDataGood ==
  ASSUME NEW p \in Processes, NEW before, NEW k \in Good(before, p), k.ok,
         NEW size \in Nat, size > 0 \/ k.proc.init_ptr = 0
  PROVE  /\ DispatcherProcessAddInitData(k, p, size) \in ArgumentsMade(before, p, k)
         /\ size = 0 /\ k.proc.init_ptr = 0 =>
              DispatcherProcessAddInitData(k, p, size).proc.init_ptr = 0
  <1> DEFINE at == k.proc.init_ptr
             room == IF at + size <= PageSize THEN k
                     ELSE DispatcherProcessAllocatePage(k, p, SecondPage)
             arg == [at |-> at, size |-> size, frame |-> GetPa(k.proc, at)]
             r == DispatcherProcessAddInitData(k, p, size)
  <1>1. k \in Records /\ k.proc \in Structs /\ at \in Nat /\ k.proc.args \in Seq(Arguments)
    BY DEF Good, Fair, Records, Structs
  <1>2. /\ room \in Good(before, p) /\ room \in PagesMade(before, p, k)
        /\ at + size > PageSize /\ room.ok =>
             SecondPage \notin DOMAIN k.proc.va /\ SecondPage \in DOMAIN room.proc.va
    <2>0. PageSize \in Nat
      BY MemoryAssumption
    <2>1. CASE at + size <= PageSize
      BY <1>1, <2>0, <2>1, NothingMade
    <2>2. CASE ~(at + size <= PageSize)
      <3>1. /\ SecondPage \in Pages \cap PagesUsed /\ SecondPage # BeyondStack
            /\ SecondPage[1] # "heap"
        BY DEF Pages, Areas, BeyondStack, PagesUsed, SecondPage
      <3>2. Allocated(before, p, k, room, SecondPage)
        BY <2>2, <3>1, AllocateGood
      <3>3. SecondPage \in DOMAIN k.proc.va => ~room.ok
        BY <1>1, <2>2, PageTwiceRefused
      <3> HIDE DEF room
      <3>4. room \in Good(before, p) /\ (room.ok => SecondPage \in DOMAIN room.proc.va)
        BY <3>2 DEF Allocated, OnePageMore
      <3>5. Extends(k, room) /\ SameArguments(k, room) /\ SameHeap(k, room)
        BY <1>1, <3>1, <3>2, AllocatedKeeps
      <3> QED BY <3>3, <3>4, <3>5 DEF PagesMade
    <2> QED BY <2>1, <2>2
  <1>3. r = IF room.ok
            THEN [room EXCEPT !.proc.init_ptr = Advance(at, size),
                              !.proc.args = Append(@, arg)]
            ELSE room
    BY DEF DispatcherProcessAddInitData, AndThen, SecondPage
  <1>4. arg \in Arguments /\ arg.at = at /\ arg.size = size /\ arg.frame = GetPa(k.proc, at)
    BY <1>1, GetPaIn DEF Arguments
  <1> HIDE DEF room, arg, r
  <1>5. /\ Extends(k, room) /\ SameHeap(k, room)
        /\ room.proc.init_ptr = at /\ room.proc.args = k.proc.args
        /\ room \in Records /\ room.proc \in Structs
    BY <1>2 DEF PagesMade, SameArguments, Good, Fair, Records
  <1>6. CASE ~room.ok
    <2>1. r = room
      BY <1>3, <1>6
    <2>2. ArgumentsHeld(k.proc) => ArgumentsHeld(room.proc)
      BY <1>5 DEF ArgumentsHeld, LastMaySpill, Extends
    <2> QED BY <1>2, <1>5, <2>1, <2>2 DEF ArgumentsMade, r
  <1>7. CASE room.ok
    <2> DEFINE args == Append(k.proc.args, arg)
               next == Advance(at, size)
               proc == [room.proc EXCEPT !.init_ptr = next, !.args = args]
    <2>1. r = [room EXCEPT !.proc = proc]
      BY <1>3, <1>5, <1>7
    <2>2. args \in Seq(Arguments)
      BY <1>1, <1>4
    <2>3. next \in Nat /\ next >= at + size
      BY <1>1, AdvanceIs
    <2>4. at = 0 /\ size = 0 => next = 0
      BY <1>1, AdvanceIs
    <2> HIDE DEF next, args
    <2>5. proc \in Structs
      BY <1>5, <2>2, <2>3 DEF Structs
    <2>6. /\ proc.va = room.proc.va /\ proc.tables = room.proc.tables
          /\ proc.status = room.proc.status /\ proc.data = room.proc.data
          /\ proc.heap_size = room.proc.heap_size
          /\ proc.init_ptr = next /\ proc.args = args
      BY <1>5 DEF Structs
    <2> HIDE DEF proc
    <2>7. r \in Records /\ r.owner = room.owner /\ r.proc = proc /\ r.lost = room.lost
      BY <1>5, <2>1, <2>5 DEF Records
    <2>8. r \in Good(before, p)
      BY <1>2, <2>6, <2>7 DEF Good, Fair
    <2>9. Extends(k, r)
      BY <1>5, <2>6, <2>7 DEF Extends
    <2>10. SameHeap(k, r)
      BY <1>5, <2>6, <2>7 DEF SameHeap, HeapPages
    <2>11. ASSUME ArgumentsHeld(k.proc) PROVE ArgumentsHeld(r.proc)
      <3> DEFINE home == k.proc.va[InitPage]
      <3>1. /\ InitPage \in DOMAIN k.proc.va /\ Held(k.proc.args, at, home)
            /\ LastMaySpill(k.proc.args, at, SecondPage \in DOMAIN k.proc.va)
        BY <2>11 DEF ArgumentsHeld
      <3>2. InitPage \in DOMAIN r.proc.va /\ r.proc.va[InitPage] = home
        BY <2>9, <3>1 DEF Extends
      <3>3. at < PageSize => arg.frame = home
        BY <1>1, <1>4, <3>1, FirstPage
      <3>4. PageSize \in Nat
        BY MemoryAssumption
      <3>5. \A i \in 1..Len(k.proc.args) : InFirstPage(k.proc.args[i])
        BY <1>1, <1>2, <1>7, <3>1, <3>4 DEF LastMaySpill
      <3>6. at + size > PageSize => SecondPage \in DOMAIN r.proc.va
        BY <1>2, <1>7, <2>6, <2>7
      <3> HIDE DEF home, at
      <3>7. Held(args, next, home)
        BY <1>1, <1>4, <2>3, <3>1, <3>3, OneMoreHeld DEF args
      <3>8. LastMaySpill(args, next, SecondPage \in DOMAIN r.proc.va)
        BY <1>1, <1>4, <2>3, <3>5, <3>6, OneMoreSpills DEF args
      <3> QED BY <2>6, <2>7, <3>2, <3>7, <3>8 DEF ArgumentsHeld
    <2>12. size = 0 /\ at = 0 => r.proc.init_ptr = 0
      BY <2>4, <2>6, <2>7
    <2> QED BY <2>8, <2>9, <2>10, <2>11, <2>12 DEF ArgumentsMade, r
  <1> QED BY <1>6, <1>7

LEMMA AddArgumentsGood ==
  ASSUME NEW p \in Processes, NEW before, NEW k \in Good(before, p),
         k.proc.init_ptr = 0, NEW sizes \in Seq(Nat \ {0})
  PROVE  AddArguments(k, p, sizes) \in ArgumentsMade(before, p, k)
  <1> DEFINE all == Append(sizes, Len(sizes) * Alignment)
  <1>a. Alignment \in Nat \ {0} /\ Len(sizes) \in Nat
    BY MemoryAssumption
  <1>b. Len(sizes) * Alignment \in Nat /\ (Len(sizes) # 0 => Len(sizes) * Alignment > 0)
    BY <1>a
  <1>c. Len(all) \in Nat /\ \A n \in 1..Len(all) : all[n] \in Nat /\ (Len(sizes) # 0 => all[n] > 0)
    BY <1>a, <1>b
  <1>d. Len(sizes) = 0 => Len(all) = 1 /\ all[1] = 0
    BY <1>a, <1>b
  <1> HIDE DEF all
  <1> DEFINE K == {r \in ArgumentsMade(before, p, k) : Len(sizes) = 0 => r.proc.init_ptr = 0}
             len == Len(all)
             op(s, x) == IF s.ok THEN DispatcherProcessAddInitData(s, p, x) ELSE s
             f == CHOOSE g : g = [n \in 0..len |-> IF n = 0 THEN k ELSE op(g[n - 1], all[n])]
             G == [n \in 1..len |-> [s \in K |-> op(s, all[n])]]
  <1>1. k \in K
    BY DEF ArgumentsMade, Extends, SameHeap
  <1>2. ASSUME NEW s \in K, NEW n \in 1..len PROVE op(s, all[n]) \in K
    <2>1. s \in Good(before, p) /\ s \in ArgumentsMade(before, p, k)
      BY DEF ArgumentsMade
    <2>2. CASE ~s.ok
      BY <2>2
    <2>3. CASE s.ok
      <3> DEFINE size == all[n]
                 r == DispatcherProcessAddInitData(s, p, size)
      <3>1. size \in Nat /\ (Len(sizes) # 0 => size > 0) /\ (Len(sizes) = 0 => size = 0)
        BY <1>c, <1>d
      <3>2. size > 0 \/ s.proc.init_ptr = 0
        BY <3>1
      <3> HIDE DEF size
      <3>3. /\ r \in ArgumentsMade(before, p, s)
            /\ size = 0 /\ s.proc.init_ptr = 0 => r.proc.init_ptr = 0
        BY <2>1, <2>3, <3>1, <3>2, AddInitDataGood
      <3> HIDE DEF r
      <3>4. r \in ArgumentsMade(before, p, k)
        BY <2>1, <3>3, ExtendsTwice DEF ArgumentsMade, SameHeap
      <3>5. Len(sizes) = 0 => r.proc.init_ptr = 0
        BY <3>1, <3>3
      <3> QED BY <2>3, <3>4, <3>5 DEF r, size
    <2> QED BY <2>2, <2>3
  <1>3. AddArguments(k, p, sizes) = f[len]
    BY DEF AddArguments, UntilFailure, ForEach, all
  <1> HIDE DEF K, op
  <1>4. G \in [1..len -> [K -> K]]
    BY <1>2
  <1>5. \A n \in 1..len : \A s \in K : G[n][s] = op(s, all[n])
    OBVIOUS
  <1>0. len \in Nat
    BY <1>c
  <1> HIDE DEF G, len
  <1>6. PICK g \in [0..len -> K] : g[0] = k /\ \A n \in 1..len : g[n] = G[n][g[n - 1]]
    <2>1. Runs(K, k, len, G) # {}
      BY <1>0, <1>1, <1>4, CanBeRun
    <2> QED BY <2>1 DEF Runs
  <1>7. \A n \in 1..len : g[n] = op(g[n - 1], all[n])
    <2> TAKE n \in 1..len
    <2>1. g[n - 1] \in K
      BY <1>0, <1>6
    <2> QED BY <2>1, <1>5, <1>6
  <1>8. g = [n \in 0..len |-> IF n = 0 THEN k ELSE op(g[n - 1], all[n])]
    BY <1>0, <1>6, <1>7
  <1>9. f = [n \in 0..len |-> IF n = 0 THEN k ELSE op(f[n - 1], all[n])]
    BY <1>8
  <1> HIDE DEF f
  <1>10. f[0] = k /\ \A n \in 1..len : f[n] = op(f[n - 1], all[n])
    BY <1>0, <1>9
  <1>11. \A n \in 1..len : f[n - 1] \in K => f[n] \in K
    BY <1>2, <1>10
  <1>12. f[len] \in K
    BY <1>0, <1>1, <1>10, <1>11, KeptToTheEnd
  <1> QED BY <1>3, <1>12 DEF K
-----------------------------------------------------------------------------
(* A new process.                                                          *)

LEMMA EmptyIsPartial == ASSUME NEW S, NEW T PROVE <<>> \in Partial(S, T)
  <1>1. <<>> \in Seq(T) /\ Len(<<>>) = 0
    OBVIOUS
  <1>2. DOMAIN <<>> = {} /\ <<>> \in [{} -> T]
    BY <1>1
  <1> QED BY <1>2, PartialIs

LEMMA NoProcessIs == NoProcess \in Structs
  <1>1. /\ <<>> \in Partial(Pages, Places) /\ <<>> \in Partial(Names, Entries)
        /\ <<>> \in Seq(Arguments)
    BY EmptyIsPartial
  <1> QED BY <1>1 DEF NoProcess, Structs, Statuses, NULL

\* MemoryPagingNewPD: none of the kernel's pages is refused, and all are entered.
LEMMA NewPDGood ==
  ASSUME NEW p \in Processes, NEW o, NEW k \in Fair(o, p),
         k.proc.va = <<>>, k.proc.tables = <<>>
  PROVE  /\ MemoryPagingNewPD(k, p) \in Good(Before(o, KernelPages), p)
         /\ SameButTables(k, MemoryPagingNewPD(k, p))
  <1> DEFINE first == MakeTable(k, p, 0, 0)
             all == [i \in 1..(FirstFrame - 1) |-> i]
  <1>a. FirstFrame - 1 \in Nat
    BY MemoryAssumption
  <1>b. Len(all) = FirstFrame - 1 /\ \A n \in 1..Len(all) : all[n] = n /\ all[n] \in Nat
    BY <1>a
  <1>c. \A s \in Fair(o, p) : s.proc \in Structs
    BY DEF Fair, Records
  <1>d. first \in Fair(o, p) /\ SameButTables(k, first)
    BY MakeTableFair
  <1>e. \A va : KernelFlags(va) \in SUBSET Flags
    BY DEF Flags, KernelFlags
  <1>g. ~first.lost => Agrees(<<>>, first.proc.tables, {})
    <2>1. k \in Records /\ k.proc \in Structs
      BY DEF Fair, Records
    <2>2. CASE FreeFrames(k.owner) = {}
      <3>1. first = [k EXCEPT !.lost = TRUE]
        BY <2>2 DEF MakeTable
      <3> QED BY <2>1, <3>1 DEF Records
    <2>3. CASE FreeFrames(k.owner) # {}
      <3> DEFINE frame == Min(FreeFrames(k.owner))
                 new == WithEntry(<<>>, At(0, 0), Entry(frame, Flags, FALSE))
      <3>1. first = [k EXCEPT !.owner[frame] = p, !.proc.tables = new]
        BY <2>3 DEF MakeTable, WithTable, Flags
      <3>2. Agrees(<<>>, new, {})
        BY AgreesRoot
      <3> HIDE DEF new, frame
      <3>3. first.proc.tables = new
        BY <2>1, <3>1 DEF Records, Structs
      <3> QED BY <3>2, <3>3
    <2> QED BY <2>2, <2>3
  <1> HIDE DEF first
  <1> DEFINE K == {r \in Fair(o, p) : SameButTables(k, r)}
             len == Len(all)
             op(s, x) == IF x \notin KernelPages THEN s
                         ELSE MemoryPagingSetPageImitate(s, p, x, KernelFlags(x), 4)
             f == CHOOSE g : g = [n \in 0..len |-> IF n = 0 THEN first ELSE op(g[n - 1], all[n])]
             G == [n \in 1..len |-> [s \in K |-> op(s, all[n])]]
  <1>1. first \in K
    BY <1>d
  <1> HIDE DEF all
  <1>2. ASSUME NEW s \in K, NEW n \in 1..len PROVE op(s, all[n]) \in K
    <2> DEFINE va == all[n]
               r == MemoryPagingSetPage(s, p, va, va, KernelFlags(va), 4)
    <2>1. va \in Nat /\ s \in Fair(o, p) /\ SameButTables(k, s)
      BY <1>b
    <2> HIDE DEF va
    <2>2. r \in Fair(o, p) /\ SameButTables(s, r)
      BY <1>e, <2>1, SetPageFair
    <2>3. op(s, va) \in {s, r}
      BY DEF MemoryPagingSetPageImitate
    <2> HIDE DEF r
    <2>4. r \in K
      BY <1>c, <2>1, <2>2, SameButTablesTwice
    <2> QED BY <2>3, <2>4 DEF va
  <1>3. MemoryPagingNewPD(k, p) = f[len]
    BY DEF MemoryPagingNewPD, ForEach, first, all, KernelFlags
  <1> HIDE DEF K, op
  <1>4. G \in [1..len -> [K -> K]]
    BY <1>2
  <1>5. \A n \in 1..len : \A s \in K : G[n][s] = op(s, all[n])
    OBVIOUS
  <1>0. len \in Nat
    BY <1>a, <1>b
  <1>h. len = Len(all)
    OBVIOUS
  <1> HIDE DEF G, len
  <1>6. PICK g \in [0..len -> K] : g[0] = first /\ \A n \in 1..len : g[n] = G[n][g[n - 1]]
    <2>1. Runs(K, first, len, G) # {}
      BY <1>0, <1>1, <1>4, CanBeRun
    <2> QED BY <2>1 DEF Runs
  <1>7. \A n \in 1..len : g[n] = op(g[n - 1], all[n])
    <2> TAKE n \in 1..len
    <2>1. g[n - 1] \in K
      BY <1>0, <1>6
    <2> QED BY <2>1, <1>5, <1>6
  <1>8. g = [n \in 0..len |-> IF n = 0 THEN first ELSE op(g[n - 1], all[n])]
    BY <1>0, <1>6, <1>7
  <1>9. f = [n \in 0..len |-> IF n = 0 THEN first ELSE op(f[n - 1], all[n])]
    BY <1>8
  <1> HIDE DEF f
  <1>10. f[0] = first /\ \A n \in 1..len : f[n] = op(f[n - 1], all[n])
    BY <1>0, <1>9
  <1>11. \A n \in 1..len : f[n - 1] \in K => f[n] \in K
    BY <1>2, <1>10
  <1>12. f[len] \in K
    BY <1>0, <1>1, <1>10, <1>11, KeptToTheEnd
  <1> DEFINE Through(n) == KernelPages \cap 1..n
             J == {x \in (0..len) \X K :
                     ~x[2].lost => Agrees(<<>>, x[2].proc.tables, Through(x[1]))}
             e == [n \in 0..len |-> <<n, f[n]>>]
  <1>13. e[0] \in J
    <2>1. Through(0) = {} /\ 0 \in 0..len
      BY <1>0
    <2>2. e[0] = <<0, first>>
      BY <1>0, <1>10
    <2>3. <<0, first>> \in (0..len) \X K
      BY <1>1, <2>1
    <2>4. ~first.lost => Agrees(<<>>, first.proc.tables, Through(0))
      BY <1>g, <2>1
    <2> HIDE DEF Through, e, K
    <2> QED BY <2>2, <2>3, <2>4
  <1>14. ASSUME NEW n \in 1..len, e[n - 1] \in J PROVE e[n] \in J
    <2> DEFINE s == f[n - 1]
               r == MemoryPagingSetPage(s, p, n, n, KernelFlags(n), 4)
    <2>1. n - 1 \in 0..len /\ n \in 0..len /\ n \in Nat /\ all[n] = n
      BY <1>0, <1>b, <1>h
    <2>2. s \in K /\ (~s.lost => Agrees(<<>>, s.proc.tables, Through(n - 1)))
      <3>1. e[n - 1] = <<n - 1, f[n - 1]>>
        BY <2>1
      <3> HIDE DEF e, Through, K
      <3> QED BY <1>14, <3>1
    <2>3. f[n] = op(s, n) /\ f[n] \in K
      <3>1. f[n] = op(f[n - 1], all[n])
        BY <1>10
      <3>2. f[n] \in K
        BY <1>11, <2>2
      <3> QED BY <2>1, <3>1, <3>2
    <2>4. f[n] = IF n \notin KernelPages THEN s ELSE r
      BY <2>3 DEF op, MemoryPagingSetPageImitate
    <2> HIDE DEF s
    <2>5. ASSUME ~f[n].lost PROVE Agrees(<<>>, f[n].proc.tables, Through(n))
      <3>1. CASE n \notin KernelPages
        <4>1. Through(n) = Through(n - 1)
          BY <2>1, <3>1
        <4> QED BY <2>2, <2>4, <2>5, <3>1, <4>1
      <3>2. CASE n \in KernelPages
        <4>1. Through(n) = Through(n - 1) \cup {n}
          BY <2>1, <3>2
        <4>2. f[n] = r
          BY <2>4, <3>2
        <4>3. s \in Records /\ Private(s.owner, p, s.proc.va, s.proc.tables)
          BY <2>2 DEF K, Fair
        <4>4. IsRecord(s) /\ 4 \in PageSizes
          BY <4>3, RecordIs DEF PageSizes
        <4>5. ~Refused(s.proc.tables, n, n, 4)
          BY <2>1, <4>3, NotRefused
        <4>6. /\ s.lost => r.lost
              /\ ~r.lost =>
                   EnteredIn(s.proc.tables, r.proc.tables, n, n, KernelFlags(n), 4)
          BY <2>1, <4>4, <4>5, SetPageIs
        <4> HIDE DEF r
        <4>7. EnteredIn(s.proc.tables, f[n].proc.tables, n, n, KernelFlags(n), 4) /\ ~s.lost
          BY <2>5, <4>2, <4>6
        <4>8. DOMAIN <<>> = {} /\ Through(n - 1) \subseteq KernelPages
          OBVIOUS
        <4> HIDE DEF Through
        <4>9. Agrees(<<>>, f[n].proc.tables, Through(n - 1) \cup {n})
          BY <2>2, <3>2, <4>5, <4>7, <4>8, AgreesKernel
        <4> QED BY <4>1, <4>9
      <3> QED BY <3>1, <3>2
    <2>6. e[n] = <<n, f[n]>>
      BY <2>1
    <2> HIDE DEF e, Through, K, r
    <2> QED BY <2>1, <2>3, <2>5, <2>6
  <1>15. e[len] \in J
    <2> HIDE DEF e, J
    <2> QED BY <1>0, <1>13, <1>14, KeptToTheEnd
  <1>16. ~f[len].lost => Agrees(<<>>, f[len].proc.tables, KernelPages)
    <2>1. e[len] = <<len, f[len]>>
      BY <1>0
    <2>2. Through(len) = KernelPages
      BY <1>b, <1>h, MemoryAssumption
    <2>3. ~f[len].lost => Agrees(<<>>, f[len].proc.tables, Through(len))
      <3> HIDE DEF e, Through
      <3> QED BY <1>15, <2>1
    <2> QED BY <2>2, <2>3
  <1>17. f[len] \in Fair(o, p) /\ SameButTables(k, f[len])
    BY <1>12 DEF K
  <1>18. f[len].proc.va = <<>>
    BY <1>17, <1>c DEF SameButTables, Structs
  <1>19. f[len] \in Good(Before(o, KernelPages), p)
    BY <1>16, <1>17, <1>18 DEF Good, Before
  <1> QED BY <1>3, <1>17, <1>19

\* What is true of a process that could be made.
NewProcess(before, p, k) ==
  {r \in Good(before, p) :
    /\ r.proc.status = k.proc.status /\ r.proc.data = k.proc.data
    /\ r.ok => HeapCounted(r.proc) /\ ArgumentsHeld(r.proc)}

LEMMA NoFrameNoPage ==
  ASSUME NEW k, NEW p, NEW page, FreeFrames(k.owner) = {}
  PROVE  DispatcherProcessAllocatePage(k, p, page) = [k EXCEPT !.ok = FALSE]
  BY DEF DispatcherProcessAllocatePage

\* DispatcherProcessNew: the result for the first page of the heap need not be looked at,
\* as without it there is no page for the initialisation data either.
LEMMA ProcessNewGood ==
  ASSUME NEW p \in Processes, NEW o, NEW k \in Fair(o, p),
         k.ok, k.proc = NoProcess, NEW sizes \in Seq(Nat \ {0})
  PROVE  DispatcherProcessNew(k, p, sizes) \in NewProcess(Before(o, KernelPages), p, k)
  <1> DEFINE before == Before(o, KernelPages)
  <1> HIDE DEF before
  <1> DEFINE sized == [k EXCEPT !.proc.heap_size = 1]
             pd == MemoryPagingNewPD(sized, p)
             page == <<"heap", 0>>
             heap_ == DispatcherProcessAllocatePage(pd, p, page)
             tried == [heap_ EXCEPT !.ok = TRUE]
             init == DispatcherProcessAllocatePage(tried, p, InitPage)
             r == DispatcherProcessNew(k, p, sizes)
  <1>1. r = IF init.ok THEN AddArguments(init, p, sizes) ELSE init
    BY DEF DispatcherProcessNew, AndThen, InitPage
  <1>2. page \in Pages /\ InitPage \in Pages /\ page # BeyondStack /\ InitPage # BeyondStack
        /\ page # InitPage /\ page \in PagesUsed /\ InitPage \in PagesUsed
    <2>1. page \in PagesUsed
      BY MemoryAssumption DEF PagesUsed
    <2> QED BY <2>1 DEF Pages, Areas, BeyondStack, InitPage, PagesUsed
  <1>3. /\ \A s \in Good(before, p) : s \in Records /\ s.proc \in Structs
        /\ \A s \in Fair(o, p) : s \in Records /\ s.proc \in Structs
    BY DEF Good, Fair, Records
  <1>4. /\ k.proc.va = <<>> /\ k.proc.init_ptr = 0 /\ k.proc.args = <<>>
    BY DEF NoProcess
  <1> HIDE DEF r
  <1>5. /\ sized \in Fair(o, p) /\ sized.ok
        /\ sized.proc = [k.proc EXCEPT !.heap_size = 1]
    <2>1. /\ sized \in Records /\ sized.owner = k.owner /\ sized.ok = k.ok
          /\ sized.proc = [k.proc EXCEPT !.heap_size = 1]
      BY <1>3 DEF Records, Structs
    <2>2. sized.proc.va = k.proc.va /\ sized.proc.tables = k.proc.tables
      BY <1>3, <2>1 DEF Structs
    <2> HIDE DEF sized
    <2>3. sized \in Fair(o, p)
      BY <2>1, <2>2 DEF Fair
    <2> QED BY <2>1, <2>3
  <1> HIDE DEF sized
  <1>6. pd \in Good(before, p) /\ SameButTables(sized, pd)
    <2>1. sized.proc.va = <<>> /\ sized.proc.tables = <<>>
      BY <1>5 DEF NoProcess
    <2> QED BY <1>5, <2>1, NewPDGood DEF before
  <1> HIDE DEF pd
  <1>7. /\ pd.ok /\ pd.proc.va = <<>> /\ pd.proc.heap_size = 1
        /\ pd.proc.init_ptr = 0 /\ pd.proc.args = <<>>
        /\ pd.proc.status = k.proc.status /\ pd.proc.data = k.proc.data
    <2>1. pd.ok = sized.ok /\ pd.proc = [sized.proc EXCEPT !.tables = pd.proc.tables]
      BY <1>6 DEF SameButTables
    <2>2. sized.proc \in Structs /\ k.proc \in Structs
      BY <1>3, <1>5
    <2>3. /\ sized.proc.va = <<>> /\ sized.proc.heap_size = 1
          /\ sized.proc.init_ptr = 0 /\ sized.proc.args = <<>>
          /\ sized.proc.status = k.proc.status /\ sized.proc.data = k.proc.data
      BY <1>4, <1>5, <2>2 DEF Structs
    <2>4. /\ pd.proc.va = sized.proc.va /\ pd.proc.heap_size = sized.proc.heap_size
          /\ pd.proc.init_ptr = sized.proc.init_ptr /\ pd.proc.args = sized.proc.args
          /\ pd.proc.status = sized.proc.status /\ pd.proc.data = sized.proc.data
      BY <2>1, <2>2 DEF Structs
    <2>5. pd.ok
      BY <1>5, <2>1
    <2> QED BY <2>3, <2>4, <2>5
  <1>8. Allocated(before, p, pd, heap_, page)
    BY <1>2, <1>6, <1>7, AllocateGood
  <1>9. DOMAIN pd.proc.va = {}
    BY <1>7
  <1>10. /\ heap_ \in Good(before, p) /\ Extends(pd, heap_) /\ SameArguments(pd, heap_)
         /\ heap_.proc.heap_size = 1
    <2> HIDE DEF page, heap_
    <2>1. heap_ \in Good(before, p) /\ SameButPages(pd, heap_)
      BY <1>8 DEF Allocated
    <2>2. Extends(pd, heap_) /\ SameArguments(pd, heap_)
      BY <1>3, <1>6, <1>8, AllocatedKeeps
    <2>3. heap_.proc.heap_size = 1
      BY <1>3, <1>6, <1>7, <2>1 DEF SameButPages, Structs
    <2> QED BY <2>1, <2>2, <2>3
  <1>11. IF heap_.ok THEN HeapPages(heap_.proc) = {0} ELSE FreeFrames(heap_.owner) = {}
    <2>1. ASSUME heap_.ok PROVE HeapPages(heap_.proc) = {0}
      <3>1. DOMAIN heap_.proc.va = {page}
        BY <1>8, <1>9, <2>1 DEF Allocated, OnePageMore
      <3> QED BY <3>1 DEF HeapPages
    <2>2. ASSUME ~heap_.ok PROVE FreeFrames(heap_.owner) = {}
      BY <1>8, <1>9, <2>2 DEF Allocated
    <2> QED BY <2>1, <2>2
  <1> HIDE DEF heap_
  <1>12. /\ tried \in Good(before, p) /\ tried.ok
         /\ tried.owner = heap_.owner /\ tried.proc = heap_.proc
    <2>1. /\ tried \in Records /\ tried.ok /\ tried.lost = heap_.lost
          /\ tried.owner = heap_.owner /\ tried.proc = heap_.proc
      BY <1>3, <1>10 DEF Records
    <2> HIDE DEF tried
    <2>2. tried \in Good(before, p)
      BY <1>10, <2>1 DEF Good, Fair
    <2> QED BY <2>1, <2>2
  <1> HIDE DEF tried
  <1>13. Allocated(before, p, tried, init, InitPage)
    BY <1>2, <1>12, AllocateGood
  <1>14. init.ok => heap_.ok
    <2> SUFFICES ASSUME ~heap_.ok PROVE ~init.ok
      OBVIOUS
    <2>1. init = [tried EXCEPT !.ok = FALSE]
      BY <1>11, <1>12, NoFrameNoPage
    <2> HIDE DEF init
    <2> QED BY <1>12, <2>1, FailGood
  <1> HIDE DEF init, page
  <1>15. /\ init \in Good(before, p) /\ Extends(tried, init) /\ SameHeap(tried, init)
         /\ SameArguments(tried, init)
    <2>1. init \in Good(before, p)
      BY <1>13 DEF Allocated
    <2>2. InitPage[1] # "heap"
      BY DEF InitPage
    <2>3. Extends(tried, init) /\ SameHeap(tried, init) /\ SameArguments(tried, init)
      BY <1>3, <1>12, <1>13, <2>2, AllocatedKeeps
    <2> QED BY <2>1, <2>3
  <1>16. /\ init.proc.status = k.proc.status /\ init.proc.data = k.proc.data
         /\ init.proc.init_ptr = 0 /\ init.proc.args = <<>> /\ init.proc.heap_size = 1
    BY <1>7, <1>10, <1>12, <1>15 DEF Extends, SameHeap, SameArguments
  <1>17. CASE ~init.ok
    BY <1>1, <1>15, <1>16, <1>17 DEF NewProcess, r, before
  <1>18. CASE init.ok
    <2>1. r \in ArgumentsMade(before, p, init)
      BY <1>1, <1>15, <1>16, <1>18, AddArgumentsGood
    <2>2. HeapPages(init.proc) = {0}
      BY <1>11, <1>12, <1>14, <1>15, <1>18 DEF SameHeap
    <2>3. ArgumentsHeld(init.proc)
      <3>1. InitPage \in DOMAIN init.proc.va
        BY <1>13, <1>18 DEF Allocated, OnePageMore
      <3>2. Len(<<>>) = 0 /\ 1..0 = {}
        OBVIOUS
      <3> QED BY <1>16, <3>1, <3>2 DEF ArgumentsHeld, Held, LastMaySpill
    <2>4. HeapCounted(r.proc)
      <3>1. HeapPages(r.proc) = {0} /\ r.proc.heap_size = 1
        BY <1>16, <2>1, <2>2 DEF ArgumentsMade, SameHeap
      <3>2. 0..(1 - 1) = {0} /\ 1 >= 1
        OBVIOUS
      <3> QED BY <3>1, <3>2 DEF HeapCounted
    <2>5. r.proc.status = k.proc.status /\ r.proc.data = k.proc.data
      BY <1>16, <2>1 DEF ArgumentsMade, Extends
    <2> QED BY <2>1, <2>3, <2>4, <2>5 DEF NewProcess, ArgumentsMade, r, before
  <1> QED BY <1>17, <1>18 DEF r

-----------------------------------------------------------------------------
(* The frames that the kernel has before the first process.                *)

KernelRecords ==
  [owner : [Frames -> Owners], proc : [tables : Partial(Names, Entries)],
   ok : BOOLEAN, lost : BOOLEAN]

LEMMA MakeTableIn ==
  ASSUME NEW k \in KernelRecords, NEW va \in Nat, NEW n \in 0..3
  PROVE  MakeTable(k, "kernel", va, n) \in KernelRecords
  <1> DEFINE r == MakeTable(k, "kernel", va, n)
  <1>1. CASE FreeFrames(k.owner) = {}
    <2>1. r = [k EXCEPT !.lost = TRUE]
      BY <1>1 DEF MakeTable
    <2> QED BY <2>1 DEF KernelRecords
  <1>2. CASE FreeFrames(k.owner) # {}
    <2> DEFINE frame == Min(FreeFrames(k.owner))
               at == At(va, n)
               entry == Entry(frame, {"rw", "user"}, FALSE)
               new == WithEntry(k.proc.tables, at, entry)
    <2>1. frame \in Frames
      BY <1>2, LeastFree
    <2>2. r = [k EXCEPT !.owner[frame] = "kernel", !.proc.tables = new]
      BY <1>2 DEF MakeTable, WithTable
    <2>3. at \in Names
      BY AtIn
    <2>4. entry \in Entries
      BY <2>1, FramesAreNat DEF Entry, Entries, Flags
    <2> HIDE DEF frame, at, entry, r
    <2>5. k.proc.tables \in Partial(Names, Entries)
      BY DEF KernelRecords
    <2>6. new \in Partial(Names, Entries)
      BY <2>3, <2>4, <2>5, WithEntryIs
    <2> HIDE DEF new
    <2>7. r \in KernelRecords
      BY <2>1, <2>2, <2>6 DEF KernelRecords, Owners, KernelOwners
    <2> QED BY <2>7 DEF r
  <1> QED BY <1>1, <1>2

LEMMA ImitatedIn ==
  ASSUME NEW k \in KernelRecords, NEW va \in Nat, NEW size \in 3..4
  PROVE  Imitated(k, va, size) \in KernelRecords
  <1> DEFINE missing == Missing(k.proc.tables, va, size)
             Made(s, n) == IF n \in missing THEN MakeTable(s, "kernel", va, n) ELSE s
             one == Made(k, 1)
             two == Made(one, 2)
             way == Made(two, 3)
             entry == Entry(va, {"rw"}, TRUE)
             new == WithEntry(way.proc.tables, At(va, size), entry)
             r == MemoryPagingSetPageImitate(k, "kernel", va, {"rw"}, size)
  <1>1. ASSUME NEW s \in KernelRecords, NEW n \in 1..3 PROVE Made(s, n) \in KernelRecords
    <2> HIDE DEF missing
    <2>1. n \in 0..3
      OBVIOUS
    <2>2. MakeTable(s, "kernel", va, n) \in KernelRecords
      BY <2>1, MakeTableIn
    <2> QED BY <2>2
  <1>2. r = IF Refused(k.proc.tables, va, va, size) THEN [k EXCEPT !.ok = FALSE]
            ELSE [way EXCEPT !.proc.tables = new]
    BY DEF MemoryPagingSetPageImitate, MemoryPagingSetPage, WithPage
  <1> HIDE DEF missing, r
  <1>3. one \in KernelRecords
    BY <1>1
  <1>4. two \in KernelRecords
    <2> HIDE DEF one
    <2> QED BY <1>1, <1>3
  <1>5. way \in KernelRecords
    <2> HIDE DEF two
    <2> QED BY <1>1, <1>4
  <1>6. entry \in Entries
    BY DEF Entry, Entries, Flags
  <1>7. At(va, size) \in Names
    BY AtIn
  <1> HIDE DEF way, entry
  <1>8. new \in Partial(Names, Entries)
    <2>1. way.proc.tables \in Partial(Names, Entries)
      BY <1>5 DEF KernelRecords
    <2> QED BY <1>6, <1>7, <2>1, WithEntryIs
  <1> HIDE DEF new
  <1>9. [way EXCEPT !.proc.tables = new] \in KernelRecords
    BY <1>5, <1>8 DEF KernelRecords
  <1>10. [k EXCEPT !.ok = FALSE] \in KernelRecords
    BY DEF KernelRecords
  <1>11. r \in KernelRecords
    BY <1>2, <1>9, <1>10
  <1> QED BY <1>11 DEF Imitated, r

LEMMA FlagsChangedIn ==
  ASSUME NEW k \in KernelRecords, NEW va
  PROVE  [k EXCEPT !.proc.tables = MemoryPagingPageChangeFlags(@, va, {"rw"}, {})]
           \in KernelRecords
  <1> DEFINE at == MemoryPagingPagePresent(k.proc.tables, va)
             t == k.proc.tables
             new == [t EXCEPT ![at].flags = (@ \ {"rw"}) \cup {}]
  <1>1. t \in Partial(Names, Entries)
    BY DEF KernelRecords
  <1> HIDE DEF at, t
  <1>2. DOMAIN t \in SUBSET Names /\ t \in [DOMAIN t -> Entries]
    BY <1>1, PartialIs
  <1>3. new \in [DOMAIN t -> Entries]
    BY <1>2 DEF Entries
  <1>4. new \in Partial(Names, Entries)
    BY <1>2, <1>3, PartialIs
  <1>5. MemoryPagingPageChangeFlags(k.proc.tables, va, {"rw"}, {}) = new
    BY DEF MemoryPagingPageChangeFlags, at, t
  <1> HIDE DEF new
  <1>6. [k EXCEPT !.proc.tables = new] \in KernelRecords
    BY <1>4 DEF KernelRecords
  <1> QED BY <1>5, <1>6

LEMMA Multiples ==
  ASSUME NEW m \in Nat, NEW c \in Nat, NEW pages, pages = [i \in 1..m |-> (i - 1) * c]
  PROVE  Len(pages) \in Nat /\ \A n \in 1..Len(pages) : pages[n] \in Nat
  <1>1. Len(pages) = m
    OBVIOUS
  <1>2. \A n \in 1..m : (n - 1) * c \in Nat
    OBVIOUS
  <1> QED BY <1>1, <1>2

LEMMA BootPages ==
  ASSUME NEW pages, pages = [i \in 1..(TopPage \div FanOut + 1) |-> (i - 1) * FanOut]
  PROVE  Len(pages) \in Nat /\ \A n \in 1..Len(pages) : pages[n] \in Nat
  <1>1. FanOut \in Nat \ {0} /\ TopPage \in Nat
    BY PagingAssumption, MemoryAssumption
  <1>2. TopPage \div FanOut + 1 \in Nat
    BY <1>1
  <1> QED BY <1>1, <1>2, Multiples

LEMMA LargePagesIn ==
  ASSUME NEW k \in KernelRecords, NEW pages, Len(pages) \in Nat,
         \A n \in 1..Len(pages) : pages[n] \in Nat
  PROVE  \E f \in [0..Len(pages) -> KernelRecords] :
           /\ f[0] = k
           /\ \A n \in 1..Len(pages) : f[n] = Imitated(f[n - 1], pages[n], 3)
           /\ ForEach(k, pages, LAMBDA s, va : Imitated(s, va, 3)) = f[Len(pages)]
  <1> DEFINE K == KernelRecords
             len == Len(pages)
             op(s, x) == Imitated(s, x, 3)
             f == CHOOSE g : g = [n \in 0..len |-> IF n = 0 THEN k ELSE op(g[n - 1], pages[n])]
             G == [n \in 1..len |-> [s \in K |-> op(s, pages[n])]]
  <1>1. k \in K
    OBVIOUS
  <1>2. ASSUME NEW s \in K, NEW n \in 1..len PROVE op(s, pages[n]) \in K
    <2>1. pages[n] \in Nat /\ 3 \in 3..4 /\ s \in KernelRecords
      OBVIOUS
    <2>2. Imitated(s, pages[n], 3) \in KernelRecords
      BY <2>1, ImitatedIn
    <2> QED BY <2>2
  <1>3. ForEach(k, pages, LAMBDA s, va : Imitated(s, va, 3)) = f[len]
    BY DEF ForEach
  <1> HIDE DEF K, op
  <1>4. G \in [1..len -> [K -> K]]
    BY <1>2
  <1>5. \A n \in 1..len : \A s \in K : G[n][s] = op(s, pages[n])
    OBVIOUS
  <1>0. len \in Nat
    OBVIOUS
  <1> HIDE DEF G, len
  <1>6. PICK g \in [0..len -> K] : g[0] = k /\ \A n \in 1..len : g[n] = G[n][g[n - 1]]
    <2>1. Runs(K, k, len, G) # {}
      BY <1>0, <1>1, <1>4, CanBeRun
    <2> QED BY <2>1 DEF Runs
  <1>7. \A n \in 1..len : g[n] = op(g[n - 1], pages[n])
    <2> TAKE n \in 1..len
    <2>1. g[n - 1] \in K
      BY <1>0, <1>6
    <2> QED BY <2>1, <1>5, <1>6
  <1>8. g = [n \in 0..len |-> IF n = 0 THEN k ELSE op(g[n - 1], pages[n])]
    BY <1>0, <1>6, <1>7
  <1>9. f = [n \in 0..len |-> IF n = 0 THEN k ELSE op(f[n - 1], pages[n])]
    BY <1>8
  <1> HIDE DEF f
  <1>10. f[0] = k /\ \A n \in 1..len : f[n] = op(f[n - 1], pages[n])
    BY <1>0, <1>9
  <1>11. \A n \in 1..len : f[n - 1] \in K => f[n] \in K
    BY <1>2, <1>10
  <1>12. ASSUME NEW n \in 0..len PROVE f[n] \in K
    <2>1. n \in Nat /\ \A m \in 1..n : f[m - 1] \in K => f[m] \in K
      BY <1>0, <1>11
    <2> QED BY <1>1, <1>10, <2>1, KeptToTheEnd
  <1>13. f \in [0..len -> K]
    BY <1>9, <1>12
  <1>14. \A n \in 1..len : f[n] = Imitated(f[n - 1], pages[n], 3)
    BY <1>10 DEF op
  <1> QED BY <1>3, <1>10, <1>13, <1>14 DEF K, len

ReadOnly(s, va, text) ==
  IF va \notin text THEN s
  ELSE [s EXCEPT !.proc.tables = MemoryPagingPageChangeFlags(@, va, {"rw"}, {})]

TextReadOnly(k, pages, text) ==
  ForEach(k, pages, LAMBDA s, va : ReadOnly(s, va, text))

LEMMA TextIn ==
  ASSUME NEW k \in KernelRecords, NEW pages, Len(pages) \in Nat, NEW text
  PROVE  \E f \in [0..Len(pages) -> KernelRecords] :
           /\ f[0] = k
           /\ \A n \in 1..Len(pages) : f[n] = ReadOnly(f[n - 1], pages[n], text)
           /\ TextReadOnly(k, pages, text) = f[Len(pages)]
  <1> DEFINE K == KernelRecords
             len == Len(pages)
             op(s, x) == ReadOnly(s, x, text)
             f == CHOOSE g : g = [n \in 0..len |-> IF n = 0 THEN k ELSE op(g[n - 1], pages[n])]
             G == [n \in 1..len |-> [s \in K |-> op(s, pages[n])]]
  <1>1. k \in K
    OBVIOUS
  <1>2. ASSUME NEW s \in K, NEW n \in 1..len PROVE op(s, pages[n]) \in K
    <2>1. CASE pages[n] \in text
      BY <2>1, FlagsChangedIn DEF ReadOnly
    <2>2. CASE pages[n] \notin text
      BY <2>2 DEF ReadOnly
    <2> QED BY <2>1, <2>2
  <1>3. TextReadOnly(k, pages, text) = f[len]
    BY DEF TextReadOnly, ForEach
  <1> HIDE DEF K, op
  <1>4. G \in [1..len -> [K -> K]]
    BY <1>2
  <1>5. \A n \in 1..len : \A s \in K : G[n][s] = op(s, pages[n])
    OBVIOUS
  <1>0. len \in Nat
    OBVIOUS
  <1> HIDE DEF G, len
  <1>6. PICK g \in [0..len -> K] : g[0] = k /\ \A n \in 1..len : g[n] = G[n][g[n - 1]]
    <2>1. Runs(K, k, len, G) # {}
      BY <1>0, <1>1, <1>4, CanBeRun
    <2> QED BY <2>1 DEF Runs
  <1>7. \A n \in 1..len : g[n] = op(g[n - 1], pages[n])
    <2> TAKE n \in 1..len
    <2>1. g[n - 1] \in K
      BY <1>0, <1>6
    <2> QED BY <2>1, <1>5, <1>6
  <1>8. g = [n \in 0..len |-> IF n = 0 THEN k ELSE op(g[n - 1], pages[n])]
    BY <1>0, <1>6, <1>7
  <1>9. f = [n \in 0..len |-> IF n = 0 THEN k ELSE op(f[n - 1], pages[n])]
    BY <1>8
  <1> HIDE DEF f
  <1>10. f[0] = k /\ \A n \in 1..len : f[n] = op(f[n - 1], pages[n])
    BY <1>0, <1>9
  <1>11. \A n \in 1..len : f[n - 1] \in K => f[n] \in K
    BY <1>2, <1>10
  <1>12. ASSUME NEW n \in 0..len PROVE f[n] \in K
    <2>1. n \in Nat /\ \A m \in 1..n : f[m - 1] \in K => f[m] \in K
      BY <1>0, <1>11
    <2> QED BY <1>1, <1>10, <2>1, KeptToTheEnd
  <1>13. f \in [0..len -> K]
    BY <1>9, <1>12
  <1>14. \A n \in 1..len : f[n] = ReadOnly(f[n - 1], pages[n], text)
    BY <1>10 DEF op
  <1> QED BY <1>3, <1>10, <1>13, <1>14 DEF K, len

LEMMA DevicesIn ==
  ASSUME NEW k \in KernelRecords
  PROVE  \E f \in [0..Len(DevicePages) -> KernelRecords] :
           /\ f[0] = k
           /\ \A n \in 1..Len(DevicePages) : f[n] = Imitated(f[n - 1], DevicePages[n], 4)
           /\ ForEach(k, DevicePages, LAMBDA s, va : Imitated(s, va, 4)) =
                f[Len(DevicePages)]
  <1>a. DevicePages \in Seq(Nat)
    BY MemoryAssumption
  <1> DEFINE K == KernelRecords
             len == Len(DevicePages)
             op(s, x) == Imitated(s, x, 4)
             f == CHOOSE g : g = [n \in 0..len |-> IF n = 0 THEN k ELSE op(g[n - 1], DevicePages[n])]
             G == [n \in 1..len |-> [s \in K |-> op(s, DevicePages[n])]]
  <1>1. k \in K
    OBVIOUS
  <1>2. ASSUME NEW s \in K, NEW n \in 1..len PROVE op(s, DevicePages[n]) \in K
    <2>1. DevicePages[n] \in Nat /\ 4 \in 3..4 /\ s \in KernelRecords
      BY <1>a
    <2>2. Imitated(s, DevicePages[n], 4) \in KernelRecords
      BY <2>1, ImitatedIn
    <2> QED BY <2>2
  <1>3. ForEach(k, DevicePages, LAMBDA s, va : Imitated(s, va, 4)) = f[len]
    BY DEF ForEach
  <1> HIDE DEF K, op
  <1>4. G \in [1..len -> [K -> K]]
    BY <1>2
  <1>5. \A n \in 1..len : \A s \in K : G[n][s] = op(s, DevicePages[n])
    OBVIOUS
  <1>0. len \in Nat
    BY <1>a
  <1> HIDE DEF G, len
  <1>6. PICK g \in [0..len -> K] : g[0] = k /\ \A n \in 1..len : g[n] = G[n][g[n - 1]]
    <2>1. Runs(K, k, len, G) # {}
      BY <1>0, <1>1, <1>4, CanBeRun
    <2> QED BY <2>1 DEF Runs
  <1>7. \A n \in 1..len : g[n] = op(g[n - 1], DevicePages[n])
    <2> TAKE n \in 1..len
    <2>1. g[n - 1] \in K
      BY <1>0, <1>6
    <2> QED BY <2>1, <1>5, <1>6
  <1>8. g = [n \in 0..len |-> IF n = 0 THEN k ELSE op(g[n - 1], DevicePages[n])]
    BY <1>0, <1>6, <1>7
  <1>9. f = [n \in 0..len |-> IF n = 0 THEN k ELSE op(f[n - 1], DevicePages[n])]
    BY <1>8
  <1> HIDE DEF f
  <1>10. f[0] = k /\ \A n \in 1..len : f[n] = op(f[n - 1], DevicePages[n])
    BY <1>0, <1>9
  <1>11. \A n \in 1..len : f[n - 1] \in K => f[n] \in K
    BY <1>2, <1>10
  <1>12. ASSUME NEW n \in 0..len PROVE f[n] \in K
    <2>1. n \in Nat /\ \A m \in 1..n : f[m - 1] \in K => f[m] \in K
      BY <1>0, <1>11
    <2> QED BY <1>1, <1>10, <2>1, KeptToTheEnd
  <1>13. f \in [0..len -> K]
    BY <1>9, <1>12
  <1>14. \A n \in 1..len : f[n] = Imitated(f[n - 1], DevicePages[n], 4)
    BY <1>10 DEF op
  <1> QED BY <1>3, <1>10, <1>13, <1>14 DEF K, len

LEMMA BootTablesIn == BootTables \in Partial(Names, Entries)
  <1>1. FanOut \in Nat
    BY PagingAssumption
  <1>2. DOMAIN BootTables \in SUBSET Names
    BY <1>1 DEF BootTables, Names
  <1>3. \A x \in DOMAIN BootTables : BootTables[x] \in Entries
    <2> TAKE x \in DOMAIN BootTables
    <2>1. x \in Names
      BY <1>2
    <2>2. x[2] * FanOut \in Nat
      BY <1>1, <2>1 DEF Names
    <2>3. BootTables[x] = IF x[1] < 3 THEN Entry(NULL, {"rw"}, FALSE)
                          ELSE Entry(x[2] * FanOut, {"rw"}, TRUE)
      BY DEF BootTables
    <2> QED BY <2>2, <2>3 DEF Entry, Entries, Flags, NULL
  <1>4. BootTables = [x \in DOMAIN BootTables |-> BootTables[x]]
    BY DEF BootTables
  <1>5. BootTables \in [DOMAIN BootTables -> Entries]
    BY <1>3, <1>4
  <1> QED BY <1>2, <1>5, PartialIs

\* The stages of Booted, one after the other.
LargePages == [i \in 1..(TopPage \div FanOut + 1) |-> (i - 1) * FanOut]

TextIndices == Up(Min(TextPages))..Up(Max(TextPages))

TextAddresses == {i * FanOut : i \in TextIndices}

LEMMA BootedIs ==
  \E k \in KernelRecords :
  \E f, g \in [0..Len(LargePages) -> KernelRecords] :
  \E h \in [0..Len(DevicePages) -> KernelRecords] :
    /\ k.proc.tables = BootTables
    /\ f[0] = k /\ g[0] = f[Len(LargePages)] /\ h[0] = g[Len(LargePages)]
    /\ \A n \in 1..Len(LargePages) : f[n] = Imitated(f[n - 1], LargePages[n], 3)
    /\ \A n \in 1..Len(LargePages) :
         g[n] = ReadOnly(g[n - 1], LargePages[n], TextAddresses)
    /\ \A n \in 1..Len(DevicePages) : h[n] = Imitated(h[n - 1], DevicePages[n], 4)
    /\ Booted = h[Len(DevicePages)]
  <1> DEFINE k == [owner |-> [f \in Frames |-> "free"], proc |-> [tables |-> BootTables],
                   ok |-> TRUE, lost |-> FALSE]
             pages == LargePages
             text == TextAddresses
             large == ForEach(k, pages, LAMBDA s, va : Imitated(s, va, 3))
             all == MemoryPagingInit(k)
  <1>1. k \in KernelRecords /\ k.proc.tables = BootTables
    BY BootTablesIn DEF KernelRecords, Owners, KernelOwners
  <1>2. Len(pages) \in Nat /\ \A n \in 1..Len(pages) : pages[n] \in Nat
    BY BootPages DEF LargePages
  <1>3. Booted = ForEach(all, DevicePages, LAMBDA s, va : Imitated(s, va, 4))
    BY DEF Booted
  <1>4. all = TextReadOnly(large, pages, text)
    BY DEF MemoryPagingInit, TextReadOnly, ReadOnly, LargePages, TextIndices,
         TextAddresses
  <1> HIDE DEF k, pages, all, text
  <1>5. PICK f \in [0..Len(pages) -> KernelRecords] :
          /\ f[0] = k
          /\ \A n \in 1..Len(pages) : f[n] = Imitated(f[n - 1], pages[n], 3)
          /\ ForEach(k, pages, LAMBDA s, va : Imitated(s, va, 3)) = f[Len(pages)]
    BY <1>1, <1>2, LargePagesIn
  <1>10. large = f[Len(pages)]
    BY <1>5
  <1>11. f[0] = k /\ \A n \in 1..Len(pages) : f[n] = Imitated(f[n - 1], pages[n], 3)
    BY <1>5
  <1> HIDE DEF large
  <1>6. large \in KernelRecords
    BY <1>2, <1>10
  <1>7. PICK g \in [0..Len(pages) -> KernelRecords] :
          /\ g[0] = large /\ all = g[Len(pages)]
          /\ \A n \in 1..Len(pages) : g[n] = ReadOnly(g[n - 1], pages[n], text)
    BY <1>2, <1>4, <1>6, TextIn
  <1>8. all \in KernelRecords
    BY <1>2, <1>7
  <1>9. PICK h \in [0..Len(DevicePages) -> KernelRecords] :
          /\ h[0] = all /\ Booted = h[Len(DevicePages)]
          /\ \A n \in 1..Len(DevicePages) : h[n] = Imitated(h[n - 1], DevicePages[n], 4)
    BY <1>3, <1>8, DevicesIn
  <1> QED BY <1>1, <1>7, <1>9, <1>10, <1>11 DEF pages, text

LEMMA BootedIn == Booted \in KernelRecords
  <1>1. Len(DevicePages) \in 0..Len(DevicePages)
    BY MemoryAssumption
  <1>2. PICK h \in [0..Len(DevicePages) -> KernelRecords] : Booted = h[Len(DevicePages)]
    BY BootedIs
  <1> QED BY <1>1, <1>2
-----------------------------------------------------------------------------
(* What the kernel's own page tables lead to.                              *)

\* The pages of 2 MB.
LEMMA LargeIs ==
  ASSUME NEW va \in Nat
  PROVE  Up(va) * FanOut + (va % FanOut) = va
  BY PagingAssumption DEF Up

LEMMA MultipleIs ==
  ASSUME NEW i \in Nat
  PROVE  i * FanOut \in Nat /\ (i * FanOut) % FanOut = 0 /\ Up(i * FanOut) = i
  BY PagingAssumption DEF Up

LEMMA UpRises ==
  ASSUME NEW a \in Nat, NEW b \in Nat, a <= b
  PROVE  Up(a) <= Up(b)
  BY PagingAssumption DEF Up

\* Each page leads to the memory at its own address, and can be written unless it is
\* one of the pages of 2 MB that cannot.
LargePage(i, readonly) ==
  Entry(i * FanOut, IF i \in readonly THEN {} ELSE {"rw"}, TRUE)

KernelTables(tables, readonly) ==
  /\ Tree(tables)
  /\ \A x \in DOMAIN tables :
       IF tables[x].page
       THEN \/ x[1] = 3 /\ tables[x] = LargePage(x[2], readonly)
            \/ x[1] = 4 /\ tables[x] = Entry(x[2], {"rw"}, TRUE)
       ELSE x[1] # 4 /\ "rw" \in tables[x].flags

\* There are no pages of 4 KB yet.
OnlyLarge(tables) == \A x \in DOMAIN tables : x[1] = 3 => tables[x].page

Reached(tables, va) == IsPage(tables, va, 3) \/ Present(tables, va, 4)

LEMMA PresentIs ==
  ASSUME NEW tables, NEW readonly, KernelTables(tables, readonly), NEW va \in Nat
  PROVE  /\ ~IsPage(tables, va, 1) /\ ~IsPage(tables, va, 2)
         /\ IsPage(tables, va, 3) =>
              /\ MemoryPagingPagePresent(tables, va) = At(va, 3)
              /\ Present(tables, va, 1) /\ Present(tables, va, 2)
         /\ Present(tables, va, 4) =>
              /\ MemoryPagingPagePresent(tables, va) = At(va, 4)
              /\ \A n \in 1..3 : Present(tables, va, n) /\ ~IsPage(tables, va, n)
         /\ ~Reached(tables, va) => MemoryPagingPagePresent(tables, va) = None
  <1>1. At(va, 1)[1] = 1 /\ At(va, 2)[1] = 2
    BY AtIn
  <1>0. \A x \in DOMAIN tables : tables[x].page => x[1] = 3 \/ x[1] = 4
    BY DEF KernelTables
  <1>2. ~IsPage(tables, va, 1) /\ ~IsPage(tables, va, 2)
    BY <1>0, <1>1 DEF IsPage, Present
  <1>3. \A n \in 2..4 :
          Present(tables, va, n) => Present(tables, va, n - 1) /\ ~IsPage(tables, va, n - 1)
    BY DEF KernelTables, Tree
  <1>4. /\ Present(tables, va, 4) => Present(tables, va, 3) /\ ~IsPage(tables, va, 3)
        /\ Present(tables, va, 3) => Present(tables, va, 2)
        /\ Present(tables, va, 2) => Present(tables, va, 1)
    BY <1>3
  <1>5. IsPage(tables, va, 3) => Present(tables, va, 3)
    BY DEF IsPage
  <1>6. Present(tables, va, 4) => \A n \in 1..3 : Present(tables, va, n) /\ ~IsPage(tables, va, n)
    BY <1>2, <1>4
  <1> QED BY <1>2, <1>4, <1>5, <1>6 DEF MemoryPagingPagePresent, Reached

\* A frame that was not there for a table is not there at the end either.
LEMMA KernelRecordIs == ASSUME NEW k \in KernelRecords PROVE IsRecord(k)
  BY DEF KernelRecords, IsRecord

LEMMA StaysLost ==
  ASSUME NEW k \in KernelRecords, k.lost, NEW va \in Nat, NEW size \in 3..4
  PROVE  Imitated(k, va, size).lost
  <1> DEFINE r == MemoryPagingSetPageImitate(k, "kernel", va, {"rw"}, size)
  <1>1. IsRecord(k) /\ size \in PageSizes
    BY KernelRecordIs DEF PageSizes
  <1>2. CASE Refused(k.proc.tables, va, va, size)
    <2>1. r = [k EXCEPT !.ok = FALSE]
      BY <1>2 DEF MemoryPagingSetPageImitate, MemoryPagingSetPage
    <2> HIDE DEF r
    <2>2. r.lost
      BY <2>1 DEF KernelRecords
    <2> QED BY <2>2 DEF Imitated, r
  <1>3. CASE ~Refused(k.proc.tables, va, va, size)
    <2>1. r.lost
      BY <1>1, <1>3, SetPageIs DEF MemoryPagingSetPageImitate
    <2> QED BY <2>1 DEF Imitated
  <1> QED BY <1>2, <1>3

\* Imitated: the address is reached afterwards, and no entry has changed.
LEMMA ImitatedReaches ==
  ASSUME NEW k \in KernelRecords, NEW va \in Nat, NEW size \in 3..4, NEW readonly,
         KernelTables(k.proc.tables, readonly),
         size = 3 => /\ va % FanOut = 0 /\ Up(va) \notin readonly
                     /\ OnlyLarge(k.proc.tables),
         ~Imitated(k, va, size).lost
  PROVE  LET tables == k.proc.tables
             new == Imitated(k, va, size).proc.tables
         IN  /\ KernelTables(new, readonly) /\ Reached(new, va)
             /\ \A x \in DOMAIN tables : x \in DOMAIN new /\ new[x] = tables[x]
             /\ size = 3 => OnlyLarge(new) /\ IsPage(new, va, 3)
  <1> DEFINE tables == k.proc.tables
             r == Imitated(k, va, size)
             new == r.proc.tables
  <1>1. CASE Reached(tables, va)
    <2>1. MemoryPagingPagePresent(tables, va) # None
      <3>1. At(va, 3) # None /\ At(va, 4) # None
        <4>1. At(va, 3) = <<3, Up(va)>> /\ At(va, 4) = <<4, va>>
          BY AtLevels
        <4> QED BY <4>1 DEF None
      <3> QED BY <1>1, <3>1, PresentIs DEF Reached
    <2>2. r = k
      BY <2>1 DEF Imitated
    <2>3. size = 3 => IsPage(tables, va, 3)
      <3> SUFFICES ASSUME size = 3 PROVE IsPage(tables, va, 3)
        OBVIOUS
      <3>1. CASE Present(tables, va, 4)
        <4>1. Present(tables, va, 3) /\ ~IsPage(tables, va, 3)
          BY <3>1, PresentIs
        <4>2. At(va, 3)[1] = 3
          BY AtIn
        <4> QED BY <4>1, <4>2 DEF OnlyLarge, Present, IsPage
      <3> QED BY <1>1, <3>1 DEF Reached
    <2> QED BY <1>1, <2>2, <2>3
  <1>2. CASE ~Reached(tables, va)
    <2>1. r = MemoryPagingSetPageImitate(k, "kernel", va, {"rw"}, size)
      BY <1>2, PresentIs DEF Imitated
    <2>2. ~IsPage(tables, va, 2) /\ ~IsPage(tables, va, 3) /\ ~Present(tables, va, 4)
      BY <1>2, PresentIs DEF Reached
    <2>3. ~Refused(tables, va, va, size)
      <3>1. Aligned(va, va, size)
        <4>1. CASE size = 3
          BY <4>1 DEF Aligned, Span
        <4>2. CASE size = 4
          BY <4>2 DEF Aligned, Span
        <4> QED BY <4>1, <4>2
      <3>2. size < 4 => ~Present(tables, va, size)
        <4> SUFFICES ASSUME size = 3 PROVE ~Present(tables, va, 3)
          OBVIOUS
        <4>1. At(va, 3)[1] = 3
          BY AtIn
        <4> QED BY <2>2, <4>1 DEF OnlyLarge, Present, IsPage
      <3>3. \A n \in 2..(size - 1) : n = 2 \/ n = 3
        OBVIOUS
      <3> QED BY <2>2, <3>1, <3>2, <3>3 DEF Refused
    <2>4. EnteredIn(tables, new, va, va, {"rw"}, size)
      <3>1. IsRecord(k) /\ size \in PageSizes
        BY KernelRecordIs DEF PageSizes
      <3> DEFINE s == MemoryPagingSetPage(k, "kernel", va, va, {"rw"}, size)
      <3>2. ~s.lost => EnteredIn(tables, s.proc.tables, va, va, {"rw"}, size)
        BY <2>3, <3>1, SetPageIs
      <3>3. r = s
        BY <2>1 DEF MemoryPagingSetPageImitate
      <3> HIDE DEF r, s
      <3> QED BY <3>2, <3>3 DEF r
    <2> HIDE DEF tables, r
    <2>5. At(va, size) \notin DOMAIN tables
      <3>1. CASE size = 4
        BY <2>2, <3>1 DEF Present
      <3>2. CASE size = 3
        BY <2>3, <3>2 DEF Refused, Present
      <3> QED BY <3>1, <3>2
    <2>6. \A x \in DOMAIN tables : x \in DOMAIN new /\ new[x] = tables[x]
      BY <2>4, <2>5 DEF EnteredIn
    <2>7. At(va, size) \in DOMAIN new /\ new[At(va, size)] = Entry(va, {"rw"}, TRUE)
      BY <2>4 DEF EnteredIn
    <2>8. KernelTables(tables, readonly)
      BY DEF tables
    <2>9. Tree(new)
      <3>1. Tree(tables) /\ \A x \in DOMAIN tables : tables[x].page => x[1] \in {3, 4}
        BY <2>8 DEF KernelTables
      <3>2. size \in {3, 4}
        OBVIOUS
      <3> QED BY <2>3, <2>4, <3>1, <3>2, EnteredTree
    <2>10. ASSUME NEW x \in DOMAIN new, x \notin DOMAIN tables, x # At(va, size)
           PROVE  x[1] \in 1..(size - 1) /\ x[1] # 4 /\ ~new[x].page /\ "rw" \in new[x].flags
      <3>1. PICK n \in 1..size : x = At(va, n)
        BY <2>4, <2>10 DEF EnteredIn
      <3>2. n \in 1..(size - 1) /\ n \in 0..4
        BY <2>10, <3>1
      <3>3. x[1] = n
        BY <3>1, <3>2, AtIn
      <3>4. ~new[x].page /\ new[x].flags = Flags
        BY <2>4, <2>10, <3>1, <3>2 DEF EnteredIn
      <3> QED BY <3>2, <3>3, <3>4 DEF Flags
    <2>11. CASE size = 3
      <3>1. At(va, 3) = <<3, Up(va)>> /\ Up(va) * FanOut = va /\ Up(va) \in Nat
        <4>1. Up(va) \in Nat /\ FanOut \in Nat
          BY UpNat, PagingAssumption
        <4>2. Up(va) * FanOut + (va % FanOut) = va /\ va % FanOut = 0
          BY <2>11, LargeIs
        <4>3. Up(va) * FanOut \in Nat
          BY <4>1
        <4> QED BY <4>1, <4>2, <4>3, AtLevels
      <3>2. new[At(va, 3)] = LargePage(Up(va), readonly)
        BY <2>7, <2>11, <3>1 DEF LargePage
      <3>3. At(va, 3)[1] = 3 /\ At(va, 3)[2] = Up(va)
        BY <3>1
      <3>4. new[At(va, 3)].page
        BY <2>7, <2>11 DEF Entry
      <3>5. ASSUME NEW x \in DOMAIN new
            PROVE  IF new[x].page
                   THEN \/ x[1] = 3 /\ new[x] = LargePage(x[2], readonly)
                        \/ x[1] = 4 /\ new[x] = Entry(x[2], {"rw"}, TRUE)
                   ELSE x[1] # 4 /\ "rw" \in new[x].flags
        <4>1. CASE x \in DOMAIN tables
          BY <2>6, <2>8, <4>1 DEF KernelTables
        <4>2. CASE x = At(va, 3)
          BY <3>2, <3>3, <3>4, <4>2
        <4>3. CASE x \notin DOMAIN tables /\ x # At(va, 3)
          BY <2>10, <2>11, <4>3
        <4> QED BY <4>1, <4>2, <4>3
      <3>6. OnlyLarge(new)
        <4> SUFFICES ASSUME NEW x \in DOMAIN new, x[1] = 3 PROVE new[x].page
          BY DEF OnlyLarge
        <4>1. CASE x \in DOMAIN tables
          <5>1. OnlyLarge(tables)
            BY <2>11 DEF tables
          <5> QED BY <2>6, <4>1, <5>1 DEF OnlyLarge
        <4>2. CASE x = At(va, 3)
          BY <3>4, <4>2
        <4>3. CASE x \notin DOMAIN tables /\ x # At(va, 3)
          BY <2>10, <2>11, <4>3
        <4> QED BY <4>1, <4>2, <4>3
      <3>7. IsPage(new, va, 3)
        BY <2>7, <2>11, <3>4 DEF IsPage, Present
      <3>8. KernelTables(new, readonly) /\ Reached(new, va)
        BY <2>9, <3>5, <3>7 DEF KernelTables, Reached
      <3> QED BY <2>6, <3>6, <3>7, <3>8 DEF tables, r
    <2>12. CASE size = 4
      <3>1. At(va, 4)[1] = 4 /\ At(va, 4)[2] = va
        BY AtLevels
      <3>2. new[At(va, 4)] = Entry(va, {"rw"}, TRUE) /\ new[At(va, 4)].page
        BY <2>7, <2>12 DEF Entry
      <3>3. ASSUME NEW x \in DOMAIN new
            PROVE  IF new[x].page
                   THEN \/ x[1] = 3 /\ new[x] = LargePage(x[2], readonly)
                        \/ x[1] = 4 /\ new[x] = Entry(x[2], {"rw"}, TRUE)
                   ELSE x[1] # 4 /\ "rw" \in new[x].flags
        <4>1. CASE x \in DOMAIN tables
          BY <2>6, <2>8, <4>1 DEF KernelTables
        <4>2. CASE x = At(va, 4)
          BY <3>1, <3>2, <4>2
        <4>3. CASE x \notin DOMAIN tables /\ x # At(va, 4)
          BY <2>10, <2>12, <4>3
        <4> QED BY <4>1, <4>2, <4>3
      <3>4. Present(new, va, 4)
        BY <2>7, <2>12 DEF Present
      <3>5. KernelTables(new, readonly) /\ Reached(new, va)
        BY <2>9, <3>3, <3>4 DEF KernelTables, Reached
      <3> QED BY <2>6, <2>12, <3>5 DEF tables, r
    <2> QED BY <2>11, <2>12
  <1> QED BY <1>1, <1>2

\* The code is the kernel's only memory that cannot be written.
Written(i, readonly) == IF i \in TextIndices THEN readonly \cup {i} ELSE readonly

\* MemoryPagingPageChangeFlags, for a page of 2 MB that has been entered.
LEMMA ReadOnlyKeeps ==
  ASSUME NEW k \in KernelRecords, NEW i \in Nat, NEW va, va = i * FanOut, NEW readonly,
         KernelTables(k.proc.tables, readonly), IsPage(k.proc.tables, va, 3),
         NEW r, r = ReadOnly(k, va, TextAddresses),
         NEW more, more = Written(i, readonly)
  PROVE  /\ KernelTables(r.proc.tables, more) /\ r.lost = k.lost
         /\ DOMAIN r.proc.tables = DOMAIN k.proc.tables
         /\ \A x \in DOMAIN k.proc.tables : r.proc.tables[x].page = k.proc.tables[x].page
  <1> DEFINE text == TextAddresses
             tables == k.proc.tables
             new == r.proc.tables
  <1>1. va \in Nat /\ Up(va) = i /\ At(va, 3) = <<3, i>>
    BY MultipleIs, AtLevels
  <1>2. va \in text <=> i \in TextIndices
    <2>1. ASSUME NEW j \in TextIndices, va = j * FanOut PROVE j = i
      <3>1. j \in Nat
        <4>1. TextPages \in SUBSET Nat /\ TextPages # {}
          BY MemoryAssumption, BootAssumption
        <4>2. Min(TextPages) \in Nat
          BY <4>1, LeastIn
        <4>3. Up(Min(TextPages)) \in Nat
          BY <4>2, UpNat
        <4> QED BY <4>3 DEF TextIndices
      <3>2. Up(j * FanOut) = j
        BY <3>1, MultipleIs
      <3> QED BY <1>1, <2>1, <3>2
    <2> QED BY <2>1 DEF TextAddresses
  <1>3. tables \in Partial(Names, Entries)
    BY DEF KernelRecords
  <1>4. tables = [x \in DOMAIN tables |-> tables[x]] /\ \A x \in DOMAIN tables : tables[x] \in Entries
    BY <1>3, PartialIs
  <1>5. CASE i \notin TextIndices
    <2>1. r = k
      BY <1>2, <1>5 DEF ReadOnly
    <2> QED BY <1>5, <2>1 DEF Written
  <1>6. CASE i \in TextIndices
    <2>1. r = [k EXCEPT !.proc.tables = MemoryPagingPageChangeFlags(@, va, {"rw"}, {})]
      BY <1>2, <1>6 DEF ReadOnly
    <2>2. MemoryPagingPagePresent(tables, va) = At(va, 3)
      BY <1>1, PresentIs
    <2>3. r.lost = k.lost /\ new = MemoryPagingPageChangeFlags(tables, va, {"rw"}, {})
      BY <2>1 DEF KernelRecords
    <2> HIDE DEF tables, new, text
    <2>4. new = [tables EXCEPT ![<<3, i>>].flags = (@ \ {"rw"}) \cup {}]
      BY <1>1, <2>2, <2>3 DEF MemoryPagingPageChangeFlags
    <2>5. <<3, i>> \in DOMAIN tables /\ tables[<<3, i>>].page
      BY <1>1 DEF IsPage, Present, tables
    <2>6. KernelTables(tables, readonly)
      BY DEF tables
    <2>7. tables[<<3, i>>].flags \in SUBSET {"rw"} /\ tables[<<3, i>>].frame = i * FanOut
          /\ tables[<<3, i>>] \in Entries
      <3>1. tables[<<3, i>>] = LargePage(i, readonly)
        <4> DEFINE x == <<3, i>>
        <4>1. x[1] = 3 /\ x[2] = i
          OBVIOUS
        <4>2. x \in DOMAIN tables /\ tables[x].page
          BY <2>5
        <4> HIDE DEF x
        <4>3. tables[x] = LargePage(x[2], readonly) \/ x[1] = 4
          BY <2>6, <4>2 DEF KernelTables
        <4>4. x[1] # 4
          BY <4>1
        <4> QED BY <4>1, <4>3, <4>4 DEF x
      <3> QED BY <1>4, <2>5, <3>1 DEF LargePage, Entry
    <2>8. DOMAIN new = DOMAIN tables /\ \A x \in DOMAIN tables : x # <<3, i>> => new[x] = tables[x]
      BY <1>4, <2>4
    <2>9. new[<<3, i>>] = Entry(i * FanOut, {}, TRUE)
      <3>1. new[<<3, i>>] = [tables[<<3, i>>] EXCEPT !.flags = (@ \ {"rw"}) \cup {}]
        BY <1>4, <2>4, <2>5
      <3>2. (tables[<<3, i>>].flags \ {"rw"}) \cup {} = {}
        BY <2>7
      <3> QED BY <2>5, <2>7, <3>1, <3>2 DEF Entries, Entry
    <2>10. \A x \in DOMAIN tables : new[x].page = tables[x].page
      <3>1. new[<<3, i>>].page = TRUE /\ tables[<<3, i>>].page = TRUE
        BY <2>5, <2>7, <2>9 DEF Entry, Entries
      <3> QED BY <2>8, <3>1
    <2>11. Tree(new)
      <3>1. \A va_ \in Nat : \A n \in 1..4 : Present(new, va_, n) <=> Present(tables, va_, n)
        BY <2>8 DEF Present
      <3>2. \A va_ \in Nat : \A n \in 1..4 : IsPage(new, va_, n) <=> IsPage(tables, va_, n)
        BY <2>8, <2>10 DEF IsPage, Present
      <3>3. Tree(tables)
        BY <2>6 DEF KernelTables
      <3> QED BY <3>1, <3>2, <3>3 DEF Tree
    <2>12. ASSUME NEW x \in DOMAIN new
           PROVE  IF new[x].page
                  THEN \/ x[1] = 3 /\ new[x] = LargePage(x[2], more)
                       \/ x[1] = 4 /\ new[x] = Entry(x[2], {"rw"}, TRUE)
                  ELSE x[1] # 4 /\ "rw" \in new[x].flags
      <3>1. CASE x = <<3, i>>
        <4>1. x[1] = 3 /\ x[2] = i /\ i \in more
          BY <1>6, <3>1 DEF Written
        <4>2. new[x] = LargePage(x[2], more)
          BY <2>9, <3>1, <4>1 DEF LargePage
        <4>3. new[x].page
          BY <2>5, <2>8, <2>10, <3>1
        <4> QED BY <4>1, <4>2, <4>3
      <3>2. CASE x # <<3, i>>
        <4>1. x \in DOMAIN tables /\ new[x] = tables[x] /\ x \in Names
          <5>1. DOMAIN tables \in SUBSET Names
            BY <1>3, PartialIs DEF tables
          <5> QED BY <2>8, <3>2, <5>1
        <4>2. x[1] = 3 => x[2] # i
          BY <3>2, <4>1 DEF Names
        <4>3. x[1] = 3 => LargePage(x[2], more) = LargePage(x[2], readonly)
          BY <4>2 DEF LargePage, Written
        <4> QED BY <2>6, <4>1, <4>3 DEF KernelTables
      <3> QED BY <3>1, <3>2
    <2>13. KernelTables(new, more)
      BY <2>11, <2>12 DEF KernelTables
    <2> QED BY <2>3, <2>8, <2>10, <2>13 DEF tables, new
  <1> QED BY <1>5, <1>6

\* boot.nasm
LEMMA BootTablesAre == KernelTables(BootTables, {}) /\ OnlyLarge(BootTables)
  <1> DEFINE tables == BootTables
  <1>1. FanOut \in Nat \ {0}
    BY PagingAssumption
  <1>2. DOMAIN tables = {<<n, 0>> : n \in 0..2} \cup {<<3, i>> : i \in 0..(FanOut - 1)}
    BY DEF BootTables
  <1>3. \A x \in DOMAIN tables :
          /\ x[1] < 3 => tables[x] = Entry(NULL, {"rw"}, FALSE)
          /\ ~(x[1] < 3) => tables[x] = Entry(x[2] * FanOut, {"rw"}, TRUE)
    BY DEF BootTables
  <1> HIDE DEF tables
  <1>4. \A x \in DOMAIN tables : \/ \E n \in 0..2 : x = <<n, 0>>
                                 \/ \E i \in 0..(FanOut - 1) : x = <<3, i>>
    BY <1>2
  <1>5. ASSUME NEW x \in DOMAIN tables
        PROVE  \/ x[1] \in 0..2 /\ tables[x] = Entry(NULL, {"rw"}, FALSE)
               \/ x[1] = 3 /\ tables[x] = LargePage(x[2], {})
    <2>1. CASE \E n \in 0..2 : x = <<n, 0>>
      <3>1. x[1] \in 0..2
        BY <2>1
      <3>2. x[1] < 3
        BY <3>1
      <3> QED BY <1>3, <3>1, <3>2
    <2>2. CASE \E i \in 0..(FanOut - 1) : x = <<3, i>>
      <3>1. x[1] = 3
        BY <2>2
      <3>2. ~(x[1] < 3)
        BY <3>1
      <3>3. tables[x] = Entry(x[2] * FanOut, {"rw"}, TRUE)
        BY <1>3, <3>2
      <3> QED BY <3>1, <3>3 DEF LargePage
    <2> QED BY <1>4, <2>1, <2>2
  <1>6. \A x \in DOMAIN tables :
          IF tables[x].page THEN x[1] = 3 /\ tables[x] = LargePage(x[2], {})
          ELSE x[1] \in 0..2 /\ "rw" \in tables[x].flags
    BY <1>5 DEF Entry, LargePage
  <1>7. OnlyLarge(tables)
    BY <1>6 DEF OnlyLarge
  <1>8. ASSUME NEW va \in Nat, NEW n \in 2..4, Present(tables, va, n)
        PROVE  Present(tables, va, n - 1) /\ ~IsPage(tables, va, n - 1)
    <2>0. At(va, n) \in DOMAIN tables /\ At(va, n)[1] = n
      BY <1>8, AtIn DEF Present
    <2>1. \A m \in 1..2 : At(va, m)[1] = m
      BY AtIn
    <2>2. ASSUME NEW m \in 1..2 PROVE ~IsPage(tables, va, m)
      <3>1. At(va, m)[1] # 3
        BY <2>1
      <3> QED BY <1>6, <3>1 DEF IsPage, Present
    <2>3. n # 4
      <3>1. At(va, n)[1] # 4
        BY <1>6, <2>0
      <3> QED BY <2>0, <3>1
    <2>4. CASE n = 3
      <3>1. At(va, 3) = <<3, Up(va)>> /\ Up(va) \in Nat /\ At(va, 2) = <<2, Up(Up(va))>>
        BY AtLevels, UpNat
      <3>2. Up(va) < FanOut
        <4>1. \E i \in 0..(FanOut - 1) : <<3, Up(va)>> = <<3, i>>
          BY <1>4, <2>0, <2>4, <3>1
        <4> QED BY <1>1, <4>1
      <3>3. Up(Up(va)) = 0
        BY <1>1, <3>1, <3>2 DEF Up
      <3>4. At(va, 2) \in DOMAIN tables
        BY <1>2, <3>1, <3>3
      <3> QED BY <2>2, <2>4, <3>4 DEF Present
    <2>5. CASE n = 2
      <3>1. At(va, 2) = <<2, Up(Up(va))>> /\ At(va, 1) = <<1, Up(Up(Up(va)))>>
        BY AtLevels
      <3>2. Up(Up(va)) = 0
        <4>1. \E m \in 0..2 : <<2, Up(Up(va))>> = <<m, 0>>
          BY <1>4, <2>0, <2>5, <3>1
        <4> QED BY <4>1
      <3>3. Up(Up(Up(va))) = 0
        BY <1>1, <3>2 DEF Up
      <3>4. At(va, 1) \in DOMAIN tables
        BY <1>2, <3>1, <3>3
      <3> QED BY <2>2, <2>5, <3>4 DEF Present
    <2> QED BY <2>3, <2>4, <2>5
  <1>9. Tree(tables)
    BY <1>8 DEF Tree
  <1>10. \A x \in DOMAIN tables :
           IF tables[x].page
           THEN \/ x[1] = 3 /\ tables[x] = LargePage(x[2], {})
                \/ x[1] = 4 /\ tables[x] = Entry(x[2], {"rw"}, TRUE)
           ELSE x[1] # 4 /\ "rw" \in tables[x].flags
    <2> TAKE x \in DOMAIN tables
    <2>1. CASE tables[x].page
      BY <1>6, <2>1
    <2>2. CASE ~tables[x].page
      <3>1. x[1] \in 0..2 /\ "rw" \in tables[x].flags
        BY <1>6, <2>2
      <3>2. x[1] # 4
        BY <3>1
      <3> QED BY <2>2, <3>1, <3>2
    <2> QED BY <2>1, <2>2
  <1> QED BY <1>7, <1>9, <1>10 DEF KernelTables, tables

LEMMA MultiplesAre ==
  ASSUME NEW m \in Nat, NEW pages, pages = [i \in 1..m |-> (i - 1) * FanOut]
  PROVE  Len(pages) = m /\ \A n \in 1..m : pages[n] = (n - 1) * FanOut
  OBVIOUS

LEMMA LargePagesAre ==
  /\ Up(TopPage) \in Nat /\ Len(LargePages) = Up(TopPage) + 1 /\ Len(LargePages) \in Nat
  /\ \A n \in 1..Len(LargePages) : LargePages[n] = (n - 1) * FanOut /\ n - 1 \in Nat
  <1>1. TopPage \in Nat /\ Up(TopPage) \in Nat /\ Up(TopPage) = TopPage \div FanOut
    BY MemoryAssumption, UpNat DEF Up
  <1>2. Len(LargePages) = Up(TopPage) + 1 /\ \A n \in 1..(Up(TopPage) + 1) :
          LargePages[n] = (n - 1) * FanOut
    <2> DEFINE m == Up(TopPage) + 1
               pages == LargePages
    <2>1. m \in Nat /\ pages = [i \in 1..m |-> (i - 1) * FanOut]
      BY <1>1 DEF LargePages
    <2> HIDE DEF m, pages
    <2>2. Len(pages) = m /\ \A n \in 1..m : pages[n] = (n - 1) * FanOut
      BY <2>1, MultiplesAre
    <2> QED BY <2>2 DEF m, pages
  <1> QED BY <1>1, <1>2

\* All the memory is there in pages of 2 MB.
AllLarge(tables) == \A i \in 0..Up(TopPage) : IsPage(tables, i * FanOut, 3)

LEMMA LargePagesMade ==
  ASSUME NEW f \in [0..Len(LargePages) -> KernelRecords], f[0].proc.tables = BootTables,
         \A n \in 1..Len(LargePages) : f[n] = Imitated(f[n - 1], LargePages[n], 3),
         ~f[Len(LargePages)].lost
  PROVE  LET tables == f[Len(LargePages)].proc.tables
         IN  KernelTables(tables, {}) /\ OnlyLarge(tables) /\ AllLarge(tables)
  <1> DEFINE len == Len(LargePages)
             S == {n \in 0..len : ~f[n].lost =>
                     /\ KernelTables(f[n].proc.tables, {}) /\ OnlyLarge(f[n].proc.tables)
                     /\ \A m \in 1..n : IsPage(f[n].proc.tables, (m - 1) * FanOut, 3)}
  <1>1. len \in Nat /\ len = Up(TopPage) + 1 /\ Up(TopPage) \in Nat
        /\ \A n \in 1..len : LargePages[n] = (n - 1) * FanOut /\ n - 1 \in Nat
    BY LargePagesAre
  <1>2. 0 \in S
    BY <1>1, BootTablesAre
  <1>3. ASSUME NEW n \in 1..len, n - 1 \in S PROVE n \in S
    <2> SUFFICES ASSUME ~f[n].lost
                 PROVE  /\ KernelTables(f[n].proc.tables, {}) /\ OnlyLarge(f[n].proc.tables)
                        /\ \A m \in 1..n : IsPage(f[n].proc.tables, (m - 1) * FanOut, 3)
      OBVIOUS
    <2> DEFINE k == f[n - 1]
               va == (n - 1) * FanOut
    <2>1. k \in KernelRecords /\ f[n] = Imitated(k, va, 3)
      BY <1>1
    <2>2. va \in Nat /\ va % FanOut = 0
      BY <1>1, MultipleIs
    <2> HIDE DEF k, va
    <2>3. ~k.lost
      BY <2>1, <2>2, StaysLost
    <2>4. /\ KernelTables(k.proc.tables, {}) /\ OnlyLarge(k.proc.tables)
          /\ \A m \in 1..(n - 1) : IsPage(k.proc.tables, (m - 1) * FanOut, 3)
      BY <1>3, <2>3 DEF k
    <2> DEFINE new == Imitated(k, va, 3).proc.tables
    <2>5. ~Imitated(k, va, 3).lost
      BY <2>1
    <2>6. /\ KernelTables(new, {}) /\ OnlyLarge(new) /\ IsPage(new, va, 3)
          /\ \A x \in DOMAIN k.proc.tables : x \in DOMAIN new /\ new[x] = k.proc.tables[x]
      <3>1. PICK size \in 3..4 : size = 3
        OBVIOUS
      <3>2. /\ size = 3 => va % FanOut = 0 /\ Up(va) \notin {} /\ OnlyLarge(k.proc.tables)
            /\ ~Imitated(k, va, size).lost
        BY <2>2, <2>4, <2>5, <3>1
      <3> DEFINE made == Imitated(k, va, size).proc.tables
      <3>3. /\ KernelTables(made, {}) /\ Reached(made, va)
            /\ \A x \in DOMAIN k.proc.tables : x \in DOMAIN made /\ made[x] = k.proc.tables[x]
            /\ size = 3 => OnlyLarge(made) /\ IsPage(made, va, 3)
        BY Zenon, <2>1, <2>2, <2>4, <3>2, ImitatedReaches
      <3>4. made = new
        BY <3>1
      <3> HIDE DEF made, new
      <3> QED BY <3>1, <3>3, <3>4
    <2>7. f[n].proc.tables = new
      BY <2>1
    <2> HIDE DEF new
    <2>8. ASSUME NEW m \in 1..n PROVE IsPage(new, (m - 1) * FanOut, 3)
      <3>1. CASE m = n
        BY <2>6, <3>1 DEF va
      <3>2. CASE m # n
        <4>1. m \in 1..(n - 1)
          BY <3>2
        <4>2. IsPage(k.proc.tables, (m - 1) * FanOut, 3)
          BY <2>4, <4>1
        <4> QED BY <2>6, <4>2 DEF IsPage, Present
      <3> QED BY <3>1, <3>2
    <2> QED BY <2>6, <2>7, <2>8
  <1> HIDE DEF S, len
  <1>4. len \in S
    <2>1. \A n \in 0..len : n \in S
      BY <1>1, <1>2, <1>3, ReachesAll
    <2> QED BY <1>1, <2>1
  <1>5. /\ KernelTables(f[len].proc.tables, {}) /\ OnlyLarge(f[len].proc.tables)
        /\ \A m \in 1..len : IsPage(f[len].proc.tables, (m - 1) * FanOut, 3)
    BY <1>4 DEF S, len
  <1>6. ASSUME NEW i \in 0..Up(TopPage) PROVE IsPage(f[len].proc.tables, i * FanOut, 3)
    <2>1. i + 1 \in 1..len /\ (i + 1) - 1 = i
      BY <1>1
    <2> QED BY <1>5, <2>1
  <1> QED BY <1>5, <1>6 DEF AllLarge, len

\* The pages of 2 MB with the kernel's code, among the first n.
CodeBelow(n) == {i \in Nat : i < n /\ i \in TextIndices}

LEMMA CodeIs ==
  /\ CodeBelow(0) = {}
  /\ \A i \in Nat :
       CodeBelow(i + 1) = IF i \in TextIndices THEN CodeBelow(i) \cup {i} ELSE CodeBelow(i)
  <1>1. CodeBelow(0) = {}
    BY DEF CodeBelow
  <1>2. ASSUME NEW i \in Nat
        PROVE  CodeBelow(i + 1) =
                 IF i \in TextIndices THEN CodeBelow(i) \cup {i} ELSE CodeBelow(i)
    <2>1. \A j \in Nat : j < i + 1 <=> j < i \/ j = i
      OBVIOUS
    <2>2. \A j : j \in CodeBelow(i + 1) <=> j \in CodeBelow(i) \/ (j = i /\ i \in TextIndices)
      BY <2>1 DEF CodeBelow
    <2> QED BY <2>2
  <1> QED BY <1>1, <1>2

LEMMA CodeMadeReadOnly ==
  ASSUME NEW g \in [0..Len(LargePages) -> KernelRecords],
         KernelTables(g[0].proc.tables, {}), AllLarge(g[0].proc.tables),
         \A n \in 1..Len(LargePages) :
           g[n] = ReadOnly(g[n - 1], LargePages[n], TextAddresses)
  PROVE  LET last == g[Len(LargePages)]
         IN  /\ KernelTables(last.proc.tables, CodeBelow(Len(LargePages)))
             /\ AllLarge(last.proc.tables) /\ last.lost = g[0].lost
  <1> DEFINE len == Len(LargePages)
             Done(n) == /\ KernelTables(g[n].proc.tables, CodeBelow(n))
                        /\ AllLarge(g[n].proc.tables) /\ g[n].lost = g[0].lost
             S == {n \in 0..len : Done(n)}
  <1>1. len \in Nat /\ len = Up(TopPage) + 1 /\ Up(TopPage) \in Nat
        /\ \A n \in 1..len : LargePages[n] = (n - 1) * FanOut /\ n - 1 \in Nat
    BY LargePagesAre
  <1>2. Done(0)
    BY CodeIs
  <1>3. ASSUME NEW n \in 1..len, Done(n - 1) PROVE Done(n)
    <2>1. n - 1 \in 0..len /\ n - 1 \in Nat /\ n - 1 \in 0..Up(TopPage) /\ (n - 1) + 1 = n
      BY <1>1
    <2> DEFINE k == g[n - 1]
               i == n - 1
               va == i * FanOut
               readonly == CodeBelow(i)
               more == CodeBelow(n)
               r == g[n]
    <2>2. k \in KernelRecords /\ i \in Nat /\ i \in 0..Up(TopPage)
      BY <2>1
    <2>3. r = ReadOnly(k, va, TextAddresses)
      BY <1>1
    <2>4. KernelTables(k.proc.tables, readonly) /\ AllLarge(k.proc.tables)
          /\ k.lost = g[0].lost
      BY <1>3
    <2>5. more = Written(i, readonly)
      BY <2>1, CodeIs DEF Written
    <2>0. va = i * FanOut
      OBVIOUS
    <2> HIDE DEF k, r, i, va, readonly, more
    <2>6. IsPage(k.proc.tables, va, 3)
      BY <2>0, <2>2, <2>4 DEF AllLarge
    <2>7. /\ KernelTables(r.proc.tables, more) /\ r.lost = k.lost
          /\ DOMAIN r.proc.tables = DOMAIN k.proc.tables
          /\ \A x \in DOMAIN k.proc.tables : r.proc.tables[x].page = k.proc.tables[x].page
      BY <2>0, <2>2, <2>3, <2>4, <2>5, <2>6, ReadOnlyKeeps
    <2>8. AllLarge(r.proc.tables)
      BY <2>4, <2>7 DEF AllLarge, IsPage, Present
    <2> QED BY <2>4, <2>7, <2>8 DEF r, more
  <1> HIDE DEF Done
  <1>4. 0 \in S /\ \A n \in 1..len : n - 1 \in S => n \in S
    <2>1. 0 \in 0..len /\ \A n \in 1..len : n \in 0..len
      BY <1>1
    <2> QED BY <1>2, <1>3, <2>1
  <1> HIDE DEF S, len
  <1>5. len \in S
    <2>1. \A n \in 0..len : n \in S
      BY <1>1, <1>4, ReachesAll
    <2>2. len \in 0..len
      BY <1>1
    <2> QED BY <2>1, <2>2
  <1> QED BY <1>5 DEF S, Done, len

LEMMA DevicesMade ==
  ASSUME NEW h \in [0..Len(DevicePages) -> KernelRecords], NEW readonly,
         KernelTables(h[0].proc.tables, readonly), AllLarge(h[0].proc.tables),
         \A n \in 1..Len(DevicePages) : h[n] = Imitated(h[n - 1], DevicePages[n], 4),
         ~h[Len(DevicePages)].lost
  PROVE  LET tables == h[Len(DevicePages)].proc.tables
         IN  /\ KernelTables(tables, readonly) /\ AllLarge(tables)
             /\ \A n \in 1..Len(DevicePages) : Reached(tables, DevicePages[n])
  <1> DEFINE len == Len(DevicePages)
             S == {n \in 0..len : ~h[n].lost =>
                     /\ KernelTables(h[n].proc.tables, readonly) /\ AllLarge(h[n].proc.tables)
                     /\ \A m \in 1..n : Reached(h[n].proc.tables, DevicePages[m])}
  <1>1. len \in Nat /\ \A n \in 1..len : DevicePages[n] \in Nat
    BY MemoryAssumption
  <1>2. 0 \in S
    BY <1>1
  <1>3. ASSUME NEW n \in 1..len, n - 1 \in S PROVE n \in S
    <2> SUFFICES ASSUME ~h[n].lost
                 PROVE  /\ KernelTables(h[n].proc.tables, readonly)
                        /\ AllLarge(h[n].proc.tables)
                        /\ \A m \in 1..n : Reached(h[n].proc.tables, DevicePages[m])
      OBVIOUS
    <2> DEFINE k == h[n - 1]
               va == DevicePages[n]
    <2>1. k \in KernelRecords /\ va \in Nat /\ h[n] = Imitated(k, va, 4)
      BY <1>1
    <2> HIDE DEF k, va
    <2>3. ~k.lost
      BY <2>1, StaysLost
    <2>4. /\ KernelTables(k.proc.tables, readonly) /\ AllLarge(k.proc.tables)
          /\ \A m \in 1..(n - 1) : Reached(k.proc.tables, DevicePages[m])
      BY <1>3, <2>3 DEF k
    <2> DEFINE new == Imitated(k, va, 4).proc.tables
    <2>5. ~Imitated(k, va, 4).lost
      BY <2>1
    <2>6. /\ KernelTables(new, readonly) /\ Reached(new, va)
          /\ \A x \in DOMAIN k.proc.tables : x \in DOMAIN new /\ new[x] = k.proc.tables[x]
      <3>1. PICK size \in 3..4 : size = 4
        OBVIOUS
      <3>2. /\ size = 3 => va % FanOut = 0 /\ Up(va) \notin readonly /\ OnlyLarge(k.proc.tables)
            /\ ~Imitated(k, va, size).lost
        BY <2>5, <3>1
      <3> DEFINE made == Imitated(k, va, size).proc.tables
      <3>3. /\ KernelTables(made, readonly) /\ Reached(made, va)
            /\ \A x \in DOMAIN k.proc.tables : x \in DOMAIN made /\ made[x] = k.proc.tables[x]
        BY Zenon, <2>1, <2>4, <3>2, ImitatedReaches
      <3>4. made = new
        BY <3>1
      <3> HIDE DEF made, new
      <3> QED BY <3>3, <3>4
    <2>7. h[n].proc.tables = new
      BY <2>1
    <2> HIDE DEF new
    <2>8. ASSUME NEW m \in 1..n PROVE Reached(new, DevicePages[m])
      <3>1. CASE m = n
        BY <2>6, <3>1 DEF va
      <3>2. CASE m # n
        <4>1. m \in 1..(n - 1)
          BY <3>2
        <4>2. Reached(k.proc.tables, DevicePages[m])
          BY <2>4, <4>1
        <4> QED BY <2>6, <4>2 DEF Reached, IsPage, Present
      <3> QED BY <3>1, <3>2
    <2>9. AllLarge(new)
      BY <2>4, <2>6 DEF AllLarge, IsPage, Present
    <2> QED BY <2>6, <2>7, <2>8, <2>9
  <1> HIDE DEF S, len
  <1>4. len \in S
    <2>1. \A n \in 0..len : n \in S
      BY <1>1, <1>2, <1>3, ReachesAll
    <2> QED BY <1>1, <2>1
  <1> QED BY <1>4 DEF S, len

\* What is read of a page of the kernel's own tables.
LEMMA KernelLeads ==
  ASSUME NEW tables, NEW readonly, KernelTables(tables, readonly), NEW va \in Nat,
         Reached(tables, va)
  PROVE  /\ Leads(tables, va).frame = va
         /\ "rw" \in Leads(tables, va).flags <=>
              ~(IsPage(tables, va, 3) /\ Up(va) \in readonly)
  <1>1. /\ At(va, 3) = <<3, Up(va)>> /\ At(va, 4) = <<4, va>>
        /\ At(va, 3) # None /\ At(va, 4) # None
    <2>1. At(va, 3) = <<3, Up(va)>> /\ At(va, 4) = <<4, va>>
      BY AtLevels
    <2> QED BY <2>1 DEF None
  <1>2. At(va, 3)[1] = 3 /\ At(va, 3)[2] = Up(va) /\ At(va, 4)[1] = 4 /\ At(va, 4)[2] = va
    BY <1>1
  <1>3. \A n \in 1..3 : Present(tables, va, n) /\ ~IsPage(tables, va, n) =>
          "rw" \in tables[At(va, n)].flags
    BY DEF KernelTables, Present, IsPage
  <1>4. "rw" \in Flags
    BY DEF Flags
  <1>5. CASE IsPage(tables, va, 3)
    <2>1. /\ MemoryPagingPagePresent(tables, va) = At(va, 3)
          /\ Present(tables, va, 1) /\ Present(tables, va, 2)
          /\ ~IsPage(tables, va, 1) /\ ~IsPage(tables, va, 2)
      BY <1>5, PresentIs
    <2>2. tables[At(va, 3)] = LargePage(Up(va), readonly)
      <3> DEFINE x == At(va, 3)
      <3>1. x \in DOMAIN tables /\ tables[x].page /\ x[1] # 4 /\ x[2] = Up(va)
        BY <1>2, <1>5 DEF IsPage, Present
      <3> HIDE DEF x
      <3>2. tables[x] = LargePage(x[2], readonly) \/ x[1] = 4
        BY <3>1 DEF KernelTables
      <3> QED BY <3>1, <3>2 DEF x
    <2>3. /\ tables[At(va, 3)].frame = Up(va) * FanOut
          /\ "rw" \in tables[At(va, 3)].flags <=> Up(va) \notin readonly
      BY <2>2 DEF LargePage, Entry
    <2>4. "rw" \in tables[At(va, 1)].flags /\ "rw" \in tables[At(va, 2)].flags
      BY <1>3, <2>1
    <2>5. Leads(tables, va) =
            [frame |-> Up(va) * FanOut + (va % FanOut),
             flags |-> {f \in Flags : \A n \in 1..3 : f \in tables[At(va, n)].flags}]
      <3>1. Span(3) = FanOut
        BY DEF Span
      <3> QED BY <1>1, <1>2, <2>1, <2>3, <3>1 DEF Leads
    <2>6. (\A n \in 1..3 : "rw" \in tables[At(va, n)].flags) <=> Up(va) \notin readonly
      <3>1. \A n \in 1..3 : n = 1 \/ n = 2 \/ n = 3
        OBVIOUS
      <3>2. 3 \in 1..3
        OBVIOUS
      <3> QED BY <2>3, <2>4, <3>1, <3>2
    <2> QED BY <1>4, <1>5, <2>5, <2>6, LargeIs
  <1>6. CASE Present(tables, va, 4) /\ ~IsPage(tables, va, 3)
    <2>1. /\ MemoryPagingPagePresent(tables, va) = At(va, 4)
          /\ \A n \in 1..3 : Present(tables, va, n) /\ ~IsPage(tables, va, n)
      BY <1>6, PresentIs
    <2>2. tables[At(va, 4)] = Entry(va, {"rw"}, TRUE)
      <3> DEFINE x == At(va, 4)
      <3>1. x \in DOMAIN tables /\ x[1] = 4 /\ x[1] # 3 /\ x[2] = va
        BY <1>2, <1>6 DEF Present
      <3> HIDE DEF x
      <3>2. tables[x].page
        BY <3>1 DEF KernelTables
      <3>3. tables[x] = Entry(x[2], {"rw"}, TRUE) \/ x[1] = 3
        BY <3>1, <3>2 DEF KernelTables
      <3> QED BY <3>1, <3>3 DEF x
    <2>3. tables[At(va, 4)].frame = va /\ "rw" \in tables[At(va, 4)].flags
      BY <2>2 DEF Entry
    <2>4. Leads(tables, va) =
            [frame |-> va,
             flags |-> {f \in Flags : \A n \in 1..4 : f \in tables[At(va, n)].flags}]
      <3>1. Span(4) = 1 /\ va % 1 = 0 /\ va + 0 = va
        BY DEF Span
      <3> QED BY <1>1, <1>2, <2>1, <2>3, <3>1 DEF Leads
    <2>5. \A n \in 1..4 : "rw" \in tables[At(va, n)].flags
      <3>1. \A n \in 1..4 : n = 4 \/ n \in 1..3
        OBVIOUS
      <3> QED BY <1>3, <2>1, <2>3, <3>1
    <2> QED BY <1>4, <1>6, <2>4, <2>5
  <1> QED BY <1>5, <1>6 DEF Reached

\* The kernel can reach all the memory and the devices, at their own addresses, and can
\* write all of it but its code.
LEMMA KernelCanReach == KernelReaches
  <1> DEFINE len == Len(LargePages)
             devices == Len(DevicePages)
             tables == Booted.proc.tables
  <1>1. PICK k \in KernelRecords, f \in [0..len -> KernelRecords],
             g \in [0..len -> KernelRecords], h \in [0..devices -> KernelRecords] :
          /\ k.proc.tables = BootTables
          /\ f[0] = k /\ g[0] = f[len] /\ h[0] = g[len]
          /\ \A n \in 1..len : f[n] = Imitated(f[n - 1], LargePages[n], 3)
          /\ \A n \in 1..len :
               g[n] = ReadOnly(g[n - 1], LargePages[n], TextAddresses)
          /\ \A n \in 1..devices : h[n] = Imitated(h[n - 1], DevicePages[n], 4)
          /\ Booted = h[devices]
    BY BootedIs
  <1>2. /\ devices \in Nat /\ \A n \in 1..devices : DevicePages[n] \in Nat
        /\ Range(DevicePages) = {DevicePages[n] : n \in 1..devices}
    BY MemoryAssumption DEF Range
  <1>3. ~h[devices].lost
    BY <1>1, BootAssumption
  <1>4. ~h[0].lost
    <2> DEFINE S == {n \in 0..devices : h[0].lost => h[n].lost}
    <2>1. 0 \in S
      BY <1>2
    <2>2. ASSUME NEW n \in 1..devices, n - 1 \in S PROVE n \in S
      <3>1. h[n - 1] \in KernelRecords /\ DevicePages[n] \in Nat /\ 4 \in 3..4
        BY <1>2
      <3>2. h[n - 1].lost => h[n].lost
        BY <1>1, <3>1, StaysLost
      <3> QED BY <2>2, <3>2
    <2> HIDE DEF S
    <2>3. devices \in S
      <3>1. \A n \in 0..devices : n \in S
        BY <1>2, <2>1, <2>2, ReachesAll
      <3> QED BY <1>2, <3>1
    <2> QED BY <1>3, <2>3 DEF S
  <1> HIDE DEF tables
  <1>5. g[0] = f[len] /\ h[0] = g[len]
    BY <1>1
  <1>6. ASSUME f[len].lost PROVE FALSE
    <2>1. \A n \in 1..len : g[n - 1] \in KernelRecords => g[n].lost = g[n - 1].lost
      <3> SUFFICES ASSUME NEW n \in 1..len, g[n - 1] \in KernelRecords
                   PROVE  g[n].lost = g[n - 1].lost
        OBVIOUS
      <3>1. g[n] = ReadOnly(g[n - 1], LargePages[n], TextAddresses)
        BY <1>1
      <3> QED BY <3>1 DEF ReadOnly, KernelRecords
    <2> DEFINE S == {n \in 0..len : g[n].lost}
    <2>2. len \in Nat
      BY LargePagesAre
    <2>3. 0 \in S
      <3>1. 0 \in 0..len /\ g[0].lost
        BY <1>5, <1>6, <2>2
      <3> QED BY <3>1
    <2>4. ASSUME NEW n \in 1..len, n - 1 \in S PROVE n \in S
      <3>1. g[n - 1] \in KernelRecords
        BY <2>2, <2>4
      <3> QED BY <2>1, <2>2, <2>4, <3>1
    <2> HIDE DEF S
    <2>5. len \in S
      <3>1. \A n \in 0..len : n \in S
        BY <2>2, <2>3, <2>4, ReachesAll
      <3> QED BY <2>2, <3>1
    <2> QED BY <1>4, <1>5, <2>5 DEF S
  <1>7. KernelTables(f[len].proc.tables, {}) /\ AllLarge(f[len].proc.tables)
    BY <1>1, <1>6, LargePagesMade
  <1>8. KernelTables(g[len].proc.tables, CodeBelow(len)) /\ AllLarge(g[len].proc.tables)
    BY <1>1, <1>5, <1>7, CodeMadeReadOnly
  <1>9. /\ KernelTables(tables, CodeBelow(len)) /\ AllLarge(tables)
        /\ \A n \in 1..devices : Reached(tables, DevicePages[n])
    <2>1. KernelTables(h[0].proc.tables, CodeBelow(len)) /\ AllLarge(h[0].proc.tables)
      BY <1>5, <1>8
    <2>2. tables = h[devices].proc.tables
      BY <1>1 DEF tables
    <2> QED BY <1>1, <1>3, <2>1, <2>2, DevicesMade
  <1>10. TopPage \in Nat /\ TextPages \in SUBSET Nat /\ \A page \in TextPages : page < TopPage
    <2>1. /\ TopPage \in Nat /\ TextPages \subseteq KernelPages
          /\ KernelPages \subseteq 1..(FirstFrame - 1) /\ FirstFrame \in Nat /\ FrameCount \in Nat
          /\ TopPage >= FirstFrame + FrameCount
      BY MemoryAssumption
    <2> QED BY <2>1
  <1>11. ASSUME NEW page \in 0..TopPage
         PROVE  Up(page) \in 0..Up(TopPage) /\ IsPage(tables, page, 3)
    <2>1. page \in Nat /\ Up(page) \in Nat /\ Up(TopPage) \in Nat /\ Up(page) <= Up(TopPage)
      <3>1. page \in Nat /\ TopPage \in Nat /\ page <= TopPage
        BY ONLY <1>10
      <3> QED BY ONLY <3>1, UpNat, UpRises
    <2>2. IsPage(tables, Up(page) * FanOut, 3)
      BY <1>9, <2>1 DEF AllLarge
    <2>3. At(Up(page) * FanOut, 3) = At(page, 3)
      <3>1. Up(Up(page) * FanOut) = Up(page) /\ Up(page) * FanOut \in Nat
        BY <2>1, MultipleIs
      <3> QED BY <2>1, <3>1, AtLevels
    <2> QED BY <2>1, <2>2, <2>3 DEF IsPage, Present
  <1>12. ASSUME NEW page \in (0..TopPage) \cup Range(DevicePages)
         PROVE  page \in Nat /\ Reached(tables, page)
    <2>1. CASE page \in 0..TopPage
      BY <1>10, <1>11, <2>1 DEF Reached
    <2>2. CASE page \in Range(DevicePages)
      <3>1. PICK n \in 1..devices : page = DevicePages[n]
        BY <1>2, <2>2
      <3>2. Reached(tables, DevicePages[n])
        BY <1>9
      <3> QED BY <1>2, <3>1, <3>2
    <2> QED BY <2>1, <2>2
  <1>13. ASSUME NEW page \in Nat
         PROVE  page \in TextPages <=> IsPage(tables, page, 3) /\ Up(page) \in CodeBelow(len)
    <2>0. len = Up(TopPage) + 1 /\ Up(TopPage) \in Nat
      BY LargePagesAre
    <2>1. CASE page \in 0..TopPage
      <3>1. page \in TextPages <=> Up(page) \in TextIndices
        BY <2>1, BootAssumption DEF TextIndices
      <3>2. Up(page) \in Nat /\ Up(page) < len
        BY <1>11, <2>0, <2>1
      <3> QED BY <1>11, <2>1, <3>1, <3>2 DEF CodeBelow
    <2>2. CASE page \notin 0..TopPage
      <3>1. page \notin TextPages
        BY <1>10, <2>2
      <3>2. Up(page) \notin CodeBelow(len)
        <4> SUFFICES ASSUME Up(page) \in CodeBelow(len) PROVE FALSE
          OBVIOUS
        <4>0. TopPage <= page
          BY <1>10, <2>2
        <4>1. Up(TopPage) <= Up(page) /\ Up(page) \in Nat
          BY <1>10, <4>0, UpRises, UpNat
        <4>2. Up(page) < len /\ Up(page) \in TextIndices
          BY DEF CodeBelow
        <4>5. Up(TopPage) = Up(page)
          BY <2>0, <4>1, <4>2
        <4>3. Up(TopPage) \in TextIndices /\ TopPage \in 0..TopPage
          BY <1>10, <4>2, <4>5
        <4>4. TopPage \in TextPages
          BY <4>3, BootAssumption DEF TextIndices
        <4> QED BY <1>10, <4>4
      <3> QED BY <3>1, <3>2
    <2> QED BY <2>1, <2>2
  <1>14. ASSUME NEW page \in (0..TopPage) \cup Range(DevicePages)
         PROVE  /\ Leads(tables, page).frame = page
                /\ "rw" \in Leads(tables, page).flags <=> page \notin TextPages
    <2>1. /\ Leads(tables, page).frame = page
          /\ "rw" \in Leads(tables, page).flags <=>
               ~(IsPage(tables, page, 3) /\ Up(page) \in CodeBelow(len))
      BY <1>9, <1>12, KernelLeads
    <2> QED BY <1>12, <1>13, <2>1
  <1> QED BY <1>14 DEF KernelReaches, tables

-----------------------------------------------------------------------------
(* What the kernel does with processes.                                    *)

\* What holds of a process that has been made: its file is the kernel's.
Kept(o, proc) ==
  /\ proc.data \in Frames /\ o[proc.data] = "kernel"
  /\ HeapCounted(proc) /\ ArgumentsHeld(proc)

Whole(o, p, proc) ==
  /\ Private(o, p, proc.va, proc.tables)
  /\ proc.status = "none" => proc = NoProcess
  /\ proc.status \in {"running", "torn"} => Kept(o, proc)

MemoryOf(o, structs) ==
  /\ o \in [Frames -> Owners]
  /\ structs \in [Processes -> Structs]
  /\ \A p \in Processes : Whole(o, p, structs[p])

\* The kernel's pages that a process in this state has.
Needed(status) == IF status \in {"running", "torn"} THEN KernelPages ELSE {}

Mapped(proc) == Agrees(proc.va, proc.tables, Needed(proc.status))

\* The inductive invariant: who has which frame, and as long as no page table is lost,
\* what the page tables say.
MemoryInv ==
  /\ halted \in BOOLEAN /\ MemoryOf(owner, process)
  /\ ~halted => \A p \in Processes : Mapped(process[p])

\* The state that a kernel function begins with.
Now(p) == Before(owner, Needed(process[p].status))

LEMMA AgreesNothing == Agrees(<<>>, <<>>, {})
  <1>1. DOMAIN <<>> = {}
    OBVIOUS
  <1> QED BY <1>1 DEF Agrees, Passes, Tree, Present

LEMMA AgreesFewer ==
  ASSUME NEW va, NEW tables, NEW kernel, Agrees(va, tables, kernel), NEW fewer \in SUBSET kernel
  PROVE  Agrees(va, tables, fewer)
  BY DEF Agrees

\* Only frames that nobody keeps change hands.
Untouched(o, new) ==
  \A f \in Frames : o[f] \notin {"free", "kernel data"} => new[f] = o[f]

LEMMA WholeStays ==
  ASSUME NEW q \in Processes, NEW o, NEW new, Untouched(o, new), NEW proc, Whole(o, q, proc)
  PROVE  Whole(new, q, proc)
  <1>1. q \notin {"free", "kernel data"}
    BY MemoryAssumption DEF KernelOwners
  <1>2. \A f \in Frames : o[f] = q => new[f] = q
    BY <1>1 DEF Untouched
  <1>3. Private(new, q, proc.va, proc.tables)
    BY <1>2 DEF Whole, Private
  <1>4. proc.status \in {"running", "torn"} => Kept(new, proc)
    BY DEF Whole, Kept, Untouched
  <1> QED BY <1>3, <1>4 DEF Whole

\* What Finish does, as far as the memory is concerned.
LEMMA OneChanges ==
  ASSUME NEW o, NEW structs, MemoryOf(o, structs), NEW new \in [Frames -> Owners],
         Untouched(o, new), NEW p \in Processes, NEW proc \in Structs, Whole(new, p, proc)
  PROVE  MemoryOf(new, [structs EXCEPT ![p] = proc])
  <1> DEFINE changed == [structs EXCEPT ![p] = proc]
  <1>1. changed \in [Processes -> Structs] /\ changed[p] = proc
        /\ \A q \in Processes : q # p => changed[q] = structs[q]
    BY DEF MemoryOf
  <1> HIDE DEF changed
  <1>2. ASSUME NEW q \in Processes PROVE Whole(new, q, changed[q])
    <2>1. CASE q = p
      BY <1>1, <2>1
    <2>2. CASE q # p
      <3>1. Whole(o, q, structs[q])
        BY DEF MemoryOf
      <3>2. Whole(new, q, structs[q])
        BY <3>1, WholeStays
      <3> QED BY <1>1, <2>2, <3>2
    <2> QED BY <2>1, <2>2
  <1>3. MemoryOf(new, changed)
    BY <1>1, <1>2 DEF MemoryOf
  <1> QED BY <1>3 DEF changed

LEMMA NobodyChanges ==
  ASSUME NEW o, NEW structs, MemoryOf(o, structs), NEW new \in [Frames -> Owners],
         Untouched(o, new)
  PROVE  MemoryOf(new, structs)
  <1>1. ASSUME NEW q \in Processes PROVE Whole(new, q, structs[q])
    <2>1. Whole(o, q, structs[q])
      BY DEF MemoryOf
    <2> QED BY <2>1, WholeStays
  <1> QED BY <1>1 DEF MemoryOf

LEMMA GivenIsUntouched ==
  ASSUME NEW p, NEW o, NEW new, GivenTo(p, o, new) PROVE Untouched(o, new)
  BY DEF GivenTo, Untouched

\* A record that Finish ends with.
LEMMA FinishKeeps ==
  ASSUME MemoryInv, ~halted, NEW p \in Processes, NEW k \in Records,
         Untouched(owner, k.owner), Private(k.owner, p, k.proc.va, k.proc.tables),
         NEW status \in Statuses \ {"none"},
         status \in {"running", "torn"} => Kept(k.owner, k.proc),
         ~k.lost => Agrees(k.proc.va, k.proc.tables, Needed(status)), Finish(k, p, status)
  PROVE  MemoryInv'
  <1> DEFINE proc == [k.proc EXCEPT !.status = status]
  <1>1. k.owner \in [Frames -> Owners] /\ k.proc \in Structs
    BY DEF Records
  <1>2. proc \in Structs /\ proc.status = status /\ proc.va = k.proc.va
        /\ proc.tables = k.proc.tables /\ proc.data = k.proc.data
        /\ proc.heap_size = k.proc.heap_size /\ proc.init_ptr = k.proc.init_ptr
        /\ proc.args = k.proc.args
    BY <1>1 DEF Structs
  <1> HIDE DEF proc
  <1>3. Kept(k.owner, k.proc) => Kept(k.owner, proc)
    BY <1>2 DEF Kept, HeapCounted, HeapPages, ArgumentsHeld
  <1>4. Whole(k.owner, p, proc)
    BY <1>2, <1>3 DEF Whole
  <1>5. MemoryOf(k.owner, [process EXCEPT ![p] = proc])
    BY <1>1, <1>2, <1>4, OneChanges DEF MemoryInv
  <1>6. halted' \in BOOLEAN /\ owner' = k.owner /\ process' = [process EXCEPT ![p] = proc]
    BY DEF Finish, Records, proc
  <1>7. ASSUME ~halted', NEW q \in Processes PROVE Mapped(process'[q])
    <2>1. ~k.lost
      BY <1>7 DEF Finish
    <2>2. CASE q = p
      <3>1. process'[q] = proc
        BY <1>6, <2>2 DEF MemoryInv, MemoryOf
      <3> QED BY <1>2, <2>1, <3>1 DEF Mapped
    <2>3. CASE q # p
      <3>1. process'[q] = process[q]
        BY <1>6, <2>3 DEF MemoryInv, MemoryOf
      <3> QED BY <3>1 DEF MemoryInv
    <2> QED BY <2>2, <2>3
  <1> QED BY <1>5, <1>6, <1>7 DEF MemoryInv

\* The record that a kernel function begins with.
LEMMA KernelIs ==
  ASSUME MemoryInv, NEW p \in Processes
  PROVE  /\ Kernel(p) \in Fair(owner, p)
         /\ ~halted => Kernel(p) \in Good(Now(p), p)
         /\ Kernel(p).owner = owner /\ Kernel(p).proc = process[p] /\ Kernel(p).ok
         /\ Whole(owner, p, process[p])
  <1>1. owner \in [Frames -> Owners] /\ process[p] \in Structs /\ Whole(owner, p, process[p])
    BY DEF MemoryInv, MemoryOf
  <1>2. Kernel(p) \in Records
    BY <1>1 DEF Kernel, Records
  <1>3. GivenTo(p, owner, owner)
    BY DEF GivenTo
  <1>4. Kernel(p) \in Fair(owner, p)
    BY <1>1, <1>2, <1>3 DEF Kernel, Fair, Whole
  <1>5. ASSUME ~halted PROVE Kernel(p) \in Good(Now(p), p)
    <2>1. Mapped(process[p])
      BY <1>5 DEF MemoryInv
    <2> QED BY <1>4, <2>1 DEF Kernel, Good, Now, Before, Needed, Mapped
  <1> QED BY <1>1, <1>4, <1>5 DEF Kernel

LEMMA MemoryAtBoot == MemoryInit => MemoryInv
  <1> SUFFICES ASSUME MemoryInit PROVE MemoryInv
    OBVIOUS
  <1>1. owner \in [Frames -> Owners]
    BY BootedIn DEF MemoryInit, KernelRecords
  <1>2. process \in [Processes -> Structs] /\ \A p \in Processes : process[p] = NoProcess
    BY NoProcessIs DEF MemoryInit
  <1>3. DOMAIN <<>> = {}
    OBVIOUS
  <1>4. ASSUME NEW p \in Processes PROVE Whole(owner, p, process[p])
    BY <1>2, <1>3 DEF Whole, Private, NoProcess
  <1>5. ASSUME NEW p \in Processes PROVE Mapped(process[p])
    BY <1>2, AgreesNothing DEF Mapped, Needed, NoProcess
  <1> QED BY <1>1, <1>2, <1>4, <1>5 DEF MemoryOf, MemoryInv, MemoryInit

\* DispatcherProcessNewFromFormat, with a file in a frame that was free.  before is
\* what the frames were when the file had been read.
LEMMA FileStays ==
  ASSUME NEW p \in Processes, NEW o, NEW file \in Frames, o[file] = "free",
         NEW before, before = [o EXCEPT ![file] = "kernel"], DOMAIN o = Frames,
         NEW k \in Fair(before, p)
  PROVE  /\ k.owner[file] = "kernel"
         /\ Untouched(o, k.owner)
  <1>1. before[file] = "kernel" /\ \A f \in Frames : f # file => before[f] = o[f]
    OBVIOUS
  <1>2. GivenTo(p, before, k.owner)
    BY DEF Fair
  <1>3. k.owner[file] = "kernel"
    BY <1>1, <1>2 DEF GivenTo
  <1>4. Untouched(o, k.owner)
    BY <1>1, <1>2 DEF GivenTo, Untouched
  <1> QED BY <1>3, <1>4

LEMMA FreesFileKeeps ==
  ASSUME MemoryInv, ~halted, NEW p \in Processes, NEW file \in Frames, owner[file] = "free",
         NEW before, before = [owner EXCEPT ![file] = "kernel"],
         NEW k \in Good(Before(before, KernelPages), p),
         Finish(FreesFile(k, file), p, "lost")
  PROVE  MemoryInv'
  <1> DEFINE r == FreesFile(k, file)
  <1>1. DOMAIN owner = Frames
    BY DEF MemoryInv, MemoryOf
  <1>2. k.owner[file] = "kernel" /\ Untouched(owner, k.owner)
    <2>1. k \in Fair(before, p)
      BY DEF Good, Before
    <2> QED BY <1>1, <2>1, FileStays
  <1>3. k \in Records /\ Private(k.owner, p, k.proc.va, k.proc.tables)
    BY DEF Good, Fair
  <1>4. /\ r \in Records /\ r.proc = k.proc /\ r.lost = k.lost /\ r.owner[file] = "free"
        /\ \A f \in Frames : f # file => r.owner[f] = k.owner[f]
    BY <1>3 DEF FreesFile, Records, Owners, KernelOwners
  <1>10. Finish(r, p, "lost")
    OBVIOUS
  <1> HIDE DEF r
  <1>5. Untouched(owner, r.owner)
    BY <1>2, <1>4 DEF Untouched
  <1>6. p # "kernel"
    BY MemoryAssumption DEF KernelOwners
  <1>7. \A f \in Frames : k.owner[f] = p => r.owner[f] = p
    BY <1>2, <1>4, <1>6
  <1>8. Private(r.owner, p, r.proc.va, r.proc.tables)
    BY <1>3, <1>4, <1>7 DEF Private
  <1>9. "lost" \in Statuses \ {"none"} /\ "lost" \notin {"running", "torn"}
    BY DEF Statuses
  <1>11. ~r.lost => Agrees(r.proc.va, r.proc.tables, Needed("lost"))
    <2>1. ~k.lost => Agrees(k.proc.va, k.proc.tables, KernelPages)
      BY DEF Good, Before
    <2> QED BY <1>4, <2>1, AgreesFewer DEF Needed
  <1> QED BY <1>4, <1>5, <1>8, <1>9, <1>10, <1>11, FinishKeeps

\* What is loaded and what the stack takes leave the initialisation data and the heap
\* alone.
LEMMA MadeIsKept ==
  ASSUME NEW p \in Processes, NEW before, NEW k, NEW r \in PagesMade(before, p, k),
         HeapCounted(k.proc), ArgumentsHeld(k.proc)
  PROVE  HeapCounted(r.proc) /\ ArgumentsHeld(r.proc)
  BY DEF PagesMade, Extends, SameHeap, SameArguments, HeapCounted, ArgumentsHeld,
         LastMaySpill

LEMMA SetUpKeeps ==
  ASSUME MemoryInv, ~halted, NEW p \in Processes, NEW call \in Calls,
         NEW file \in Frames, owner[file] = "free",
         NEW o, o = [owner EXCEPT ![file] = "kernel"],
         NEW before, before = Before(o, KernelPages), NEW k \in Good(before, p), k.proc.data = file,
         HeapCounted(k.proc), ArgumentsHeld(k.proc), SetUp(p, call, file, k)
  PROVE  MemoryInv'
  <1> DEFINE loaded == DispatcherFormatElfSetUp(k, p, call.segments)
             whole == AndThen(loaded, LAMBDA s : DispatcherProcessSetUpStack(s, p))
  <1>1. call.segments \in Seq(Segments)
    BY MemoryAssumption DEF Segments
  <1>2. loaded \in PagesMade(before, p, k)
    BY <1>1, ElfGood
  <1>3. loaded \in Good(before, p)
    BY <1>2 DEF PagesMade
  <1>4. whole \in PagesMade(before, p, k)
    <2> HIDE DEF loaded
    <2>1. DispatcherProcessSetUpStack(loaded, p) \in PagesMade(before, p, loaded)
      BY <1>3, StackGood
    <2>2. DispatcherProcessSetUpStack(loaded, p) \in PagesMade(before, p, k)
      BY <1>2, <2>1, MadeTwice
    <2>3. whole = loaded \/ whole = DispatcherProcessSetUpStack(loaded, p)
      BY DEF AndThen
    <2> QED BY <1>2, <2>2, <2>3
  <1>5. whole \in Good(before, p)
    BY <1>4 DEF PagesMade
  <1>6. \/ UNCHANGED <<owner, process>> /\ halted' = TRUE
        \/ Finish(FreesFile(loaded, file), p, "lost")
        \/ Finish(FreesFile(whole, file), p, "lost")
        \/ Finish(whole, p, "running")
    BY DEF SetUp
  <1> HIDE DEF loaded, whole
  <1>7. CASE UNCHANGED <<owner, process>> /\ halted' = TRUE
    BY <1>7 DEF MemoryInv
  <1>8. CASE Finish(FreesFile(loaded, file), p, "lost")
    BY <1>3, <1>8, FreesFileKeeps
  <1>9. CASE Finish(FreesFile(whole, file), p, "lost")
    BY <1>5, <1>9, FreesFileKeeps
  <1>10. CASE Finish(whole, p, "running")
    <2>1. DOMAIN owner = Frames
      BY DEF MemoryInv, MemoryOf
    <2>2. whole.owner[file] = "kernel" /\ Untouched(owner, whole.owner)
      <3>1. whole \in Fair(o, p)
        BY <1>5 DEF Good, Before
      <3> QED BY ZenonT(30), <2>1, <3>1, FileStays
    <2>3. HeapCounted(whole.proc) /\ ArgumentsHeld(whole.proc)
      BY <1>4, MadeIsKept
    <2>4. whole.proc.data = file
      BY <1>4 DEF PagesMade, Extends
    <2>5. Kept(whole.owner, whole.proc)
      BY <2>2, <2>3, <2>4 DEF Kept
    <2>6. whole \in Records /\ Private(whole.owner, p, whole.proc.va, whole.proc.tables)
      BY <1>5 DEF Good, Fair
    <2>7. "running" \in Statuses \ {"none"}
      BY DEF Statuses
    <2>8. ~whole.lost => Agrees(whole.proc.va, whole.proc.tables, Needed("running"))
      BY <1>5 DEF Good, Before, Needed
    <2> QED BY <1>10, <2>2, <2>5, <2>6, <2>7, <2>8, FinishKeeps
  <1> QED BY <1>6, <1>7, <1>8, <1>9, <1>10

LEMMA StartKeeps ==
  ASSUME MemoryInv, NEW p \in Processes, NEW call \in Calls,
         DispatcherProcessNewFromFormat(p, call)
  PROVE  MemoryInv'
  <1> DEFINE file == Min(FreeFrames(owner))
             read == [Kernel(p) EXCEPT !.owner[file] = "kernel"]
             new == DispatcherProcessNew(read, p, call.sizes)
  <1>1. /\ Kernel(p) \in Fair(owner, p)
        /\ Kernel(p).owner = owner /\ Kernel(p).proc = process[p] /\ Kernel(p).ok
        /\ Whole(owner, p, process[p])
    BY KernelIs
  <1>2. process[p] = NoProcess /\ FreeFrames(owner) # {} /\ ~halted
    BY <1>1 DEF DispatcherProcessNewFromFormat, Whole
  <1>3. file \in Frames /\ owner[file] = "free"
    BY <1>2, LeastFree
  <1>4. owner \in [Frames -> Owners]
    BY DEF MemoryInv, MemoryOf
  <1>5. \/ /\ owner' = read.owner /\ UNCHANGED halted
           /\ process' = [process EXCEPT ![p].status = "refused"]
        \/ new.ok /\ SetUp(p, call, file, [new EXCEPT !.proc.data = file])
        \/ ~new.ok /\ Finish(FreesFile(new, file), p, "lost")
    BY DEF DispatcherProcessNewFromFormat
  <1> HIDE DEF file
  <1>6. read \in Records /\ read.owner = [owner EXCEPT ![file] = "kernel"]
        /\ read.proc = NoProcess /\ read.ok
    BY <1>1, <1>2, <1>3 DEF Fair, Records, Owners, KernelOwners
  <1>7. read \in Fair(read.owner, p)
    <2>1. GivenTo(p, read.owner, read.owner)
      BY DEF GivenTo
    <2>2. DOMAIN <<>> = {}
      OBVIOUS
    <2>3. Private(read.owner, p, read.proc.va, read.proc.tables)
      BY <1>6, <2>2 DEF Private, NoProcess
    <2> QED BY <1>6, <2>1, <2>3 DEF Fair
  <1>8. call.sizes \in Seq(Nat \ {0})
    BY MemoryAssumption
  <1> HIDE DEF read
  <1>9. new \in NewProcess(Before(read.owner, KernelPages), p, read)
    BY <1>6, <1>7, <1>8, ProcessNewGood
  <1> HIDE DEF new
  <1>10. new \in Good(Before(read.owner, KernelPages), p)
    BY <1>9 DEF NewProcess
  <1>11. CASE /\ owner' = read.owner /\ UNCHANGED halted
              /\ process' = [process EXCEPT ![p].status = "refused"]
    <2>1. Untouched(owner, read.owner)
      BY <1>3, <1>4, <1>6, <1>7, FileStays
    <2>2. "refused" \in Statuses \ {"none"} /\ "refused" \notin {"running", "torn"}
      BY DEF Statuses
    <2>3. Private(read.owner, p, read.proc.va, read.proc.tables)
      BY <1>7 DEF Fair
    <2>4. /\ read.lost \in BOOLEAN
          /\ process' = [process EXCEPT ![p] = [read.proc EXCEPT !.status = "refused"]]
      BY <1>2, <1>6, <1>11 DEF Records
    <2>5. MemoryOf(read.owner, [process EXCEPT ![p] = [read.proc EXCEPT !.status = "refused"]])
      <3>1. [read.proc EXCEPT !.status = "refused"] \in Structs
        BY <1>6, <2>2, NoProcessIs DEF Structs
      <3>2. Whole(read.owner, p, [read.proc EXCEPT !.status = "refused"])
        BY <1>6, <2>2, <2>3 DEF Whole, NoProcess
      <3>3. read.owner \in [Frames -> Owners]
        BY <1>6 DEF Records
      <3> QED BY <2>1, <3>1, <3>2, <3>3, OneChanges DEF MemoryInv
    <2>6. ASSUME NEW q \in Processes PROVE Mapped(process'[q])
      <3>1. CASE q = p
        <4>1. process'[q] = [read.proc EXCEPT !.status = "refused"]
          BY <2>4, <3>1 DEF MemoryInv, MemoryOf
        <4> QED BY <1>6, <4>1, AgreesNothing DEF Mapped, Needed, NoProcess
      <3>2. CASE q # p
        <4>1. process'[q] = process[q]
          BY <2>4, <3>2 DEF MemoryInv, MemoryOf
        <4> QED BY <1>2, <4>1 DEF MemoryInv
      <3> QED BY <3>1, <3>2
    <2> QED BY <1>11, <2>4, <2>5, <2>6 DEF MemoryInv
  <1>12. CASE ~new.ok /\ Finish(FreesFile(new, file), p, "lost")
    BY <1>2, <1>3, <1>6, <1>10, <1>12, FreesFileKeeps
  <1>13. CASE new.ok /\ SetUp(p, call, file, [new EXCEPT !.proc.data = file])
    <2> DEFINE k == [new EXCEPT !.proc.data = file]
    <2>1. new \in Records /\ HeapCounted(new.proc) /\ ArgumentsHeld(new.proc)
      BY <1>9, <1>13 DEF NewProcess, Good, Fair
    <2>2. /\ k \in Records /\ k.owner = new.owner /\ k.lost = new.lost
          /\ k.proc.va = new.proc.va /\ k.proc.tables = new.proc.tables
          /\ k.proc.heap_size = new.proc.heap_size /\ k.proc.init_ptr = new.proc.init_ptr
          /\ k.proc.args = new.proc.args /\ k.proc.data = file
      BY <1>3, <2>1 DEF Records, Structs
    <2> HIDE DEF k
    <2>3. k \in Good(Before(read.owner, KernelPages), p)
      BY <1>10, <2>2 DEF Good, Fair
    <2>4. HeapCounted(k.proc) /\ ArgumentsHeld(k.proc)
      BY <2>1, <2>2 DEF HeapCounted, HeapPages, ArgumentsHeld
    <2>5. SetUp(p, call, file, k)
      BY <1>13 DEF k
    <2> QED BY <1>2, <1>3, <1>6, <2>2, <2>3, <2>4, <2>5, SetUpKeeps
  <1> QED BY <1>5, <1>11, <1>12, <1>13

\* The processes that end leave their frames behind.
LEMMA EndKeeps ==
  ASSUME MemoryInv, ~halted, NEW p \in Processes, NEW k \in Records,
         Untouched(owner, k.owner), Finish(End(k), p, "ended")
  PROVE  MemoryInv'
  <1> DEFINE r == End(k)
  <1>1. <<>> \in Partial(Pages, Places) /\ <<>> \in Partial(Names, Entries)
    BY EmptyIsPartial
  <1>2. r \in Records /\ r.owner = k.owner /\ r.proc.va = <<>> /\ r.proc.tables = <<>>
    BY <1>1 DEF End, Records, Structs
  <1>3. DOMAIN <<>> = {}
    OBVIOUS
  <1>6. Finish(r, p, "ended")
    OBVIOUS
  <1> HIDE DEF r
  <1>4. Private(r.owner, p, r.proc.va, r.proc.tables)
    BY <1>2, <1>3 DEF Private
  <1>5. "ended" \in Statuses \ {"none"} /\ "ended" \notin {"running", "torn"}
    BY DEF Statuses
  <1>7. Agrees(r.proc.va, r.proc.tables, Needed("ended"))
    BY <1>2, AgreesNothing DEF Needed
  <1> QED BY <1>2, <1>4, <1>5, <1>6, <1>7, FinishKeeps

\* A process that asks for pages, or for none, keeps what it has.
Asked(before, p, k, r) ==
  /\ r \in Good(before, p)
  /\ Kept(before.owner, k.proc) => Kept(r.owner, r.proc)

LEMMA AskedIs ==
  ASSUME NEW p \in Processes, NEW before, NEW k \in Good(before, p),
         Kept(before.owner, k.proc), NEW count \in Nat
  PROVE  Asked(before, p, k, KernelFunctionNewPage(k, p, count))
  <1> DEFINE r == KernelFunctionNewPage(k, p, count)
  <1>1. r \in HeapMade(before, p, k)
    BY NewPageGood DEF Kept
  <1> HIDE DEF r
  <1>2. r \in Good(before, p) /\ Extends(k, r) /\ SameArguments(k, r)
    BY <1>1 DEF HeapMade
  <1>3. ASSUME Kept(before.owner, k.proc) PROVE Kept(r.owner, r.proc)
    <2>1. r.proc.data = k.proc.data
      BY <1>2 DEF Extends
    <2>2. r.owner[r.proc.data] = "kernel" /\ r.proc.data \in Frames
      BY <1>2, <1>3, <2>1 DEF Kept, Good, Fair, GivenTo
    <2>3. HeapCounted(r.proc)
      BY <1>1, <1>3 DEF Kept, HeapMade
    <2>4. ArgumentsHeld(r.proc)
      BY <1>2, <1>3 DEF Kept, Extends, SameArguments, ArgumentsHeld, LastMaySpill
    <2> QED BY <2>2, <2>3, <2>4 DEF Kept
  <1>4. Asked(before, p, k, r)
    BY <1>2, <1>3 DEF Asked
  <1> QED BY <1>4 DEF r

LEMMA AskedKeeps ==
  ASSUME MemoryInv, ~halted, NEW p \in Processes,
         process[p].status \in {"running", "torn"}, NEW k, Asked(Now(p), p, Kernel(p), k),
         Finish(k, p, "running") \/ Finish(k, p, "torn") \/ Finish(End(k), p, "ended")
  PROVE  MemoryInv'
  <1>1. Kernel(p).proc = process[p] /\ Whole(owner, p, process[p])
    BY KernelIs
  <1>2. Kept(owner, process[p])
    BY <1>1 DEF Whole
  <1>3. Kept(k.owner, k.proc)
    BY <1>1, <1>2 DEF Asked, Now, Before
  <1>4. /\ k \in Records /\ GivenTo(p, owner, k.owner)
        /\ Private(k.owner, p, k.proc.va, k.proc.tables)
        /\ ~k.lost => Agrees(k.proc.va, k.proc.tables, KernelPages)
    BY DEF Asked, Good, Fair, Now, Before, Needed
  <1>5. Untouched(owner, k.owner)
    BY <1>4, GivenIsUntouched
  <1>6. CASE Finish(k, p, "running")
    <2>1. "running" \in Statuses \ {"none"}
      BY DEF Statuses
    <2> QED BY <1>3, <1>4, <1>5, <1>6, <2>1, FinishKeeps DEF Needed
  <1>7. CASE Finish(k, p, "torn")
    <2>1. "torn" \in Statuses \ {"none"}
      BY DEF Statuses
    <2> QED BY <1>3, <1>4, <1>5, <1>7, <2>1, FinishKeeps DEF Needed
  <1>8. CASE Finish(End(k), p, "ended")
    BY <1>4, <1>5, <1>8, EndKeeps
  <1> QED BY <1>6, <1>7, <1>8

\* The record with which malloc answers.
LEMMA MallocAsks ==
  ASSUME MemoryInv, ~halted, NEW p \in Processes,
         process[p].status \in {"running", "torn"}, NEW size \in Nat
  PROVE  Asked(Now(p), p, Kernel(p), malloc(p, size).k)
  <1> DEFINE k == KernelFunctionNewPage(Kernel(p), p, size)
  <1>1. /\ Kernel(p) \in Good(Now(p), p) /\ Kernel(p).proc = process[p] /\ Kernel(p).owner = owner
        /\ Kept(Now(p).owner, Kernel(p).proc)
    BY KernelIs DEF Whole, Now, Before
  <1>2. Asked(Now(p), p, Kernel(p), k)
    BY <1>1, AskedIs
  <1> HIDE DEF k
  <1>3. Asked(Now(p), p, Kernel(p), Kernel(p))
    BY <1>1 DEF Asked, Now, Before
  <1>4. malloc(p, size).k = Kernel(p) \/ malloc(p, size).k = k
    BY DEF malloc, TakeFirst, Answer, k
  <1> QED BY <1>2, <1>3, <1>4

LEMMA MemoryKept == MemoryInv /\ [Next]_vars => MemoryInv'
  <1> SUFFICES ASSUME MemoryInv, [Next]_vars
               PROVE  MemoryInv'
    OBVIOUS
  <1>0. /\ ~halted => \A p \in Processes : Mapped(process[p])
        /\ halted \in BOOLEAN /\ owner \in [Frames -> Owners] /\ MemoryOf(owner, process)
    BY DEF MemoryInv, MemoryOf
  <1>1. ASSUME NEW p \in Processes, Start(p) PROVE MemoryInv'
    BY <1>1, StartKeeps DEF Start
  <1>2. ASSUME NEW p \in Processes, Exit(p) PROVE MemoryInv'
    <2>1. ~halted /\ process[p].status \in {"running", "torn"}
      BY <1>2 DEF Exit
    <2>3. Asked(Now(p), p, Kernel(p), Kernel(p))
      BY <2>1, KernelIs DEF Asked, Whole
    <2>2. process[p].status \in {"running", "torn"} /\ Finish(End(Kernel(p)), p, "ended")
      BY <1>2 DEF Exit, EndWith
    <2> QED BY <2>1, <2>2, <2>3, AskedKeeps
  <1>3. ASSUME NEW p \in Processes, Torn(p) PROVE MemoryInv'
    <2>1. /\ ~halted /\ process[p].status \in {"running", "torn"}
          /\ \E size \in Sizes : Finish(KernelFunctionNewPage(Kernel(p), p, size), p, "torn")
      BY <1>3 DEF Torn
    <2>2. PICK size \in Sizes : Finish(KernelFunctionNewPage(Kernel(p), p, size), p, "torn")
      BY <2>1
    <2>3. /\ size \in Nat /\ Kernel(p) \in Good(Now(p), p)
          /\ Kept(Now(p).owner, Kernel(p).proc)
      BY <2>1, HeapAssumption, KernelIs DEF Whole, Now, Before
    <2> DEFINE r == KernelFunctionNewPage(Kernel(p), p, size)
    <2>4. Asked(Now(p), p, Kernel(p), r)
      BY <2>3, AskedIs
    <2>5. Finish(r, p, "torn")
      BY <2>2
    <2> HIDE DEF r
    <2> QED BY <2>1, <2>4, <2>5, AskedKeeps
  <1>4. ASSUME NEW p \in Processes, NEW x \in Pointers, NEW size \in Sizes,
               Malloc(p, x, size) \/ Realloc(p, x, size)
        PROVE  MemoryInv'
    <2> DEFINE r == malloc(p, size)
    <2>1. /\ ~halted /\ process[p].status \in {"running", "torn"}
          /\ \/ Finish(r.k, p, "running")
             \/ Finish(r.k, p, "torn")
             \/ Finish(End(r.k), p, "ended")
      BY <1>4 DEF Malloc, Realloc, Otherwise, EndWith, Running
    <2>2. size \in Nat
      BY HeapAssumption
    <2>3. Asked(Now(p), p, Kernel(p), r.k)
      BY <2>1, <2>2, MallocAsks
    <2> DEFINE k == r.k
    <2>4. Asked(Now(p), p, Kernel(p), k) /\ ~halted /\ process[p].status \in {"running", "torn"}
      BY <2>1, <2>3
    <2>5. Finish(k, p, "running") \/ Finish(k, p, "torn") \/ Finish(End(k), p, "ended")
      BY <2>1
    <2> HIDE DEF k
    <2> QED BY <2>4, <2>5, AskedKeeps
  <1>5. ASSUME NEW p \in Processes, NEW x \in Pointers, Free(p, x)
        PROVE  MemoryInv'
    BY <1>0, <1>5 DEF Free, MemoryInv
  <1>6. CASE KernelTakes
    <2>1. FreeFrames(owner) # {} /\ process' = process /\ halted' = halted
          /\ owner' = [owner EXCEPT ![Min(FreeFrames(owner))] = "kernel data"]
      BY <1>6 DEF KernelTakes
    <2>2. owner[Min(FreeFrames(owner))] = "free" /\ Min(FreeFrames(owner)) \in Frames
      BY <2>1, LeastFree
    <2>3. owner' \in [Frames -> Owners] /\ Untouched(owner, owner')
      BY <1>0, <2>1, <2>2 DEF Untouched, Owners, KernelOwners
    <2> QED BY <1>0, <2>1, <2>3, NobodyChanges DEF MemoryInv
  <1>7. CASE KernelReturns
    <2>1. PICK f \in Frames : owner[f] = "kernel data" /\ owner' = [owner EXCEPT ![f] = "free"]
      BY <1>7 DEF KernelReturns
    <2>2. owner' \in [Frames -> Owners] /\ Untouched(owner, owner') /\ process' = process
          /\ halted' = halted
      BY <1>0, <1>7, <2>1 DEF Untouched, Owners, KernelOwners, KernelReturns
    <2> QED BY <1>0, <2>2, NobodyChanges DEF MemoryInv
  <1>8. CASE UNCHANGED vars
    BY <1>0, <1>8 DEF vars, MemoryInv
  <1> QED BY <1>1, <1>2, <1>3, <1>4, <1>5, <1>6, <1>7, <1>8 DEF Next

LEMMA MemoryAlways == Spec => []MemoryInv
  <1>1. Init => MemoryInv
    BY MemoryAtBoot DEF Init
  <1>2. MemoryInv /\ [Next]_vars => MemoryInv'
    BY MemoryKept
  <1> QED BY <1>1, <1>2, PTL DEF Spec


-----------------------------------------------------------------------------
(* The blocks of a heap.                                                   *)

Blocks == [size : Int, used : BOOLEAN]

\* e is where the blocks end.
Ending(blocks, e) ==
  /\ e \in [0..Len(blocks) -> Int]
  /\ e[0] = 0
  /\ \A n \in 1..Len(blocks) : e[n] = e[n - 1] + HeaderSize + blocks[n].size

LEMMA HeaderIs == HeaderSize \in Nat \ {0} /\ PageSize \in Nat \ {0} /\ HeaderSize < PageSize
  BY HeapAssumption, MemoryAssumption

LEMMA EndsIs == ASSUME NEW blocks \in Seq(Blocks) PROVE Ending(blocks, Ends(blocks))
  <1> DEFINE len == Len(blocks)
             G == [n \in 1..len |-> [s \in Int |-> s + HeaderSize + blocks[n].size]]
             f == CHOOSE g : g = [n \in 0..len |->
                    IF n = 0 THEN 0 ELSE g[n - 1] + HeaderSize + blocks[n].size]
  <1>1. len \in Nat /\ HeaderSize \in Int
    BY HeaderIs
  <1>2. \A n \in 1..len : blocks[n].size \in Int
    <2> TAKE n \in 1..len
    <2>1. blocks[n] \in Blocks
      OBVIOUS
    <2> QED BY <2>1 DEF Blocks
  <1>3. Ends(blocks) = f
    BY DEF Ends
  <1> HIDE DEF len
  <1>4. \A n \in 1..len : \A s \in Int : s + HeaderSize + blocks[n].size \in Int
    BY <1>1, <1>2
  <1>5. G \in [1..len -> [Int -> Int]]
    BY <1>4
  <1>6. \A n \in 1..len : \A s \in Int : G[n][s] = s + HeaderSize + blocks[n].size
    OBVIOUS
  <1> HIDE DEF G
  <1>7. PICK g \in [0..len -> Int] : g[0] = 0 /\ \A n \in 1..len : g[n] = G[n][g[n - 1]]
    <2>0. 0 \in Int
      OBVIOUS
    <2>1. Runs(Int, 0, len, G) # {}
      BY <1>1, <1>5, <2>0, CanBeRun
    <2> QED BY <2>1 DEF Runs
  <1>8. \A n \in 1..len : g[n] = g[n - 1] + HeaderSize + blocks[n].size
    <2> TAKE n \in 1..len
    <2>1. g[n - 1] \in Int
      BY <1>1, <1>7
    <2> QED BY <2>1, <1>6, <1>7
  <1>9. g = [n \in 0..len |-> IF n = 0 THEN 0 ELSE g[n - 1] + HeaderSize + blocks[n].size]
    BY <1>1, <1>7, <1>8
  <1>10. f = [n \in 0..len |-> IF n = 0 THEN 0 ELSE f[n - 1] + HeaderSize + blocks[n].size]
    BY <1>9
  <1> HIDE DEF f
  <1>11. f[0] = 0 /\ \A n \in 1..len : f[n] = f[n - 1] + HeaderSize + blocks[n].size
    BY <1>1, <1>10
  <1>12. \A n \in 0..len : f[n] \in Int
    <2> TAKE n \in 0..len
    <2>1. n \in Nat /\ \A m \in 1..n : f[m - 1] \in Int => f[m] \in Int
      <3>1. n \in Nat /\ \A m \in 1..n : m \in 1..len
        BY <1>1
      <3>2. \A m \in 1..len : f[m - 1] \in Int => f[m] \in Int
        BY <1>4, <1>11
      <3> QED BY <3>1, <3>2
    <2>2. f[0] \in Int
      BY <1>11
    <2> QED BY <2>1, <2>2, KeptToTheEnd
  <1>13. f \in [0..len -> Int]
    BY <1>10, <1>12
  <1> QED BY <1>3, <1>11, <1>13 DEF Ending, len

\* Where blocks end is one thing.
LEMMA OneEnding ==
  ASSUME NEW blocks \in Seq(Blocks), NEW e, Ending(blocks, e)
  PROVE  Ends(blocks) = e
  <1> DEFINE f == Ends(blocks)
             len == Len(blocks)
             Same == {n \in 0..len : f[n] = e[n]}
  <1>1. Ending(blocks, f) /\ len \in Nat
    BY EndsIs
  <1> HIDE DEF f
  <1>2. \A n \in 0..len : n \in Same
    <2> TAKE n \in 0..len
    <2> DEFINE h == [m \in 0..n |-> m]
    <2>1. n \in Nat /\ h[0] = 0 /\ h[n] = n
      BY <1>1
    <2>2. 0 \in Same
      BY <1>1 DEF Ending
    <2>3. \A m \in 1..n : m - 1 \in Same => m \in Same
      <3> SUFFICES ASSUME NEW m \in 1..n, m - 1 \in Same PROVE m \in Same
        OBVIOUS
      <3>1. m \in 1..len /\ f[m - 1] = e[m - 1]
        BY <1>1
      <3>2. f[m] = e[m]
        BY <1>1, <3>1 DEF Ending
      <3> QED BY <3>1, <3>2
    <2>4. \A m \in 1..n : h[m - 1] \in Same => h[m] \in Same
      BY <2>1, <2>3
    <2> HIDE DEF h, Same
    <2>5. h[n] \in Same
      BY <2>1, <2>2, <2>4, KeptToTheEnd
    <2> QED BY <2>1, <2>5
  <1>3. f = e
    BY <1>1, <1>2 DEF Ending
  <1> QED BY <1>3 DEF f

\* A block takes some bytes together with its header, even when its size has wrapped
\* below 0.
Sound(blocks) ==
  /\ blocks \in Seq(Blocks)
  /\ \A n \in 1..Len(blocks) : blocks[n].size + HeaderSize > 0

\* A block ends before the next ones begin.
LEMMA EndsRise ==
  ASSUME NEW blocks, Sound(blocks), NEW j \in 0..Len(blocks), NEW i \in 0..j
  PROVE  Ends(blocks)[i] <= Ends(blocks)[j] /\ (i < j => Ends(blocks)[i] < Ends(blocks)[j])
  <1> DEFINE e == Ends(blocks)
             len == Len(blocks)
  <1>1. Ending(blocks, e) /\ len \in Nat
    BY EndsIs DEF Sound
  <1>2. \A n \in 1..len : e[n - 1] < e[n]
    <2> TAKE n \in 1..len
    <2>1. blocks[n] \in Blocks /\ blocks[n].size + HeaderSize > 0
      BY DEF Sound
    <2>2. e[n] = e[n - 1] + HeaderSize + blocks[n].size /\ e[n - 1] \in Int
      BY <1>1 DEF Ending
    <2>3. blocks[n].size \in Int /\ HeaderSize \in Int
      BY <2>1, HeaderIs DEF Blocks
    <2> HIDE DEF e
    <2> QED BY <2>1, <2>2, <2>3
  <1>3. \A n \in 0..len : e[n] \in Int
    BY <1>1 DEF Ending
  <1> HIDE DEF e
  <1> DEFINE After == {n \in i..len : e[i] <= e[n] /\ (i < n => e[i] < e[n])}
             h == [m \in 0..(j - i) |-> i + m]
  <1>4. j - i \in Nat /\ h[0] = i /\ h[j - i] = j
    BY <1>1
  <1>5. i \in After
    BY <1>1, <1>3
  <1>6. \A m \in 1..(j - i) : h[m - 1] \in After => h[m] \in After
    <2> SUFFICES ASSUME NEW m \in 1..(j - i), h[m - 1] \in After PROVE h[m] \in After
      OBVIOUS
    <2>1. h[m - 1] = i + m - 1 /\ h[m] = i + m
      BY <1>4
    <2>2. i + m \in 1..len /\ i + m - 1 \in 0..len /\ i + m \in i..len
      BY <1>1
    <2>3. e[i + m - 1] < e[i + m]
      BY <1>2, <2>2
    <2>4. e[i] <= e[i + m - 1]
      BY <2>1
    <2>5. e[i] < e[i + m]
      <3>1. e[i] \in Int /\ e[i + m - 1] \in Int /\ e[i + m] \in Int
        BY <1>1, <1>3, <2>2
      <3> QED BY <2>3, <2>4, <3>1
    <2>6. e[i] <= e[i + m]
      <3>1. e[i] \in Int /\ e[i + m] \in Int
        BY <1>1, <1>3, <2>2
      <3> QED BY <2>5, <3>1
    <2> QED BY <2>1, <2>2, <2>5, <2>6
  <1> HIDE DEF h, After
  <1>7. h[j - i] \in After
    BY <1>4, <1>5, <1>6, KeptToTheEnd
  <1>8. j \in After
    BY <1>4, <1>7
  <1> QED BY <1>8 DEF After, e

LEMMA BlockIn ==
  ASSUME NEW blocks \in Seq(Blocks), NEW i \in 1..Len(blocks)
  PROVE  blocks[i] \in Blocks /\ blocks[i].size \in Int /\ blocks[i].used \in BOOLEAN
  <1>1. blocks[i] \in Blocks
    OBVIOUS
  <1> QED BY <1>1 DEF Blocks

\* Marking blocks moves none.
LEMMA SameSizes ==
  ASSUME NEW blocks, Sound(blocks), NEW new \in Seq(Blocks), Len(new) = Len(blocks),
         \A n \in 1..Len(blocks) : new[n].size = blocks[n].size
  PROVE  Sound(new) /\ Ends(new) = Ends(blocks) /\ Extent(new) = Extent(blocks)
  <1>1. Ending(blocks, Ends(blocks))
    BY EndsIs DEF Sound
  <1>2. Ending(new, Ends(blocks))
    BY <1>1 DEF Ending
  <1>3. Ends(new) = Ends(blocks)
    BY <1>2, OneEnding
  <1>4. Sound(new)
    BY DEF Sound
  <1> QED BY <1>3, <1>4 DEF Extent

Used(blocks) == {i \in 1..Len(blocks) : blocks[i].used}

At_(blocks, i) == [at |-> AddressOf(blocks, i), size |-> blocks[i].size]

\* The blocks in use.
InUse(blocks) == {At_(blocks, i) : i \in Used(blocks)}

\* Different blocks have different addresses.
LEMMA AddressesDiffer ==
  ASSUME NEW blocks, Sound(blocks), NEW i \in 1..Len(blocks), NEW j \in 1..Len(blocks), i < j
  PROVE  /\ AddressOf(blocks, i) \in Nat /\ AddressOf(blocks, j) \in Nat
         /\ AddressOf(blocks, i) > 0
         /\ AddressOf(blocks, i) + blocks[i].size < AddressOf(blocks, j)
         /\ AddressOf(blocks, i) # AddressOf(blocks, j)
  <1> DEFINE e == Ends(blocks)
  <1>1. Ending(blocks, e) /\ Len(blocks) \in Nat /\ HeaderSize \in Nat \ {0}
    BY EndsIs, HeaderIs DEF Sound
  <1>2. i - 1 \in 0..Len(blocks) /\ j - 1 \in 0..Len(blocks) /\ i \in 0..(j - 1)
        /\ i - 1 \in 0..(j - 1) /\ i - 1 < j - 1 /\ 0 \in 0..(i - 1) /\ 0 \in 0..(j - 1)
    BY <1>1
  <1>3. e[i - 1] < e[j - 1] /\ e[i] <= e[j - 1] /\ 0 <= e[i - 1]
    BY <1>1, <1>2, EndsRise DEF Ending
  <1>4. e[i] = e[i - 1] + HeaderSize + blocks[i].size
    BY <1>1 DEF Ending
  <1>5. e[i - 1] \in Int /\ e[j - 1] \in Int /\ e[i] \in Int
    <2>1. \A n \in 0..Len(blocks) : e[n] \in Int
      BY <1>1 DEF Ending
    <2>2. i \in 0..Len(blocks)
      BY <1>1
    <2> HIDE DEF e
    <2> QED BY <1>2, <2>1, <2>2
  <1>6. AddressOf(blocks, i) = e[i - 1] + HeaderSize /\ AddressOf(blocks, j) = e[j - 1] + HeaderSize
    BY DEF AddressOf
  <1>7. blocks[i].size \in Int
    BY BlockIn DEF Sound
  <1> HIDE DEF e
  <1> QED BY SMTT(30), <1>1, <1>3, <1>4, <1>5, <1>6, <1>7

LEMMA AddressIn ==
  ASSUME NEW blocks, Sound(blocks), NEW i \in 1..Len(blocks)
  PROVE  /\ AddressOf(blocks, i) \in Nat /\ AddressOf(blocks, i) > 0
         /\ AddressOf(blocks, i) + blocks[i].size <= Extent(blocks)
  <1> DEFINE e == Ends(blocks)
             len == Len(blocks)
  <1>1. Ending(blocks, e) /\ len \in Nat /\ HeaderSize \in Nat \ {0}
    BY EndsIs, HeaderIs DEF Sound
  <1>2. i - 1 \in 0..len /\ i \in 0..len /\ 0 \in 0..(i - 1) /\ len \in 0..len
    BY <1>1
  <1>3. 0 <= e[i - 1] /\ e[i] <= e[len]
    BY <1>1, <1>2, EndsRise DEF Ending
  <1>4. e[i] = e[i - 1] + HeaderSize + blocks[i].size
    BY <1>1 DEF Ending
  <1>5. e[i - 1] \in Int /\ e[len] \in Int /\ e[i] \in Int
    BY <1>1, <1>2 DEF Ending
  <1>6. AddressOf(blocks, i) = e[i - 1] + HeaderSize /\ Extent(blocks) = e[len]
    BY DEF AddressOf, Extent
  <1>7. blocks[i].size \in Int
    BY BlockIn DEF Sound
  <1> HIDE DEF e, len
  <1> QED BY <1>1, <1>3, <1>4, <1>5, <1>6, <1>7

\* What taking a block for some bytes at an address leads to.
TakenAs(blocks, new, at, size) ==
  /\ Sound(new) /\ Extent(new) = Extent(blocks)
  /\ \A u \in InUse(blocks) : u.at # at
  /\ \E s \in Int : s >= size /\ InUse(new) = InUse(blocks) \cup {[at |-> at, size |-> s]}

LEMMA MarkGood ==
  ASSUME NEW blocks, Sound(blocks), NEW i \in 1..Len(blocks), ~blocks[i].used,
         NEW size \in Nat, blocks[i].size >= size
  PROVE  TakenAs(blocks, [blocks EXCEPT ![i].used = TRUE], AddressOf(blocks, i), size)
  <1> DEFINE new == [blocks EXCEPT ![i].used = TRUE]
             at == AddressOf(blocks, i)
  <1>0. blocks \in Seq(Blocks) /\ Len(blocks) \in Nat
    BY DEF Sound
  <1>1. \A n \in 1..Len(blocks) : blocks[n] \in Blocks /\ [blocks[i] EXCEPT !.used = TRUE] \in Blocks
    BY <1>0, BlockIn DEF Blocks
  <1>2. new \in Seq(Blocks) /\ Len(new) = Len(blocks)
        /\ new[i] = [blocks[i] EXCEPT !.used = TRUE]
        /\ \A n \in 1..Len(blocks) : n # i => new[n] = blocks[n]
    <2> DEFINE b == [blocks[i] EXCEPT !.used = TRUE]
    <2>1. new = [blocks EXCEPT ![i] = b]
      OBVIOUS
    <2>2. b \in Blocks
      BY <1>1
    <2> HIDE DEF b, new
    <2>3. new \in Seq(Blocks)
      BY <1>0, <2>1, <2>2
    <2>4. Len(new) = Len(blocks)
      BY <1>0, <2>1
    <2>5. new[i] = b
      BY <1>0, <2>1
    <2>6. \A n \in 1..Len(blocks) : n # i => new[n] = blocks[n]
      BY <1>0, <2>1
    <2> QED BY <2>3, <2>4, <2>5, <2>6 DEF b
  <1> HIDE DEF new
  <1>3. new[i].size = blocks[i].size /\ new[i].used
    BY <1>1, <1>2 DEF Blocks
  <1>4. \A n \in 1..Len(blocks) : new[n].size = blocks[n].size
    BY <1>2, <1>3
  <1>5. Sound(new) /\ Ends(new) = Ends(blocks) /\ Extent(new) = Extent(blocks)
    BY <1>2, <1>4, SameSizes
  <1>6. \A n \in 1..Len(blocks) : At_(new, n) = At_(blocks, n)
    BY <1>4, <1>5 DEF At_, AddressOf
  <1>7. Used(new) = Used(blocks) \cup {i}
    BY <1>2, <1>3 DEF Used
  <1>8. InUse(new) = InUse(blocks) \cup {At_(blocks, i)}
    BY <1>6, <1>7 DEF InUse, Used
  <1>9. \A u \in InUse(blocks) : u.at # at
    <2> SUFFICES ASSUME NEW j \in Used(blocks) PROVE At_(blocks, j).at # at
      BY DEF InUse
    <2>1. j \in 1..Len(blocks) /\ j # i
      BY DEF Used
    <2>2. AddressOf(blocks, j) # AddressOf(blocks, i)
      <3>1. j < i \/ i < j
        BY <2>1, <1>0
      <3> QED BY <2>1, <3>1, AddressesDiffer
    <2> QED BY <2>2 DEF At_
  <1>10. blocks[i].size \in Int
    BY <1>0, BlockIn
  <1>11. TakenAs(blocks, new, at, size)
    BY <1>5, <1>8, <1>9, <1>10 DEF TakenAs, At_
  <1> QED BY <1>11 DEF new

LEMMA SplitIs ==
  ASSUME NEW blocks \in Seq(Blocks), NEW i \in 1..Len(blocks), NEW size \in Nat
  PROVE  LET new == Split(blocks, i, size) IN
         /\ new \in Seq(Blocks) /\ Len(new) = Len(blocks) + 1
         /\ \A n \in 1..(i - 1) : new[n] = blocks[n]
         /\ new[i] = Block(size, TRUE)
         /\ new[i + 1] = Block(blocks[i].size - size - HeaderSize, FALSE)
         /\ \A n \in (i + 1)..Len(blocks) : new[n + 1] = blocks[n]
  <1> DEFINE a == SubSeq(blocks, 1, i - 1)
             b == <<Block(size, TRUE), Block(blocks[i].size - size - HeaderSize, FALSE)>>
             c == SubSeq(blocks, i + 1, Len(blocks))
             len == Len(blocks)
  <1>1. blocks[i].size - size - HeaderSize \in Int
    BY BlockIn, HeaderIs
  <1>2. b \in Seq(Blocks) /\ Len(b) = 2
    BY <1>1 DEF Blocks, Block
  <1>3. b[1] = Block(size, TRUE) /\ b[2] = Block(blocks[i].size - size - HeaderSize, FALSE)
    OBVIOUS
  <1>4. len \in Nat /\ i - 1 \in 0..len /\ i + 1 \in 1..(len + 1)
    OBVIOUS
  <1>5. a \in Seq(Blocks) /\ Len(a) = i - 1 /\ \A n \in 1..(i - 1) : a[n] = blocks[n]
    BY <1>4
  <1>6. c \in Seq(Blocks) /\ Len(c) = len - i /\ \A n \in 1..(len - i) : c[n] = blocks[i + n]
    BY <1>4
  <1> HIDE DEF a, b, c, len
  <1> DEFINE ab == a \o b
  <1>7. ab \in Seq(Blocks) /\ Len(ab) = i + 1
        /\ (\A n \in 1..(i - 1) : ab[n] = blocks[n])
        /\ ab[i] = b[1] /\ ab[i + 1] = b[2]
    <2>0. a \in Seq(Blocks) /\ b \in Seq(Blocks)
      BY <1>2, <1>5
    <2>1. /\ ab \in Seq(Blocks) /\ Len(ab) = Len(a) + Len(b)
          /\ \A n \in 1..Len(a) : ab[n] = a[n]
          /\ \A n \in 1..Len(b) : ab[Len(a) + n] = b[n]
      BY <2>0
    <2> HIDE DEF ab
    <2>2. (i - 1) + 2 = i + 1 /\ (i - 1) + 1 = i /\ 1 \in 1..2 /\ 2 \in 1..2
      BY <1>4
    <2> QED BY <1>2, <1>5, <2>1, <2>2
  <1> HIDE DEF ab
  <1> DEFINE new == ab \o c
  <1>8. new \in Seq(Blocks) /\ Len(new) = len + 1
        /\ (\A n \in 1..(i + 1) : new[n] = ab[n])
        /\ (\A n \in (i + 1)..len : new[n + 1] = blocks[n])
    <2>4. ab \in Seq(Blocks) /\ c \in Seq(Blocks)
      BY <1>6, <1>7
    <2>0. /\ new \in Seq(Blocks) /\ Len(new) = Len(ab) + Len(c)
          /\ \A n \in 1..Len(ab) : new[n] = ab[n]
          /\ \A n \in 1..Len(c) : new[Len(ab) + n] = c[n]
      BY <2>4
    <2> HIDE DEF new
    <2>1. new \in Seq(Blocks) /\ Len(new) = (i + 1) + (len - i)
      BY <1>6, <1>7, <2>0
    <2>2. \A n \in 1..(i + 1) : new[n] = ab[n]
      BY <1>7, <2>0
    <2>3. ASSUME NEW n \in (i + 1)..len PROVE new[n + 1] = blocks[n]
      <3>1. n - i \in 1..(len - i) /\ n + 1 = (i + 1) + (n - i) /\ i + (n - i) = n
        BY <1>4
      <3>2. new[(i + 1) + (n - i)] = c[n - i]
        BY <1>6, <1>7, <2>0, <3>1
      <3> QED BY <1>6, <3>1, <3>2
    <2> QED BY <1>4, <2>1, <2>2, <2>3
  <1>9. Split(blocks, i, size) = new
    BY DEF Split, new, ab, a, b, c, len
  <1>10. \A n \in 1..(i - 1) : n \in 1..(i + 1)
    BY <1>4
  <1>11. i \in 1..(i + 1) /\ i + 1 \in 1..(i + 1)
    BY <1>4
  <1> HIDE DEF new
  <1>12. \A n \in 1..(i - 1) : new[n] = blocks[n]
    BY <1>7, <1>8, <1>10
  <1>13. /\ new[i] = Block(size, TRUE)
         /\ new[i + 1] = Block(blocks[i].size - size - HeaderSize, FALSE)
    BY <1>3, <1>7, <1>8, <1>11
  <1> QED BY <1>8, <1>9, <1>12, <1>13 DEF len

LEMMA SplitGood ==
  ASSUME NEW blocks, Sound(blocks), NEW i \in 1..Len(blocks), ~blocks[i].used,
         NEW size \in Nat, blocks[i].size > size
  PROVE  TakenAs(blocks, Split(blocks, i, size), AddressOf(blocks, i), size)
  <1> DEFINE new == Split(blocks, i, size)
             at == AddressOf(blocks, i)
             len == Len(blocks)
             e == Ends(blocks)
             f == [n \in 0..(len + 1) |-> IF n < i THEN e[n] ELSE
                     IF n = i THEN e[i - 1] + HeaderSize + size ELSE e[n - 1]]
             rest == blocks[i].size - size - HeaderSize
  <1>1. blocks \in Seq(Blocks) /\ len \in Nat /\ i \in 1..len /\ HeaderSize \in Nat \ {0}
    BY HeaderIs DEF Sound
  <1>2. \A n \in 1..len : blocks[n].size \in Int /\ blocks[n].size + HeaderSize > 0
    BY <1>1, BlockIn DEF Sound
  <1>3. /\ new \in Seq(Blocks) /\ Len(new) = len + 1
        /\ \A n \in 1..(i - 1) : new[n] = blocks[n]
        /\ new[i] = Block(size, TRUE) /\ new[i + 1] = Block(rest, FALSE)
        /\ \A n \in (i + 1)..len : new[n + 1] = blocks[n]
    BY ZenonT(30), <1>1, SplitIs
  <1>4. new[i].size = size /\ new[i].used /\ new[i + 1].size = rest /\ ~new[i + 1].used
    BY <1>3 DEF Block
  <1>5. Ending(blocks, e)
    BY <1>1, EndsIs
  <1> HIDE DEF e, new
  <1>6. /\ \A n \in 0..len : e[n] \in Int
        /\ e[0] = 0
        /\ \A n \in 1..len : e[n] = e[n - 1] + HeaderSize + blocks[n].size
    BY <1>5 DEF Ending
  <1> HIDE DEF len
  <1>7. rest \in Int /\ rest + HeaderSize > 0 /\ rest + HeaderSize = blocks[i].size - size
    BY <1>1, <1>2
  <1>8. e[i - 1] \in Int /\ e[i] \in Int /\ e[i] = e[i - 1] + HeaderSize + blocks[i].size
    <2>1. i - 1 \in 0..len /\ i \in 0..len
      BY <1>1
    <2> QED BY <1>1, <1>6, <2>1
  <1> HIDE DEF rest
  <1>9. ASSUME NEW n \in 1..(len + 1)
        PROVE  \/ n \in 1..(i - 1) /\ n \in 1..len /\ n - 1 < i /\ n < i
               \/ n = i
               \/ n = i + 1
               \/ n - 1 \in (i + 1)..len /\ n - 1 \in 1..len /\ n - 1 > i /\ n > i
    BY <1>1
  <1>10. ASSUME NEW n \in (i + 1)..len PROVE new[n + 1] = blocks[n] /\ n + 1 # i
    BY <1>1, <1>3
  <1>11. ASSUME NEW n \in 1..(len + 1), n - 1 \in (i + 1)..len PROVE new[n] = blocks[n - 1]
    <2>1. (n - 1) + 1 = n
      OBVIOUS
    <2>2. new[(n - 1) + 1] = blocks[n - 1]
      BY <1>10, <1>11
    <2> QED BY <2>1, <2>2
  <1>12. f \in [0..(len + 1) -> Int]
    <2> SUFFICES ASSUME NEW n \in 0..(len + 1)
                 PROVE  (IF n < i THEN e[n] ELSE
                         IF n = i THEN e[i - 1] + HeaderSize + size ELSE e[n - 1]) \in Int
      OBVIOUS
    <2>1. CASE n < i
      <3>1. n \in 0..len
        BY <1>1, <2>1
      <3> QED BY <1>6, <2>1, <3>1
    <2>2. CASE n = i
      BY <1>1, <1>8, <2>2
    <2>3. CASE n > i
      <3>1. n - 1 \in 0..len
        BY <1>1, <2>3
      <3> QED BY <1>1, <1>6, <2>3, <3>1
    <2> QED BY <1>1, <2>1, <2>2, <2>3
  <1>13. f[0] = 0
    BY <1>1, <1>6
  <1>14. ASSUME NEW n \in 1..(len + 1) PROVE f[n] = f[n - 1] + HeaderSize + new[n].size
    <2>0. n \in 0..(len + 1) /\ n - 1 \in 0..(len + 1)
      BY <1>1
    <2>1. CASE n \in 1..(i - 1) /\ n \in 1..len /\ n - 1 < i /\ n < i
      <3>1. f[n] = e[n] /\ f[n - 1] = e[n - 1]
        BY <2>0, <2>1
      <3> QED BY <1>3, <1>6, <2>1, <3>1
    <2>2. CASE n = i
      <3>1. f[n] = e[i - 1] + HeaderSize + size /\ f[n - 1] = e[i - 1]
        BY <1>1, <2>0, <2>2
      <3> QED BY <1>4, <2>2, <3>1
    <2>3. CASE n = i + 1
      <3>1. f[n] = e[i] /\ f[n - 1] = e[i - 1] + HeaderSize + size
        BY <1>1, <2>0, <2>3
      <3>2. new[n].size = rest
        BY <1>4, <2>3
      <3>3. PICK x \in Int : x = e[i - 1]
        BY <1>8
      <3>4. PICK b \in Int : b = blocks[i].size
        BY <1>1, <1>2
      <3>5. f[n] = x + HeaderSize + b /\ f[n - 1] = x + HeaderSize + size
        BY <1>8, <3>1, <3>3, <3>4
      <3>6. rest = b - size - HeaderSize
        BY <3>4 DEF rest
      <3>7. x + HeaderSize + b = x + HeaderSize + size + HeaderSize + (b - size - HeaderSize)
        BY <1>1
      <3> HIDE DEF f
      <3> QED BY <3>2, <3>5, <3>6, <3>7
    <2>4. CASE n - 1 \in (i + 1)..len /\ n - 1 \in 1..len /\ n - 1 > i /\ n > i
      <3>1. f[n] = e[n - 1] /\ f[n - 1] = e[(n - 1) - 1]
        BY <1>1, <2>0, <2>4
      <3>2. new[n] = blocks[n - 1]
        BY <1>11, <2>4
      <3> QED BY <1>6, <2>4, <3>1, <3>2
    <2> HIDE DEF f
    <2> QED BY <1>9, <2>1, <2>2, <2>3, <2>4
  <1>15. Ends(new) = f
    <2>1. Ending(new, f)
      BY <1>3, <1>12, <1>13, <1>14 DEF Ending
    <2> HIDE DEF f
    <2> QED BY <1>3, <2>1, OneEnding
  <1>16. Sound(new)
    <2> SUFFICES ASSUME NEW n \in 1..(len + 1) PROVE new[n].size + HeaderSize > 0
      BY <1>3 DEF Sound
    <2>1. CASE n \in 1..(i - 1) /\ n \in 1..len /\ n - 1 < i /\ n < i
      BY <1>2, <1>3, <2>1
    <2>2. CASE n = i
      BY <1>1, <1>4, <2>2
    <2>3. CASE n = i + 1
      BY <1>4, <1>7, <2>3
    <2>4. CASE n - 1 \in (i + 1)..len /\ n - 1 \in 1..len /\ n - 1 > i /\ n > i
      BY <1>2, <1>11, <2>4
    <2> QED BY <1>9, <2>1, <2>2, <2>3, <2>4
  <1>17. Extent(new) = Extent(blocks)
    <2>1. f[len + 1] = e[len]
      BY <1>1
    <2> QED BY <1>3, <1>15, <2>1 DEF Extent, e, len
  <1>18. \A n \in 1..(i - 1) : At_(new, n) = At_(blocks, n)
    <2> TAKE n \in 1..(i - 1)
    <2>1. f[n - 1] = e[n - 1]
      BY <1>1
    <2>2. AddressOf(new, n) = AddressOf(blocks, n)
      BY <1>15, <2>1 DEF AddressOf, e
    <2> QED BY <1>3, <2>2 DEF At_
  <1>19. At_(new, i) = [at |-> at, size |-> size]
    <2>1. f[i - 1] = e[i - 1]
      BY <1>1
    <2>2. AddressOf(new, i) = at
      BY <1>15, <2>1 DEF AddressOf, e
    <2> QED BY <1>4, <2>2 DEF At_
  <1>20. \A n \in (i + 1)..len : At_(new, n + 1) = At_(blocks, n)
    <2> TAKE n \in (i + 1)..len
    <2>1. f[(n + 1) - 1] = e[n - 1]
      <3>1. (n + 1) - 1 = n /\ n \in 0..(len + 1) /\ n > i
        BY <1>1
      <3>2. f[n] = e[n - 1]
        BY <1>1, <3>1
      <3> HIDE DEF f
      <3> QED BY <3>1, <3>2
    <2>2. AddressOf(new, n + 1) = AddressOf(blocks, n)
      BY <1>15, <2>1 DEF AddressOf, e
    <2> QED BY <1>10, <2>2 DEF At_
  <1> HIDE DEF f, at
  <1>21. ASSUME NEW u \in InUse(new)
         PROVE  u \in InUse(blocks) \cup {[at |-> at, size |-> size]}
    <2>1. PICK n \in 1..(len + 1) : new[n].used /\ u = At_(new, n)
      BY <1>3 DEF InUse, Used
    <2>2. CASE n \in 1..(i - 1) /\ n \in 1..len /\ n - 1 < i /\ n < i
      <3>1. n \in Used(blocks) /\ u = At_(blocks, n)
        BY <1>3, <1>18, <2>1, <2>2 DEF Used, len
      <3> QED BY <3>1 DEF InUse
    <2>3. CASE n = i
      BY <1>19, <2>1, <2>3
    <2>4. CASE n = i + 1
      BY <1>4, <2>1, <2>4
    <2>5. CASE n - 1 \in (i + 1)..len /\ n - 1 \in 1..len /\ n - 1 > i /\ n > i
      <3>1. (n - 1) + 1 = n
        OBVIOUS
      <3>2. At_(new, (n - 1) + 1) = At_(blocks, n - 1)
        BY <1>20, <2>5
      <3>3. n - 1 \in Used(blocks) /\ u = At_(blocks, n - 1)
        BY <1>11, <2>1, <2>5, <3>1, <3>2 DEF Used, len
      <3> QED BY <3>3 DEF InUse
    <2> QED BY <1>9, <2>2, <2>3, <2>4, <2>5
  <1>22. ASSUME NEW u \in InUse(blocks) PROVE u \in InUse(new) /\ u.at # at
    <2>1. PICK n \in 1..len : blocks[n].used /\ u = At_(blocks, n)
      BY DEF InUse, Used, len
    <2>2. n # i
      BY <2>1
    <2>3. u.at # at
      <3>1. n < i \/ i < n
        BY <1>1, <2>2
      <3>2. AddressOf(blocks, n) # AddressOf(blocks, i)
        BY <1>1, <3>1, AddressesDiffer DEF len
      <3> QED BY <2>1, <3>2 DEF At_, at
    <2>4. CASE n < i
      <3>1. n \in 1..(i - 1) /\ n \in 1..(len + 1)
        BY <1>1, <2>4
      <3>2. n \in Used(new) /\ u = At_(new, n)
        BY <1>3, <1>18, <2>1, <3>1 DEF Used
      <3> QED BY <2>3, <3>2 DEF InUse
    <2>5. CASE n > i
      <3>1. n \in (i + 1)..len /\ n + 1 \in 1..(len + 1)
        BY <1>1, <2>5
      <3>2. n + 1 \in Used(new) /\ u = At_(new, n + 1)
        BY <1>3, <1>10, <1>20, <2>1, <3>1 DEF Used
      <3> QED BY <2>3, <3>2 DEF InUse
    <2> QED BY <1>1, <2>2, <2>4, <2>5
  <1>23. [at |-> at, size |-> size] \in InUse(new)
    <2>0. i \in 1..(len + 1)
      BY <1>1
    <2>1. i \in Used(new)
      BY <1>3, <1>4, <2>0 DEF Used
    <2> QED BY <1>19, <2>1 DEF InUse
  <1>24. InUse(new) = InUse(blocks) \cup {[at |-> at, size |-> size]}
    BY <1>21, <1>22, <1>23
  <1>25. size \in Int /\ size >= size
    OBVIOUS
  <1>26. TakenAs(blocks, new, at, size)
    BY <1>16, <1>17, <1>22, <1>24, <1>25 DEF TakenAs
  <1> QED BY <1>26 DEF new, at

\* Whichever way a block is taken: when it was not one of a wrapped size, the heap has one
\* block more in use, with room for what was asked, at an address of its own.
LEMMA TakeGood ==
  ASSUME NEW blocks, Sound(blocks), NEW size \in Nat, Fitting(blocks, size) # {}
  PROVE  LET i == FirstFitting(blocks, size) IN
         /\ i \in 1..Len(blocks)
         /\ blocks[i].size >= 0 => TakenAs(blocks, Take(blocks, i, size), AddressOf(blocks, i), size)
  <1> DEFINE i == FirstFitting(blocks, size)
  <1>1. blocks \in Seq(Blocks) /\ DOMAIN blocks = 1..Len(blocks)
    BY DEF Sound
  <1>2. Fitting(blocks, size) \in SUBSET Nat
    BY <1>1 DEF Fitting
  <1>3. i \in Fitting(blocks, size)
    BY <1>2, LeastIn DEF FirstFitting
  <1> HIDE DEF i
  <1>4. i \in 1..Len(blocks) /\ ~blocks[i].used
        /\ (blocks[i].size < 0 \/ blocks[i].size >= size)
    BY <1>1, <1>3 DEF Fitting
  <1>5. ASSUME blocks[i].size >= 0
        PROVE  TakenAs(blocks, Take(blocks, i, size), AddressOf(blocks, i), size)
    <2>1. blocks[i].size \in Int
      BY <1>1, <1>4, BlockIn
    <2>2. blocks[i].size >= size
      BY <1>4, <1>5, <2>1
    <2>3. CASE GivenWhole(blocks[i], size)
      BY <1>4, <2>2, <2>3, MarkGood DEF Take
    <2>4. CASE ~GivenWhole(blocks[i], size)
      <3>1. blocks[i].size > size
        BY <2>1, <2>2, <2>4 DEF GivenWhole
      <3> QED BY <1>4, <2>4, <3>1, SplitGood DEF Take
    <2> QED BY <2>3, <2>4
  <1> QED BY <1>4, <1>5 DEF i

\* free: the block at the address is in use no more, and nothing moves.
LEMMA FreedGood ==
  ASSUME NEW blocks, Sound(blocks), NEW at
  PROVE  LET new == Freed(blocks, at) IN
         /\ Sound(new) /\ Extent(new) = Extent(blocks)
         /\ InUse(new) = {u \in InUse(blocks) : u.at # at}
  <1> DEFINE new == Freed(blocks, at)
             len == Len(blocks)
  <1>1. blocks \in Seq(Blocks) /\ len \in Nat /\ DOMAIN blocks = 1..len
    BY DEF Sound
  <1>2. \A n \in 1..len : blocks[n] \in Blocks /\ Block(blocks[n].size, FALSE) \in Blocks
    BY <1>1, BlockIn DEF Blocks, Block
  <1>3. new \in [1..len -> Blocks]
    BY <1>1, <1>2 DEF Freed
  <1>4. new \in Seq(Blocks) /\ Len(new) = len
    BY <1>1, <1>3
  <1>5. \A n \in 1..len :
          new[n] = IF AddressOf(blocks, n) = at THEN Block(blocks[n].size, FALSE) ELSE blocks[n]
    BY <1>1 DEF Freed
  <1> HIDE DEF new
  <1>6. \A n \in 1..len : new[n].size = blocks[n].size
                          /\ (new[n].used <=> (blocks[n].used /\ AddressOf(blocks, n) # at))
    <2> TAKE n \in 1..len
    <2>1. CASE AddressOf(blocks, n) = at
      <3>1. new[n] = Block(blocks[n].size, FALSE)
        BY <1>5, <2>1
      <3> QED BY <2>1, <3>1 DEF Block
    <2>2. CASE AddressOf(blocks, n) # at
      <3>1. new[n] = blocks[n]
        BY <1>5, <2>2
      <3> QED BY <2>2, <3>1
    <2> QED BY <2>1, <2>2
  <1>7. Sound(new) /\ Ends(new) = Ends(blocks) /\ Extent(new) = Extent(blocks)
    BY <1>4, <1>6, SameSizes
  <1>8. \A n \in 1..len : At_(new, n) = At_(blocks, n) /\ At_(blocks, n).at = AddressOf(blocks, n)
    BY <1>6, <1>7 DEF At_, AddressOf
  <1>9. Used(new) = {n \in Used(blocks) : At_(blocks, n).at # at}
    BY <1>4, <1>6, <1>8 DEF Used
  <1>10. InUse(new) = {u \in InUse(blocks) : u.at # at}
    BY <1>8, <1>9 DEF InUse, Used
  <1> QED BY <1>7, <1>10 DEF new

\* A heap of some pages, with nothing beyond its last block.
InOrder(blocks, pages) ==
  Sound(blocks) /\ \E m \in 0..pages : Extent(blocks) = m * PageSize

\* No block of the heap is before its first.
LEMMA NoBlocks == Sound(<<>>) /\ Extent(<<>>) = 0 /\ InUse(<<>>) = {}
  <1>1. <<>> \in Seq(Blocks) /\ Len(<<>>) = 0 /\ 1..0 = {}
    OBVIOUS
  <1>2. Sound(<<>>)
    BY <1>1 DEF Sound
  <1>3. Ending(<<>>, Ends(<<>>))
    BY <1>1, EndsIs
  <1>4. Extent(<<>>) = 0
    BY <1>1, <1>3 DEF Ending, Extent
  <1>5. InUse(<<>>) = {}
    BY <1>1 DEF InUse, Used
  <1> QED BY <1>2, <1>4, <1>5

\* The heap grows by a free block, up to the end of its pages.
LEMMA GrownGood ==
  ASSUME NEW blocks, Sound(blocks), NEW pages \in Nat, pages * PageSize > Extent(blocks)
  PROVE  LET new == GrownBy(blocks, pages) IN
         InOrder(new, pages) /\ InUse(new) = InUse(blocks)
  <1> DEFINE size == SizeWithin(pages * PageSize - Extent(blocks))
             b == Block(size, FALSE)
             new == Append(blocks, b)
             len == Len(blocks)
             e == Ends(blocks)
             f == [n \in 0..(len + 1) |-> IF n = len + 1 THEN pages * PageSize ELSE e[n]]
  <1>1. blocks \in Seq(Blocks) /\ len \in Nat /\ HeaderSize \in Nat \ {0}
        /\ PageSize \in Nat \ {0}
    BY HeaderIs DEF Sound
  <1>2. Ending(blocks, e) /\ Extent(blocks) = e[len] /\ e[len] \in Int
    BY <1>1, EndsIs DEF Ending, Extent
  <1>3. pages * PageSize \in Nat
    BY <1>1
  <1> HIDE DEF e
  <1>4. size \in Int /\ size + HeaderSize > 0 /\ e[len] + HeaderSize + size = pages * PageSize
    BY <1>1, <1>2, <1>3 DEF SizeWithin
  <1> HIDE DEF size
  <1>5. b \in Blocks /\ b.size = size /\ ~b.used
    BY <1>4 DEF Block, Blocks
  <1> HIDE DEF b
  <1>6. new \in Seq(Blocks) /\ Len(new) = len + 1 /\ new[len + 1] = b
        /\ \A n \in 1..len : new[n] = blocks[n]
    BY <1>1, <1>5
  <1> HIDE DEF new, len
  <1>7. \A n \in 1..(len + 1) : n \in 1..len \/ n = len + 1
    BY <1>1
  <1>8. Sound(new)
    <2> SUFFICES ASSUME NEW n \in 1..(len + 1) PROVE new[n].size + HeaderSize > 0
      BY <1>6 DEF Sound
    <2>1. CASE n \in 1..len
      BY <1>6, <2>1 DEF Sound, len
    <2>2. CASE n = len + 1
      BY <1>4, <1>5, <1>6, <2>2
    <2> QED BY <1>7, <2>1, <2>2
  <1>9. \A n \in 0..len : f[n] = e[n] /\ n \in 0..(len + 1)
    BY <1>1
  <1>10. f[len + 1] = pages * PageSize
    BY <1>1
  <1>11. Ending(new, f)
    <2>1. f \in [0..(len + 1) -> Int]
      <3>1. \A n \in 0..(len + 1) : n # len + 1 => n \in 0..len
        BY <1>1
      <3>2. \A n \in 0..len : e[n] \in Int
        BY <1>2 DEF Ending, len
      <3> QED BY <1>3, <3>1, <3>2
    <2>2. f[0] = 0
      BY <1>1, <1>2, <1>9 DEF Ending
    <2>3. ASSUME NEW n \in 1..(len + 1) PROVE f[n] = f[n - 1] + HeaderSize + new[n].size
      <3>1. CASE n \in 1..len
        <4>1. n \in 0..len /\ n - 1 \in 0..len
          BY <1>1, <3>1
        <4>2. e[n] = e[n - 1] + HeaderSize + blocks[n].size
          BY <1>2, <3>1 DEF Ending, len
        <4> QED BY <1>6, <1>9, <3>1, <4>1, <4>2
      <3>2. CASE n = len + 1
        <4>1. n - 1 = len /\ len \in 0..len
          BY <1>1, <3>2
        <4> QED BY <1>4, <1>5, <1>6, <1>9, <1>10, <3>2, <4>1
      <3> QED BY <1>7, <3>1, <3>2
    <2> HIDE DEF f
    <2> QED BY <1>6, <2>1, <2>2, <2>3 DEF Ending
  <1>12. Ends(new) = f
    <2> HIDE DEF f
    <2> QED BY <1>6, <1>11, OneEnding
  <1>13. Extent(new) = pages * PageSize
    BY <1>6, <1>10, <1>12 DEF Extent
  <1>14. InOrder(new, pages)
    <2>1. pages \in 0..pages
      OBVIOUS
    <2> QED BY <1>8, <1>13, <2>1 DEF InOrder
  <1>15. \A n \in 1..len : At_(new, n) = At_(blocks, n)
    <2> TAKE n \in 1..len
    <2>1. n - 1 \in 0..len
      BY <1>1
    <2>2. f[n - 1] = e[n - 1]
      BY <1>9, <2>1
    <2> HIDE DEF f
    <2> QED BY <1>6, <1>12, <2>2 DEF At_, AddressOf, e
  <1>16. Used(new) = Used(blocks) /\ Used(blocks) \in SUBSET (1..len)
    BY <1>1, <1>5, <1>6, <1>7 DEF Used, len
  <1>17. InUse(new) = InUse(blocks)
    BY <1>15, <1>16 DEF InUse
  <1>18. GrownBy(blocks, pages) = new
    BY DEF GrownBy, new, b, size
  <1> QED BY <1>14, <1>17, <1>18

-----------------------------------------------------------------------------
(* The calls of a program.                                                 *)

Answers == [at : Nat, size : {0} \cup Sizes]

\* The blocks in use are those that the program holds.
HeldBy(blocks, pointers) ==
  /\ \A x \in Pointers : pointers[x] # Nothing =>
       \E u \in InUse(blocks) : u.at = pointers[x].at /\ u.size >= pointers[x].size
  /\ \A u \in InUse(blocks) : \E x \in Pointers :
       pointers[x] # Nothing /\ u.at = pointers[x].at
  /\ \A x, y \in Pointers : x # y /\ pointers[x] # Nothing /\ pointers[y] # Nothing =>
       pointers[x].at # pointers[y].at

HeapOf(blocks, pointers, proc) ==
  /\ proc.status = "none" => blocks = <<>> /\ pointers = NoPointers
  /\ proc.status = "running" => InOrder(blocks, proc.heap_size) /\ HeldBy(blocks, pointers)

HeapInv ==
  /\ heap \in [Processes -> Seq(Blocks)]
  /\ held \in [Processes -> [Pointers -> Answers]]
  /\ \A p \in Processes : HeapOf(heap[p], held[p], process[p])

LEMMA NothingIs == Nothing \in Answers /\ NoPointers \in [Pointers -> Answers]
  BY DEF Nothing, NoPointers, Answers

\* What malloc answers for a heap in which the blocks of before are in use.
Answered(r, before, size) ==
  /\ r.at \in Nat
  /\ r.outcome \in {"given", "null", "torn", "fault"}
  /\ r.outcome = "null" =>
       InOrder(r.blocks, r.k.proc.heap_size) /\ InUse(r.blocks) = InUse(before)
  /\ r.outcome = "given" =>
       /\ InOrder(r.blocks, r.k.proc.heap_size)
       /\ \A u \in InUse(before) : u.at # r.at
       /\ \E s \in Int : s >= size /\
            InUse(r.blocks) = InUse(before) \cup {[at |-> r.at, size |-> s]}

LEMMA TakeFirstGood ==
  ASSUME NEW k, NEW blocks, InOrder(blocks, k.proc.heap_size), NEW before,
         InUse(blocks) = InUse(before), NEW size \in Nat, Fitting(blocks, size) # {}
  PROVE  Answered(TakeFirst(k, blocks, size), before, size)
  <1> DEFINE i == FirstFitting(blocks, size)
             r == TakeFirst(k, blocks, size)
  <1>1. Sound(blocks)
    BY DEF InOrder
  <1>2. /\ r.k = k /\ r.blocks = Take(blocks, i, size) /\ r.at = AddressOf(blocks, i)
        /\ r.outcome = Outcome(blocks, i, size, k.proc.heap_size)
    BY DEF TakeFirst, Answer
  <1>3. i \in 1..Len(blocks)
    BY <1>1, TakeGood
  <1>4. blocks[i].size >= 0 =>
          TakenAs(blocks, Take(blocks, i, size), AddressOf(blocks, i), size)
    BY <1>1, TakeGood
  <1> HIDE DEF i, r
  <1>5. r.at \in Nat
    BY <1>1, <1>2, <1>3, AddressIn
  <1>6. r.outcome \in {"given", "torn", "fault"}
    BY <1>2 DEF Outcome
  <1>7. ASSUME r.outcome = "given"
        PROVE  /\ InOrder(r.blocks, r.k.proc.heap_size)
               /\ \A u \in InUse(before) : u.at # r.at
               /\ \E s \in Int : s >= size /\
                    InUse(r.blocks) = InUse(before) \cup {[at |-> r.at, size |-> s]}
    <2>1. blocks[i].size \in Int
      BY <1>1, <1>3, BlockIn DEF Sound
    <2>2. ~(blocks[i].size < 0)
      BY <1>2, <1>7 DEF Outcome
    <2>3. blocks[i].size >= 0
      BY <2>1, <2>2
    <2>4. TakenAs(blocks, r.blocks, r.at, size)
      BY <1>2, <1>4, <2>3
    <2> QED BY <1>2, <2>4 DEF TakenAs, InOrder
  <1>8. Answered(r, before, size)
    BY <1>5, <1>6, <1>7 DEF Answered
  <1> QED BY <1>8 DEF r

LEMMA InMorePages ==
  ASSUME NEW blocks, NEW pages \in Nat, InOrder(blocks, pages), NEW more \in Nat, more >= pages
  PROVE  /\ InOrder(blocks, more)
         /\ more > pages => more * PageSize > Extent(blocks)
  <1>1. PICK m \in 0..pages : Extent(blocks) = m * PageSize
    BY DEF InOrder
  <1>2. PageSize \in Nat \ {0} /\ m \in 0..more
    BY HeaderIs
  <1>3. InOrder(blocks, more)
    BY <1>1, <1>2 DEF InOrder
  <1>4. ASSUME more > pages PROVE more * PageSize > m * PageSize
    <2>1. m < more /\ more - m \in Nat \ {0}
      BY <1>4
    <2>2. PICK d \in Nat \ {0} : more = m + d
      BY <2>1
    <2>3. more * PageSize = m * PageSize + d * PageSize
      BY <1>2, <2>2
    <2>4. d * PageSize > 0
      BY <1>2
    <2>5. m * PageSize \in Nat /\ d * PageSize \in Nat
      BY <1>2
    <2> QED BY <2>3, <2>4, <2>5
  <1> QED BY <1>1, <1>3, <1>4

\* malloc, on a heap that is in order.
LEMMA MallocGood ==
  ASSUME MemoryInv, HeapInv, ~halted, NEW p \in Processes, process[p].status = "running",
         NEW size \in Nat
  PROVE  Answered(malloc(p, size), heap[p], size)
  <1> DEFINE pages == process[p].heap_size
             blocks == Opened(p)
             k == KernelFunctionNewPage(Kernel(p), p, size)
             grown == GrownBy(blocks, k.proc.heap_size)
             r == malloc(p, size)
  <1>1. /\ Kernel(p) \in Good(Now(p), p) /\ Kernel(p).proc = process[p] /\ Kernel(p).ok
        /\ Whole(owner, p, process[p])
    BY KernelIs
  <1>2. /\ process[p] \in Structs /\ pages \in Nat /\ pages >= 1
        /\ HeapCounted(Kernel(p).proc)
    BY <1>1 DEF Good, Fair, Records, Structs, Whole, Kept, HeapCounted
  <1>3. k \in HeapMade(Now(p), p, Kernel(p)) /\ Larger(Kernel(p), k)
    BY <1>1, <1>2, NewPageGood
  <1>4. k.proc.heap_size \in Nat /\ k.proc.heap_size >= pages
        /\ (k.ok => k.proc.heap_size > pages)
    BY <1>1, <1>3 DEF HeapMade, Good, Fair, Records, Structs, Larger
  <1>5. InOrder(heap[p], pages)
    BY DEF HeapInv, HeapOf
  <1>6. InOrder(blocks, pages) /\ InUse(blocks) = InUse(heap[p])
    <2>1. CASE heap[p] # <<>>
      BY <1>5, <2>1 DEF Opened
    <2>2. CASE heap[p] = <<>>
      <3>1. pages * PageSize \in Nat /\ pages * PageSize > 0
        BY <1>2, HeaderIs
      <3>2. blocks = GrownBy(<<>>, pages)
        <4>1. pages * PageSize - 0 = pages * PageSize
          BY <3>1
        <4>2. blocks = <<Block(SizeWithin(pages * PageSize), FALSE)>>
          BY <2>2 DEF Opened
        <4>3. GrownBy(<<>>, pages) = Append(<<>>, Block(SizeWithin(pages * PageSize), FALSE))
          BY <4>1, NoBlocks DEF GrownBy
        <4> DEFINE b == Block(SizeWithin(pages * PageSize), FALSE)
        <4>4. <<b>> = Append(<<>>, b)
          <5> HIDE DEF b
          <5>1. <<>> \in Seq({b}) /\ Len(<<>>) = 0 /\ b \in {b}
            OBVIOUS
          <5>2. /\ Append(<<>>, b) \in Seq({b}) /\ Len(Append(<<>>, b)) = 1
                /\ Append(<<>>, b)[1] = b
            BY <5>1
          <5>3. <<b>> \in Seq({b}) /\ Len(<<b>>) = 1 /\ <<b>>[1] = b
            OBVIOUS
          <5> QED BY <5>2, <5>3
        <4> QED BY <4>2, <4>3, <4>4
      <3> HIDE DEF blocks, pages
      <3>3. InOrder(GrownBy(<<>>, pages), pages)
        BY <1>2, <3>1, NoBlocks, GrownGood
      <3>4. InUse(GrownBy(<<>>, pages)) = InUse(<<>>)
        BY <1>2, <3>1, NoBlocks, GrownGood
      <3> QED BY <2>2, <3>2, <3>3, <3>4
    <2> QED BY <2>1, <2>2
  <1>7. r = IF Fitting(blocks, size) # {} THEN TakeFirst(Kernel(p), blocks, size)
            ELSE IF ~k.ok THEN Answer(k, blocks, NULL, "null")
            ELSE IF Fitting(grown, size) # {} THEN TakeFirst(k, grown, size)
            ELSE Answer(k, grown, NULL, "null")
    BY DEF malloc
  <1> HIDE DEF blocks, k, r
  <1>8. ASSUME k.ok PROVE InOrder(grown, k.proc.heap_size) /\ InUse(grown) = InUse(heap[p])
    <2> DEFINE more == k.proc.heap_size
    <2>1. more \in Nat /\ more > pages /\ more >= pages
      BY <1>4, <1>8
    <2>2. Sound(blocks)
      BY <1>6 DEF InOrder
    <2> HIDE DEF more, pages
    <2>3. more * PageSize > Extent(blocks)
      BY <1>2, <1>6, <2>1, InMorePages
    <2>4. InOrder(GrownBy(blocks, more), more)
      BY <2>1, <2>2, <2>3, GrownGood
    <2>5. InUse(GrownBy(blocks, more)) = InUse(blocks)
      BY <2>1, <2>2, <2>3, GrownGood
    <2> QED BY <1>6, <2>4, <2>5 DEF more
  <1> HIDE DEF grown
  <1>9. CASE Fitting(blocks, size) # {}
    BY <1>1, <1>6, <1>7, <1>9, TakeFirstGood DEF r
  <1>10. CASE Fitting(blocks, size) = {} /\ ~k.ok
    <2>1. r = Answer(k, blocks, NULL, "null")
      BY <1>7, <1>10
    <2>2. r.k = k /\ r.blocks = blocks /\ r.at = NULL /\ r.outcome = "null"
      BY <2>1 DEF Answer
    <2>3. InOrder(blocks, k.proc.heap_size)
      <3> DEFINE more == k.proc.heap_size
      <3>1. more \in Nat /\ more >= pages
        BY <1>4
      <3> HIDE DEF more, pages
      <3>2. InOrder(blocks, more)
        BY <1>2, <1>6, <3>1, InMorePages
      <3> QED BY <3>2 DEF more
    <2>4. Answered(r, heap[p], size)
      BY <1>6, <2>2, <2>3 DEF Answered, NULL
    <2> QED BY <2>4 DEF r
  <1>11. CASE Fitting(blocks, size) = {} /\ k.ok /\ Fitting(grown, size) # {}
    BY <1>7, <1>8, <1>11, TakeFirstGood DEF r
  <1>12. CASE Fitting(blocks, size) = {} /\ k.ok /\ Fitting(grown, size) = {}
    <2>1. r = Answer(k, grown, NULL, "null")
      BY <1>7, <1>12
    <2>2. r.k = k /\ r.blocks = grown /\ r.at = NULL /\ r.outcome = "null"
      BY <2>1 DEF Answer
    <2>3. Answered(r, heap[p], size)
      BY <1>8, <1>12, <2>2 DEF Answered, NULL
    <2> QED BY <2>3 DEF r
  <1> QED BY <1>9, <1>10, <1>11, <1>12

\* A pointer gets a block that nobody held.
LEMMA GivenHeld ==
  ASSUME NEW before, NEW pointers \in [Pointers -> Answers], HeldBy(before, pointers),
         NEW x \in Pointers, pointers[x] = Nothing, NEW new, NEW at \in Nat,
         NEW size \in Sizes, \A u \in InUse(before) : u.at # at, NEW s \in Int, s >= size,
         InUse(new) = InUse(before) \cup {[at |-> at, size |-> s]}
  PROVE  HeldBy(new, [pointers EXCEPT ![x] = [at |-> at, size |-> size]])
  <1> DEFINE answer == [at |-> at, size |-> size]
             after == [pointers EXCEPT ![x] = answer]
  <1>1. answer.at = at /\ answer.size = size /\ answer # Nothing
    BY HeapAssumption DEF Nothing
  <1>2. after[x] = answer /\ \A y \in Pointers : y # x => after[y] = pointers[y]
    OBVIOUS
  <1> HIDE DEF after, answer
  <1>3. ASSUME NEW y \in Pointers, after[y] # Nothing
        PROVE  \E u \in InUse(new) : u.at = after[y].at /\ u.size >= after[y].size
    <2>1. CASE y = x
      <3> DEFINE u == [at |-> at, size |-> s]
      <3>1. u \in InUse(new) /\ u.at = at /\ u.size = s
        OBVIOUS
      <3>2. after[y].at = at /\ after[y].size = size
        BY <1>1, <1>2, <2>1
      <3> HIDE DEF u
      <3> QED BY <3>1, <3>2
    <2>2. CASE y # x
      BY <1>2, <1>3, <2>2 DEF HeldBy
    <2> QED BY <2>1, <2>2
  <1>4. ASSUME NEW u \in InUse(new)
        PROVE  \E y \in Pointers : after[y] # Nothing /\ u.at = after[y].at
    <2>1. CASE u \in InUse(before)
      <3>1. PICK y \in Pointers : pointers[y] # Nothing /\ u.at = pointers[y].at
        BY <2>1 DEF HeldBy
      <3>2. y # x
        BY <3>1
      <3> QED BY <1>2, <3>1, <3>2
    <2>2. CASE u = [at |-> at, size |-> s]
      BY <1>1, <1>2, <2>2
    <2> QED BY <2>1, <2>2
  <1>5. ASSUME NEW y \in Pointers, y # x, pointers[y] # Nothing PROVE pointers[y].at # at
    BY <1>5 DEF HeldBy
  <1>6. ASSUME NEW y \in Pointers, NEW z \in Pointers, y # z,
               after[y] # Nothing, after[z] # Nothing
        PROVE  after[y].at # after[z].at
    <2>1. CASE y = x
      BY <1>1, <1>2, <1>5, <1>6, <2>1
    <2>2. CASE z = x
      BY <1>1, <1>2, <1>5, <1>6, <2>2
    <2>3. CASE y # x /\ z # x
      BY <1>2, <1>6, <2>3 DEF HeldBy
    <2> QED BY <2>1, <2>2, <2>3
  <1>7. HeldBy(new, after)
    BY <1>3, <1>4, <1>6 DEF HeldBy
  <1> QED BY <1>7 DEF after, answer

\* A pointer gives its block up.
LEMMA FreedHeld ==
  ASSUME NEW before, NEW pointers \in [Pointers -> Answers], HeldBy(before, pointers),
         NEW x \in Pointers, pointers[x] # Nothing, NEW new,
         InUse(new) = {u \in InUse(before) : u.at # pointers[x].at}
  PROVE  HeldBy(new, [pointers EXCEPT ![x] = Nothing])
  <1> DEFINE after == [pointers EXCEPT ![x] = Nothing]
  <1>1. after[x] = Nothing /\ \A y \in Pointers : y # x => after[y] = pointers[y]
    OBVIOUS
  <1> HIDE DEF after
  <1>2. ASSUME NEW y \in Pointers, after[y] # Nothing
        PROVE  \E u \in InUse(new) : u.at = after[y].at /\ u.size >= after[y].size
    <2>1. y # x /\ after[y] = pointers[y]
      BY <1>1, <1>2
    <2>2. PICK u \in InUse(before) : u.at = pointers[y].at /\ u.size >= pointers[y].size
      BY <1>2, <2>1 DEF HeldBy
    <2>3. pointers[y].at # pointers[x].at
      BY <1>2, <2>1 DEF HeldBy
    <2> QED BY <2>1, <2>2, <2>3
  <1>3. ASSUME NEW u \in InUse(new)
        PROVE  \E y \in Pointers : after[y] # Nothing /\ u.at = after[y].at
    <2>1. PICK y \in Pointers : pointers[y] # Nothing /\ u.at = pointers[y].at
      BY DEF HeldBy
    <2>2. y # x
      BY <2>1
    <2> QED BY <1>1, <2>1, <2>2
  <1>4. HeldBy(new, after)
    BY <1>1, <1>2, <1>3 DEF HeldBy
  <1> QED BY <1>4 DEF after

\* The heap of one process changes.
LEMMA OneHeapChanges ==
  ASSUME MemoryInv, HeapInv, NEW p \in Processes, NEW k, k.proc \in Structs,
         NEW status, status \in Statuses,
         process' = [process EXCEPT ![p] = [k.proc EXCEPT !.status = status]],
         NEW blocks \in Seq(Blocks), heap' = [heap EXCEPT ![p] = blocks],
         NEW pointers \in [Pointers -> Answers], held' = [held EXCEPT ![p] = pointers],
         status # "none",
         status = "running" => InOrder(blocks, k.proc.heap_size) /\ HeldBy(blocks, pointers)
  PROVE  HeapInv'
  <1>1. /\ process'[p].status = status /\ process'[p].heap_size = k.proc.heap_size
        /\ \A q \in Processes : q # p => process'[q] = process[q]
    BY DEF MemoryInv, MemoryOf, Structs
  <1>2. /\ heap' \in [Processes -> Seq(Blocks)] /\ heap'[p] = blocks
        /\ \A q \in Processes : q # p => heap'[q] = heap[q]
    BY DEF HeapInv
  <1>3. /\ held' \in [Processes -> [Pointers -> Answers]] /\ held'[p] = pointers
        /\ \A q \in Processes : q # p => held'[q] = held[q]
    BY DEF HeapInv
  <1>4. ASSUME NEW q \in Processes PROVE HeapOf(heap'[q], held'[q], process'[q])
    <2>1. CASE q = p
      BY <1>1, <1>2, <1>3, <2>1 DEF HeapOf
    <2>2. CASE q # p
      BY <1>1, <1>2, <1>3, <2>2 DEF HeapInv
    <2> QED BY <2>1, <2>2
  <1> QED BY <1>2, <1>3, <1>4 DEF HeapInv

\* A step that leaves the heaps alone, and begins or ends none.
LEMMA HeapsStay ==
  ASSUME HeapInv, UNCHANGED <<heap, held>>,
         \A p \in Processes :
           HeapOf(heap[p], held[p], process[p]) => HeapOf(heap[p], held[p], process'[p])
  PROVE  HeapInv'
  BY DEF HeapInv

LEMMA EndWithGood ==
  ASSUME MemoryInv, HeapInv, NEW p \in Processes, NEW k, k.proc \in Structs, EndWith(k, p)
  PROVE  HeapInv'
  <1> DEFINE r == End(k)
  <1>1. r.proc \in Structs
    <2>1. <<>> \in Partial(Pages, Places) /\ <<>> \in Partial(Names, Entries)
      BY EmptyIsPartial
    <2>2. r.proc = [k.proc EXCEPT !.va = <<>>, !.tables = <<>>, !.data = NULL]
      BY DEF End
    <2> QED BY <2>1, <2>2 DEF Structs
  <1>2. /\ process' = [process EXCEPT ![p] = [r.proc EXCEPT !.status = "ended"]]
        /\ heap' = [heap EXCEPT ![p] = <<>>] /\ held' = [held EXCEPT ![p] = NoPointers]
    BY DEF EndWith, Finish
  <1> HIDE DEF r
  <1>3. "ended" \in Statuses /\ "ended" # "none" /\ "ended" # "running"
    BY DEF Statuses
  <1>4. <<>> \in Seq(Blocks)
    OBVIOUS
  <1> QED BY <1>1, <1>2, <1>3, <1>4, NothingIs, OneHeapChanges

LEMMA OtherwiseGood ==
  ASSUME MemoryInv, HeapInv, NEW p \in Processes, process[p].status = "running",
         NEW x \in Pointers, NEW size \in Sizes, NEW r, r.k.proc \in Structs,
         r.k.proc.heap_size >= process[p].heap_size,
         Answered(r, heap[p], size), Otherwise(p, x, size, r)
  PROVE  HeapInv'
  <1>1. held[p] \in [Pointers -> Answers] /\ HeldBy(heap[p], held[p])
    BY DEF HeapInv, HeapOf
  <1>2. CASE /\ r.outcome = "null" /\ Finish(r.k, p, "running")
             /\ heap' = [heap EXCEPT ![p] = r.blocks] /\ UNCHANGED held
    <2>1. InOrder(r.blocks, r.k.proc.heap_size) /\ InUse(r.blocks) = InUse(heap[p])
      BY <1>2 DEF Answered
    <2>2. HeldBy(r.blocks, held[p])
      BY <1>1, <2>1 DEF HeldBy
    <2>3. r.blocks \in Seq(Blocks) /\ held' = [held EXCEPT ![p] = held[p]]
      BY <1>2, <2>1 DEF InOrder, Sound, HeapInv
    <2>4. "running" \in Statuses /\ "running" # "none"
      BY DEF Statuses
    <2>5. process' = [process EXCEPT ![p] = [r.k.proc EXCEPT !.status = "running"]]
      BY <1>2 DEF Finish
    <2> DEFINE k == r.k
               blocks == r.blocks
    <2>6. /\ k.proc \in Structs /\ blocks \in Seq(Blocks) /\ InOrder(blocks, k.proc.heap_size)
          /\ HeldBy(blocks, held[p]) /\ heap' = [heap EXCEPT ![p] = blocks]
          /\ process' = [process EXCEPT ![p] = [k.proc EXCEPT !.status = "running"]]
      BY <1>2, <2>1, <2>2, <2>3, <2>5
    <2> HIDE DEF k, blocks
    <2> QED BY <1>1, <2>3, <2>4, <2>6, OneHeapChanges
  <1>3. CASE /\ r.outcome = "torn" /\ Finish(r.k, p, "torn")
             /\ heap' = [heap EXCEPT ![p] = <<>>]
             /\ held' = [held EXCEPT ![p][x] = [at |-> r.at, size |-> size]]
    <2> DEFINE k == r.k
               pointers == [held[p] EXCEPT ![x] = [at |-> r.at, size |-> size]]
    <2>1. k.proc \in Structs
          /\ process' = [process EXCEPT ![p] = [k.proc EXCEPT !.status = "torn"]]
      BY <1>3 DEF Finish
    <2>2. [at |-> r.at, size |-> size] \in Answers
      BY DEF Answered, Answers
    <2>3. pointers \in [Pointers -> Answers] /\ held' = [held EXCEPT ![p] = pointers]
      BY <1>1, <1>3, <2>2 DEF HeapInv
    <2>4. "torn" \in Statuses /\ "torn" # "none" /\ "torn" # "running"
      BY DEF Statuses
    <2>5. <<>> \in Seq(Blocks) /\ heap' = [heap EXCEPT ![p] = <<>>]
      BY <1>3
    <2> HIDE DEF k, pointers
    <2> QED BY <2>1, <2>3, <2>4, <2>5, OneHeapChanges
  <1>4. CASE r.outcome = "fault" /\ EndWith(r.k, p)
    <2> DEFINE k == r.k
    <2>1. k.proc \in Structs /\ EndWith(k, p)
      BY <1>4
    <2> HIDE DEF k
    <2> QED BY <2>1, EndWithGood
  <1> QED BY <1>2, <1>3, <1>4 DEF Otherwise

LEMMA MallocKeeps ==
  ASSUME MemoryInv, HeapInv, NEW p \in Processes, NEW x \in Pointers, NEW size \in Sizes,
         Malloc(p, x, size) \/ Realloc(p, x, size)
  PROVE  HeapInv'
  <1> DEFINE r == malloc(p, size)
             k == r.k
             answer == [at |-> r.at, size |-> size]
             old == held[p][x].at
             pointers == [held[p] EXCEPT ![x] = answer]
  <1>1. ~halted /\ process[p].status = "running" /\ size \in Nat
    BY HeapAssumption DEF Malloc, Realloc, Running
  <1>2. Asked(Now(p), p, Kernel(p), r.k) /\ Kernel(p).proc = process[p]
    BY <1>1, MallocAsks, KernelIs
  <1>3. Answered(r, heap[p], size)
    BY <1>1, MallocGood
  <1>4. k.proc \in Structs
    BY <1>2 DEF Asked, Good, Fair, Records
  <1>5. k.proc.heap_size >= process[p].heap_size
    <2>1. Kernel(p) \in Good(Now(p), p) /\ HeapCounted(Kernel(p).proc)
      BY <1>1, KernelIs DEF Whole, Kept
    <2>2. process[p].heap_size \in Nat
      BY <1>2, <2>1 DEF Good, Fair, Records, Structs
    <2>3. KernelFunctionNewPage(Kernel(p), p, size) \in HeapMade(Now(p), p, Kernel(p))
      BY <1>1, <2>1, NewPageGood
    <2>4. r.k = Kernel(p) \/ r.k = KernelFunctionNewPage(Kernel(p), p, size)
      BY DEF malloc, TakeFirst, Answer
    <2> QED BY <1>2, <2>2, <2>3, <2>4 DEF HeapMade
  <1>6. held[p] \in [Pointers -> Answers] /\ HeldBy(heap[p], held[p]) /\ Sound(heap[p])
    BY <1>1 DEF HeapInv, HeapOf, InOrder
  <1>7. answer \in Answers /\ r.at \in Nat
    BY <1>3 DEF Answered, Answers
  <1>8. \/ Otherwise(p, x, size, r)
        \/ /\ r.outcome = "given" /\ Finish(k, p, "running")
           /\ \/ /\ held[p][x] = Nothing
                 /\ heap' = [heap EXCEPT ![p] = r.blocks]
              \/ /\ held[p][x] # Nothing
                 /\ heap' = [heap EXCEPT ![p] = Freed(r.blocks, old)]
           /\ held' = [held EXCEPT ![p][x] = answer]
    BY DEF Malloc, Realloc
  <1>9. CASE Otherwise(p, x, size, r)
    <2> HIDE DEF r
    <2> QED BY <1>1, <1>3, <1>4, <1>5, <1>9, OtherwiseGood
  <1>10. "running" \in Statuses /\ "running" # "none"
    BY DEF Statuses
  <1>11. ASSUME r.outcome = "given"
         PROVE  /\ InOrder(r.blocks, k.proc.heap_size)
                /\ \A u \in InUse(heap[p]) : u.at # r.at
                /\ \E s \in Int : s >= size /\
                     InUse(r.blocks) = InUse(heap[p]) \cup {[at |-> r.at, size |-> s]}
    BY <1>3, <1>11 DEF Answered
  <1>12. pointers \in [Pointers -> Answers]
    BY <1>6, <1>7
  <1>13. ASSUME held' = [held EXCEPT ![p][x] = answer]
         PROVE  held' = [held EXCEPT ![p] = pointers]
    BY <1>13 DEF HeapInv
  <1>14. CASE /\ r.outcome = "given" /\ Finish(k, p, "running") /\ held[p][x] = Nothing
              /\ heap' = [heap EXCEPT ![p] = r.blocks]
              /\ held' = [held EXCEPT ![p][x] = answer]
    <2> DEFINE blocks == r.blocks
               at == r.at
    <2>1. InOrder(blocks, k.proc.heap_size) /\ blocks \in Seq(Blocks)
      BY <1>11, <1>14 DEF InOrder, Sound
    <2>2. PICK s \in Int : s >= size /\ InUse(blocks) = InUse(heap[p]) \cup {[at |-> at, size |-> s]}
      BY <1>11, <1>14
    <2>3. \A u \in InUse(heap[p]) : u.at # at
      BY <1>11, <1>14
    <2>4. at \in Nat
      BY <1>7
    <2>5. HeldBy(blocks, [held[p] EXCEPT ![x] = [at |-> at, size |-> size]])
      <3> HIDE DEF at, blocks
      <3> QED BY <1>6, <1>14, <2>2, <2>3, <2>4, GivenHeld
    <2>6. process' = [process EXCEPT ![p] = [k.proc EXCEPT !.status = "running"]]
          /\ heap' = [heap EXCEPT ![p] = blocks] /\ held' = [held EXCEPT ![p] = pointers]
          /\ HeldBy(blocks, pointers)
      BY <1>13, <1>14, <2>5 DEF Finish
    <2> HIDE DEF k, blocks, pointers
    <2> QED BY <1>4, <1>10, <1>12, <2>1, <2>6, OneHeapChanges
  <1>15. CASE /\ r.outcome = "given" /\ Finish(k, p, "running") /\ held[p][x] # Nothing
              /\ heap' = [heap EXCEPT ![p] = Freed(r.blocks, old)]
              /\ held' = [held EXCEPT ![p][x] = answer]
    <2> DEFINE taken == r.blocks
               at == r.at
               blocks == Freed(taken, old)
               less == Freed(heap[p], old)
               none == [held[p] EXCEPT ![x] = Nothing]
    <2>1. InOrder(taken, k.proc.heap_size) /\ Sound(taken)
      BY <1>11, <1>15 DEF InOrder
    <2>2. PICK s \in Int : s >= size /\ InUse(taken) = InUse(heap[p]) \cup {[at |-> at, size |-> s]}
      BY <1>11, <1>15
    <2>3. \A u \in InUse(heap[p]) : u.at # at
      BY <1>11, <1>15
    <2>4. at \in Nat
      BY <1>7
    <2> HIDE DEF at, taken
    <2>5. Sound(blocks) /\ Extent(blocks) = Extent(taken)
      BY <2>1, FreedGood
    <2>6. InUse(blocks) = {u \in InUse(taken) : u.at # old}
      BY <2>1, FreedGood
    <2>7. InUse(less) = {u \in InUse(heap[p]) : u.at # old}
      BY <1>6, FreedGood
    <2> HIDE DEF blocks, less
    <2>8. PICK u \in InUse(heap[p]) : u.at = held[p][x].at
      BY <1>6, <1>15 DEF HeldBy
    <2>9. old # at
      BY <2>3, <2>8
    <2>10. InUse(blocks) = InUse(less) \cup {[at |-> at, size |-> s]}
      BY <2>2, <2>6, <2>7, <2>9
    <2>11. HeldBy(less, none)
      BY <1>6, <1>15, <2>7, FreedHeld
    <2>12. none \in [Pointers -> Answers] /\ none[x] = Nothing
      BY <1>6, NothingIs
    <2>13. \A v \in InUse(less) : v.at # at
      BY <2>3, <2>7
    <2>14. [none EXCEPT ![x] = [at |-> at, size |-> size]] =
             [held[p] EXCEPT ![x] = [at |-> at, size |-> size]]
      BY <1>6
    <2> HIDE DEF none
    <2>15. HeldBy(blocks, [none EXCEPT ![x] = [at |-> at, size |-> size]])
      BY <2>2, <2>4, <2>10, <2>11, <2>12, <2>13, GivenHeld
    <2>16. HeldBy(blocks, pointers)
      BY <2>14, <2>15 DEF at
    <2>17. InOrder(blocks, k.proc.heap_size) /\ blocks \in Seq(Blocks)
      BY <2>1, <2>5 DEF InOrder, Sound
    <2>18. process' = [process EXCEPT ![p] = [k.proc EXCEPT !.status = "running"]]
           /\ heap' = [heap EXCEPT ![p] = blocks] /\ held' = [held EXCEPT ![p] = pointers]
      BY <1>13, <1>15 DEF Finish, blocks, taken
    <2> HIDE DEF k, pointers
    <2> QED BY <1>4, <1>10, <1>12, <2>16, <2>17, <2>18, OneHeapChanges
  <1> QED BY <1>8, <1>9, <1>14, <1>15

LEMMA FreeKeeps ==
  ASSUME MemoryInv, HeapInv, NEW p \in Processes, NEW x \in Pointers, Free(p, x)
  PROVE  HeapInv'
  <1> DEFINE at == held[p][x].at
             blocks == Freed(heap[p], at)
             pointers == [held[p] EXCEPT ![x] = Nothing]
  <1>1. process[p].status = "running" /\ held[p][x] # Nothing
        /\ heap' = [heap EXCEPT ![p] = blocks] /\ held' = [held EXCEPT ![p] = pointers]
    BY DEF Free, Running, HeapInv
  <1>2. /\ held[p] \in [Pointers -> Answers] /\ HeldBy(heap[p], held[p])
        /\ InOrder(heap[p], process[p].heap_size) /\ Sound(heap[p])
    BY <1>1 DEF HeapInv, HeapOf, InOrder
  <1>3. Sound(blocks) /\ Extent(blocks) = Extent(heap[p])
    BY <1>2, FreedGood
  <1>4. InUse(blocks) = {u \in InUse(heap[p]) : u.at # at}
    BY <1>2, FreedGood
  <1> HIDE DEF blocks
  <1>5. HeldBy(blocks, pointers)
    BY <1>1, <1>2, <1>4, FreedHeld
  <1>6. pointers \in [Pointers -> Answers] /\ blocks \in Seq(Blocks)
    BY <1>2, <1>3, NothingIs DEF Sound
  <1>7. InOrder(blocks, process[p].heap_size)
    BY <1>2, <1>3 DEF InOrder
  <1> HIDE DEF pointers
  <1>8. process \in [Processes -> Structs]
    BY DEF MemoryInv, MemoryOf
  <1>9. process[p] \in Structs
        /\ process' = [process EXCEPT ![p] = [process[p] EXCEPT !.status = "running"]]
    <2>1. process' = process /\ process[p] \in Structs
      BY <1>8 DEF Free
    <2>2. [process[p] EXCEPT !.status = "running"] = process[p]
      BY <1>1, <2>1 DEF Structs
    <2> QED BY <1>8, <2>1, <2>2
  <1>10. "running" \in Statuses /\ "running" # "none"
    BY DEF Statuses
  <1> DEFINE k == Kernel(p)
  <1>11. k.proc = process[p]
    BY DEF Kernel
  <1> HIDE DEF k
  <1> QED BY <1>1, <1>5, <1>6, <1>7, <1>9, <1>10, <1>11, OneHeapChanges

\* Only a process that does not exist yet is started.
LEMMA StartLeaves ==
  ASSUME MemoryInv, HeapInv, NEW p \in Processes, Start(p)
  PROVE  HeapInv'
  <1>1. /\ process[p].status = "none" /\ UNCHANGED <<heap, held>>
        /\ \/ process' = process
           \/ \E proc : process' = [process EXCEPT ![p] = proc]
    <2>1. PICK call \in Calls : DispatcherProcessNewFromFormat(p, call)
      BY DEF Start
    <2>2. process[p].status = "none" /\ UNCHANGED <<heap, held>>
      BY <2>1 DEF Start, DispatcherProcessNewFromFormat
    <2>3. process' = process \/ \E proc : process' = [process EXCEPT ![p] = proc]
      BY <2>1 DEF DispatcherProcessNewFromFormat, SetUp, Finish
    <2> QED BY <2>2, <2>3
  <1>2. process \in [Processes -> Structs]
    BY DEF MemoryInv, MemoryOf
  <1>3. \A q \in Processes : q # p => process'[q] = process[q]
    BY <1>1, <1>2
  <1>4. heap[p] = <<>> /\ held[p] = NoPointers
    BY <1>1 DEF HeapInv, HeapOf
  <1>5. process' \in [Processes -> Structs]
    <2>1. PICK call \in Calls : DispatcherProcessNewFromFormat(p, call)
      BY DEF Start
    <2>2. MemoryInv'
      BY <2>1, StartKeeps
    <2> QED BY <2>2 DEF MemoryInv, MemoryOf
  <1>6. ASSUME NEW pages \in Nat PROVE InOrder(<<>>, pages) /\ HeldBy(<<>>, NoPointers)
    <2>1. 0 \in 0..pages /\ 0 = 0 * PageSize
      BY HeaderIs
    <2>2. InOrder(<<>>, pages)
      BY <2>1, NoBlocks DEF InOrder
    <2>3. HeldBy(<<>>, NoPointers)
      BY NoBlocks DEF HeldBy, NoPointers
    <2> QED BY <2>2, <2>3
  <1>7. ASSUME NEW q \in Processes, HeapOf(heap[q], held[q], process[q])
        PROVE  HeapOf(heap[q], held[q], process'[q])
    <2>1. CASE q # p
      BY <1>3, <1>7, <2>1
    <2>2. CASE q = p
      <3>1. process'[p].heap_size \in Nat
        BY <1>5 DEF Structs
      <3> QED BY <1>4, <1>6, <2>2, <3>1 DEF HeapOf
    <2> QED BY <2>1, <2>2
  <1> QED BY <1>1, <1>7, HeapsStay

LEMMA HeapKept == MemoryInv /\ HeapInv /\ [Next]_vars => HeapInv'
  <1> SUFFICES ASSUME MemoryInv, HeapInv, [Next]_vars PROVE HeapInv'
    OBVIOUS
  <1>0. process \in [Processes -> Structs] /\ \A p \in Processes : Kernel(p).proc = process[p]
    BY DEF MemoryInv, MemoryOf, Kernel
  <1>1. ASSUME NEW p \in Processes, Start(p) PROVE HeapInv'
    BY <1>1, StartLeaves
  <1>2. ASSUME NEW p \in Processes, Exit(p) PROVE HeapInv'
    <2>1. Kernel(p).proc \in Structs /\ EndWith(Kernel(p), p)
      BY <1>0, <1>2 DEF Exit
    <2> QED BY <2>1, EndWithGood
  <1>3. ASSUME NEW p \in Processes, Torn(p) PROVE HeapInv'
    <2>1. /\ UNCHANGED <<heap, held>>
          /\ \E k : process' = [process EXCEPT ![p] = [k.proc EXCEPT !.status = "torn"]]
                    /\ k.proc \in Structs
      <3>1. PICK size \in Sizes : Finish(KernelFunctionNewPage(Kernel(p), p, size), p, "torn")
        BY <1>3 DEF Torn
      <3>2. size \in Nat /\ Kernel(p) \in Good(Now(p), p) /\ Kept(Now(p).owner, Kernel(p).proc)
        BY <1>3, HeapAssumption, KernelIs DEF Torn, Whole, Now, Before
      <3>3. KernelFunctionNewPage(Kernel(p), p, size).proc \in Structs
        BY <3>2, AskedIs DEF Asked, Good, Fair, Records
      <3> QED BY <1>3, <3>1, <3>3 DEF Torn, Finish
    <2>2. PICK k : process' = [process EXCEPT ![p] = [k.proc EXCEPT !.status = "torn"]]
                   /\ k.proc \in Structs
      BY <2>1
    <2>3. process'[p].status = "torn" /\ \A q \in Processes : q # p => process'[q] = process[q]
      BY <1>0, <2>2 DEF Structs
    <2>4. \A q \in Processes : HeapOf(heap[q], held[q], process[q])
                               => HeapOf(heap[q], held[q], process'[q])
      BY <2>3 DEF HeapOf
    <2> QED BY <2>1, <2>4, HeapsStay
  <1>4. ASSUME NEW p \in Processes, NEW x \in Pointers, NEW size \in Sizes,
               Malloc(p, x, size) \/ Realloc(p, x, size)
        PROVE  HeapInv'
    BY <1>4, MallocKeeps
  <1>5. ASSUME NEW p \in Processes, NEW x \in Pointers, Free(p, x) PROVE HeapInv'
    BY <1>5, FreeKeeps
  <1>6. CASE (KernelTakes \/ KernelReturns) /\ UNCHANGED <<heap, held>>
    BY <1>6 DEF KernelTakes, KernelReturns, HeapInv
  <1>7. CASE UNCHANGED vars
    BY <1>7 DEF vars, HeapInv
  <1> QED BY <1>1, <1>2, <1>3, <1>4, <1>5, <1>6, <1>7 DEF Next

LEMMA HeapAtBoot == Init => HeapInv
  <1> SUFFICES ASSUME Init PROVE HeapInv
    OBVIOUS
  <1>1. <<>> \in Seq(Blocks)
    OBVIOUS
  <1>2. heap \in [Processes -> Seq(Blocks)] /\ held \in [Processes -> [Pointers -> Answers]]
    BY <1>1, NothingIs DEF Init
  <1>3. \A p \in Processes : /\ heap[p] = <<>> /\ held[p] = NoPointers
                             /\ process[p].status = "none"
    BY DEF Init, MemoryInit, NoProcess
  <1> QED BY <1>2, <1>3 DEF HeapInv, HeapOf

LEMMA HeapAlways == Spec => [](MemoryInv /\ HeapInv)
  <1>1. Init => MemoryInv /\ HeapInv
    BY MemoryAtBoot, HeapAtBoot DEF Init
  <1>2. MemoryInv /\ HeapInv /\ [Next]_vars => (MemoryInv /\ HeapInv)'
    BY MemoryKept, HeapKept
  <1> QED BY <1>1, <1>2, PTL DEF Spec
\* What a process can reach is its own, under one address only, and nobody else's: for
\* any number of processes, frames, segments and arguments, whatever fails half-way.  The
\* page beyond the stack is the exception.
THEOREM PagesStayPrivate == Spec => []PagesPrivate
  <1>1. ASSUME MemoryInv PROVE PagesPrivate
    <2> SUFFICES ASSUME NEW p \in Processes
                 PROVE  LET va == process[p].va
                            tables == TableFrames(p) IN
                          /\ \A a \in DOMAIN va \ {BeyondStack} :
                               /\ owner[va[a]] = p
                               /\ \A b \in DOMAIN va \ {a, BeyondStack} : va[a] # va[b]
                               /\ va[a] \notin tables
                          /\ \A f \in tables : owner[f] = p
                          /\ Alive(p) => owner[process[p].data] = "kernel"
      BY DEF PagesPrivate
    <2>1. Whole(owner, p, process[p])
      BY <1>1 DEF MemoryInv, MemoryOf
    <2>2. Private(owner, p, process[p].va, process[p].tables)
      BY <2>1 DEF Whole
    <2>3. Alive(p) => owner[process[p].data] = "kernel"
      BY <2>1 DEF Whole, Kept, Alive
    <2> QED BY <2>2, <2>3 DEF Private, TableFrames
  <1> QED BY <1>1, MemoryAlways, PTL

\* The page tables and what the kernel notes of a process never disagree: as long as no
\* table is lost, every page leads to its frame with its own rights, the kernel's pages are
\* there for the kernel only, and nothing else is; and the kernel can reach all memory.
THEOREM TablesStayTrue == Spec => []TablesAgree
  <1>1. ASSUME MemoryInv, ~halted, NEW p \in Processes
        PROVE  LET tables == process[p].tables
               IN  /\ \A page \in DOMAIN process[p].va :
                        Leads(tables, AddressOfPage(page)) =
                          [frame |-> process[p].va[page], flags |-> FlagsOf(page)]
                   /\ Alive(p) => \A page \in KernelPages :
                        Leads(tables, page) =
                          [frame |-> page, flags |-> IF page \in TextPages THEN {} ELSE {"rw"}]
                   /\ {x \in DOMAIN tables : tables[x].page}
                        \subseteq {At(page, 4) : page \in KernelPages \cup UserPages(p)}
    <2> DEFINE tables == process[p].tables
               va == process[p].va
               kernel == Needed(process[p].status)
    <2>1. Agrees(va, tables, kernel)
      BY <1>1 DEF MemoryInv, Mapped
    <2>2. DOMAIN va \in SUBSET Pages /\ va \in [DOMAIN va -> Places]
      <3>1. process[p] \in Structs
        BY <1>1 DEF MemoryInv, MemoryOf
      <3> QED BY <3>1, PartialIs DEF Structs
    <2>3. Alive(p) => kernel = KernelPages
      BY DEF Alive, Needed
    <2>4. UserPages(p) = {AddressOfPage(page) : page \in DOMAIN va}
      BY DEF UserPages
    <2> HIDE DEF tables, va, kernel
    <2>5. ASSUME NEW page \in DOMAIN va
          PROVE  Leads(tables, AddressOfPage(page)) =
                   [frame |-> va[page], flags |-> FlagsOf(page)]
      <3>1. page \in Pages /\ va[page] \in Nat
        <4>1. Places \subseteq Nat
          BY MemoryAssumption DEF Places, Frames
        <4> QED BY <2>2, <4>1
      <3>2. AddressOfPage(page) \in Nat /\ FlagsOf(page) \in SUBSET Flags
        BY <3>1, PageIn
      <3>3. Passes(tables) /\ IsEntry(tables, AddressOfPage(page), va[page], FlagsOf(page))
        BY <2>1 DEF Agrees
      <3> QED BY <3>1, <3>2, <3>3, LeadsTo
    <2>6. ASSUME Alive(p), NEW page \in KernelPages
          PROVE  Leads(tables, page) =
                   [frame |-> page, flags |-> IF page \in TextPages THEN {} ELSE {"rw"}]
      <3>1. page \in Nat /\ KernelFlags(page) \in SUBSET Flags
        BY AreNumbers DEF KernelFlags, Flags
      <3>2. Passes(tables) /\ IsEntry(tables, page, page, KernelFlags(page))
        BY <2>1, <2>3, <2>6 DEF Agrees
      <3>3. Leads(tables, page) = [frame |-> page, flags |-> KernelFlags(page)]
        BY <3>1, <3>2, LeadsTo
      <3> QED BY <3>3 DEF KernelFlags
    <2>7. ASSUME NEW x \in DOMAIN tables, tables[x].page
          PROVE  x \in {At(page, 4) : page \in KernelPages \cup UserPages(p)}
      <3>1. x[1] = 4
        BY <2>1, <2>7 DEF Agrees, Passes
      <3>2. CASE \E page \in KernelPages : x = At(page, 4)
        BY <3>2
      <3>3. CASE \E page \in DOMAIN va : x = At(AddressOfPage(page), 4)
        <4>1. PICK page \in DOMAIN va : x = At(AddressOfPage(page), 4)
          BY <3>3
        <4>2. AddressOfPage(page) \in UserPages(p)
          BY <2>4
        <4> QED BY <4>1, <4>2
      <3> QED BY <2>1, <3>1, <3>2, <3>3 DEF Agrees
    <2> QED BY <2>5, <2>6, <2>7 DEF tables, va
  <1>2. MemoryInv => TablesAgree
    <2> SUFFICES ASSUME MemoryInv PROVE TablesAgree
      OBVIOUS
    <2>1. KernelReaches
      BY KernelCanReach
    <2> QED BY <1>1, <2>1 DEF TablesAgree
  <1> QED BY <1>2, MemoryAlways, PTL

\* The page of the initialisation data is the process's own, everything that begins in it
\* is copied there, the pieces do not overlap, and only the last one can go on past its
\* end, however many arguments there are and however long they are.
THEOREM ArgumentsStayHeld == Spec => []InitDataHeld
  <1>1. ASSUME MemoryInv PROVE InitDataHeld
    <2> SUFFICES ASSUME NEW p \in Processes, Alive(p)
                 PROVE  LET args == process[p].args
                            va   == process[p].va
                            page == <<"init", 0>>
                        IN  /\ page \in DOMAIN va /\ owner[va[page]] = p
                            /\ \A i \in DOMAIN args :
                                 /\ args[i].at < PageSize => args[i].frame = va[page]
                                 /\ i < Len(args) => args[i].at + args[i].size <= PageSize
                                 /\ \A j \in 1..(i - 1) :
                                      args[j].at + args[j].size <= args[i].at
      BY DEF InitDataHeld
    <2> DEFINE args == process[p].args
               va == process[p].va
    <2>1. Whole(owner, p, process[p]) /\ process[p] \in Structs
      BY <1>1 DEF MemoryInv, MemoryOf
    <2>2. ArgumentsHeld(process[p]) /\ Private(owner, p, va, process[p].tables)
      BY <2>1 DEF Whole, Kept, Alive
    <2>3. InitPage \in DOMAIN va /\ owner[va[InitPage]] = p
      BY <2>2 DEF ArgumentsHeld, Private, InitPage, BeyondStack
    <2>4. DOMAIN args = 1..Len(args)
      BY <2>1 DEF Structs
    <2> HIDE DEF args, va
    <2>5. ASSUME NEW i \in DOMAIN args
          PROVE  /\ args[i].at < PageSize => args[i].frame = va[InitPage]
                 /\ i < Len(args) => args[i].at + args[i].size <= PageSize
                 /\ \A j \in 1..(i - 1) : args[j].at + args[j].size <= args[i].at
      <3>1. Held(args, process[p].init_ptr, va[InitPage])
        BY <2>2 DEF ArgumentsHeld, args, va
      <3>2. \A n \in 1..Len(args) : n < Len(args) => InFirstPage(args[n])
        BY <2>2 DEF ArgumentsHeld, LastMaySpill, args
      <3> QED BY <2>4, <3>1, <3>2 DEF Held, InFirstPage
    <2> QED BY <2>3, <2>5 DEF InitPage, args, va
  <1> QED BY <1>1, MemoryAlways, PTL

\* The structs, the heaps and the pointers have the values that the code can give them.
\* This rests on the two invariants: an address that malloc answers with is one only
\* because every block, even one whose size has wrapped, takes some bytes with its header.
THEOREM MemoryTyped == Spec => []TypeOK
  <1>1. ASSUME MemoryInv, HeapInv PROVE TypeOK
    <2>1. /\ owner \in [Frames -> Owners] /\ halted \in BOOLEAN
          /\ process \in [Processes -> Structs]
      BY <1>1 DEF MemoryInv, MemoryOf
    <2>2. ASSUME NEW p \in Processes
          PROVE  /\ process[p].status \in Statuses
                 /\ {process[p].heap_size, process[p].init_ptr} \subseteq Nat
                 /\ process[p].data \in {NULL} \cup Frames
                 /\ \A page \in DOMAIN process[p].va :
                      /\ page[1] \in Areas /\ page[2] \in Nat
                      /\ process[p].va[page] \in Frames \cup {FirstFrame + FrameCount}
      <3>1. process[p] \in Structs
        BY <2>1
      <3>2. /\ DOMAIN process[p].va \in SUBSET Pages
            /\ process[p].va \in [DOMAIN process[p].va -> Places]
        BY <3>1, PartialIs DEF Structs
      <3>3. /\ process[p].status \in Statuses
            /\ {process[p].heap_size, process[p].init_ptr} \subseteq Nat
            /\ process[p].data \in {NULL} \cup Frames
        BY <3>1 DEF Structs
      <3>4. ASSUME NEW page \in DOMAIN process[p].va
            PROVE  /\ page[1] \in Areas /\ page[2] \in Nat
                   /\ process[p].va[page] \in Frames \cup {FirstFrame + FrameCount}
        BY <3>2 DEF Pages, Places
      <3> QED BY <3>3, <3>4
    <2>3. heap \in [Processes -> Seq(Blocks)] /\ held \in [Processes -> [Pointers -> Answers]]
      BY <1>1 DEF HeapInv
    <2> QED BY <2>1, <2>2, <2>3 DEF TypeOK, Blocks, Answers
  <1> QED BY <1>1, HeapAlways, PTL

\* heap_size counts the pages of the heap that are mapped, however far a call of
\* KernelFunctionNewPage got, and the blocks of malloc end at the end of one of them.
THEOREM HeapStaysMapped == Spec => []HeapMapped
  <1>1. ASSUME MemoryInv, HeapInv PROVE HeapMapped
    <2> SUFFICES ASSUME NEW p \in Processes, Alive(p)
                 PROVE  /\ \A n \in 0..FrameCount :
                             <<"heap", n>> \in DOMAIN process[p].va <=> n < process[p].heap_size
                        /\ process[p].status = "running" =>
                             /\ Extent(heap[p]) <= process[p].heap_size * PageSize
                             /\ Extent(heap[p]) % PageSize = 0
      BY DEF HeapMapped
    <2> DEFINE pages == process[p].heap_size
    <2>1. process[p] \in Structs /\ Whole(owner, p, process[p])
      BY <1>1 DEF MemoryInv, MemoryOf
    <2>2. pages \in Nat /\ HeapPages(process[p]) = 0..(pages - 1)
      BY <2>1 DEF Structs, Whole, Kept, HeapCounted, Alive
    <2>3. ASSUME NEW n \in 0..FrameCount
          PROVE  <<"heap", n>> \in DOMAIN process[p].va <=> n < pages
      <3>1. n \in Nat
        BY MemoryAssumption
      <3>2. n \in HeapPages(process[p]) <=> n < pages
        <4> HIDE DEF pages
        <4> QED BY <2>2, <3>1
      <3> QED BY <3>1, <3>2 DEF HeapPages
    <2>4. ASSUME process[p].status = "running"
          PROVE  Extent(heap[p]) <= pages * PageSize /\ Extent(heap[p]) % PageSize = 0
      <3>1. PICK m \in 0..pages : Extent(heap[p]) = m * PageSize
        BY <1>1, <2>4 DEF HeapInv, HeapOf, InOrder
      <3> HIDE DEF pages
      <3>2. PICK d \in Nat : pages = m + d
        <4>1. pages - m \in Nat /\ pages = m + (pages - m)
          BY <2>2
        <4> QED BY <4>1
      <3>3. m \in Nat /\ PageSize \in Nat \ {0}
        BY <2>2, HeaderIs
      <3>4. (m + d) * PageSize = m * PageSize + d * PageSize
        BY <3>2, <3>3
      <3>5. d * PageSize \in Nat /\ m * PageSize \in Nat
        BY <3>2, <3>3
      <3>6. (m * PageSize) % PageSize = 0
        BY <3>3
      <3> QED BY <3>1, <3>2, <3>4, <3>5, <3>6
    <2> QED BY <2>3, <2>4
  <1> QED BY <1>1, HeapAlways, PTL

\* As long as no header was overwritten, the blocks of a heap that are in use are exactly
\* those that the program holds, with room for what it asked for, in mapped memory, and
\* they do not overlap: for any sizes, any number of pointers and any sequence of malloc,
\* free and realloc.
THEOREM PointersStayHeld == Spec => []PointersHold
  <1>1. ASSUME MemoryInv, HeapInv, NEW p \in Processes, process[p].status = "running"
        PROVE  LET holders == {x \in Pointers : held[p][x] # Nothing}
               IN  /\ \A x \in holders :
                        /\ \E i \in DOMAIN heap[p] : /\ AddressOf(heap[p], i) = held[p][x].at
                                                     /\ heap[p][i].used
                                                     /\ heap[p][i].size >= held[p][x].size
                        /\ held[p][x].at + held[p][x].size <= process[p].heap_size * PageSize
                        /\ \A y \in holders \ {x} : Apart(p, x, y)
                   /\ \A i \in DOMAIN heap[p] : heap[p][i].used =>
                        \E x \in holders : held[p][x].at = AddressOf(heap[p], i)
    <2> DEFINE blocks == heap[p]
               pointers == held[p]
               holders == {x \in Pointers : pointers[x] # Nothing}
               limit == process[p].heap_size * PageSize
    <2>1. /\ pointers \in [Pointers -> Answers] /\ blocks \in Seq(Blocks)
          /\ HeldBy(blocks, pointers) /\ InOrder(blocks, process[p].heap_size)
      BY <1>1 DEF HeapInv, HeapOf
    <2>2. Sound(blocks) /\ DOMAIN blocks = 1..Len(blocks)
      BY <2>1 DEF InOrder
    <2>3. Extent(blocks) <= limit /\ Extent(blocks) \in Int /\ limit \in Int
      <3>1. process[p].heap_size \in Nat /\ PageSize \in Nat \ {0}
        BY <1>1, HeaderIs DEF MemoryInv, MemoryOf, Structs
      <3>2. PICK m \in 0..process[p].heap_size : Extent(blocks) = m * PageSize
        BY <2>1 DEF InOrder
      <3>3. PICK d \in Nat : process[p].heap_size = m + d
        <4>1. process[p].heap_size - m \in Nat
              /\ process[p].heap_size = m + (process[p].heap_size - m)
          BY <3>1
        <4> QED BY <4>1
      <3>4. m \in Nat /\ (m + d) * PageSize = m * PageSize + d * PageSize
        BY <3>1, <3>3
      <3>5. d * PageSize \in Nat /\ m * PageSize \in Nat
        BY <3>1, <3>4
      <3> QED BY <3>2, <3>3, <3>4, <3>5
    <2> HIDE DEF blocks, pointers, limit
    <2>4. ASSUME NEW x \in holders
          PROVE  \E i \in 1..Len(blocks) : /\ AddressOf(blocks, i) = pointers[x].at
                                           /\ blocks[i].used
                                           /\ blocks[i].size >= pointers[x].size
      <3>1. PICK u \in InUse(blocks) : u.at = pointers[x].at /\ u.size >= pointers[x].size
        BY <2>1 DEF HeldBy
      <3>2. PICK i \in Used(blocks) : u = At_(blocks, i)
        BY DEF InUse
      <3>3. u.at = AddressOf(blocks, i) /\ u.size = blocks[i].size
        BY <3>2 DEF At_
      <3> QED BY <3>1, <3>2, <3>3 DEF Used
    <2>5. ASSUME NEW x \in holders PROVE pointers[x].at \in Nat /\ pointers[x].size \in Nat
      <3>1. pointers[x] \in Answers /\ {0} \cup Sizes \subseteq Nat
        BY <2>1, HeapAssumption
      <3> QED BY <3>1 DEF Answers
    <2>6. ASSUME NEW x \in holders PROVE pointers[x].at + pointers[x].size <= limit
      <3>1. PICK i \in 1..Len(blocks) : /\ AddressOf(blocks, i) = pointers[x].at
                                        /\ blocks[i].used
                                        /\ blocks[i].size >= pointers[x].size
        BY <2>4
      <3>2. AddressOf(blocks, i) + blocks[i].size <= Extent(blocks) /\ blocks[i].size \in Int
        BY <2>1, <2>2, AddressIn, BlockIn
      <3> QED BY <2>3, <2>5, <3>1, <3>2
    <2>7. ASSUME NEW x \in holders, NEW y \in holders \ {x}
          PROVE  \/ pointers[x].at + pointers[x].size <= pointers[y].at
                 \/ pointers[y].at + pointers[y].size <= pointers[x].at
      <3>1. PICK i \in 1..Len(blocks) : /\ AddressOf(blocks, i) = pointers[x].at
                                        /\ blocks[i].size >= pointers[x].size
        BY <2>4
      <3>2. PICK j \in 1..Len(blocks) : /\ AddressOf(blocks, j) = pointers[y].at
                                        /\ blocks[j].size >= pointers[y].size
        BY <2>4
      <3>3. pointers[x].at # pointers[y].at
        BY <2>1 DEF HeldBy
      <3>4. i # j
        BY <3>1, <3>2, <3>3
      <3>5. blocks[i].size \in Int /\ blocks[j].size \in Int
        BY <2>1, BlockIn
      <3>6. CASE i < j
        <4>1. AddressOf(blocks, i) + blocks[i].size < AddressOf(blocks, j)
          BY <2>2, <3>6, AddressesDiffer
        <4> QED BY <2>5, <3>1, <3>2, <3>5, <4>1
      <3>7. CASE j < i
        <4>1. AddressOf(blocks, j) + blocks[j].size < AddressOf(blocks, i)
          BY <2>2, <3>7, AddressesDiffer
        <4> QED BY SMTT(30), <2>5, <3>1, <3>2, <3>5, <4>1
      <3> QED BY <3>4, <3>6, <3>7
    <2>8. ASSUME NEW i \in 1..Len(blocks), blocks[i].used
          PROVE  \E x \in holders : pointers[x].at = AddressOf(blocks, i)
      <3>1. At_(blocks, i) \in InUse(blocks) /\ At_(blocks, i).at = AddressOf(blocks, i)
        BY <2>8 DEF InUse, Used, At_
      <3> QED BY <2>1, <3>1 DEF HeldBy
    <2>9. ASSUME NEW x \in holders, NEW y \in holders \ {x} PROVE Apart(p, x, y)
      BY <2>7 DEF Apart, pointers
    <2> QED BY <2>2, <2>4, <2>6, <2>8, <2>9 DEF blocks, pointers, limit
  <1>2. MemoryInv /\ HeapInv => PointersHold
    BY <1>1 DEF PointersHold
  <1> QED BY <1>2, HeapAlways, PTL
=============================================================================
