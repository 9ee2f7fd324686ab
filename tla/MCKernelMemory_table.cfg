\* A first table of seven entries that is full after a few allocations.
CONSTANTS
  MemoryMap <- SmallMap
  BootAreas <- KernelAndModule
  Pointers = {p1, p2}
  Sizes = {0, 3}
  PageSize = 4
  MEMORY_FLOOR = 4
  WordSize = 64
  MEMORY_TABLE_INITIAL_ENTRIES = 7
  MEMORY_TABLE_NEW_TABLE_ENTRIES = 3
  TableReserve = 3
  EntrySize = 1
  TableIndexSize = 1
  BlockSize = 1
SYMMETRY Interchangeable
SPECIFICATION Spec
INVARIANTS TypeOK Disjoint Accounted TablesGrow FirstFit
CHECK_DEADLOCK FALSE
