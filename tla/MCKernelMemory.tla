--------------------------- MODULE MCKernelMemory ---------------------------
(* Instances of KernelMemory for TLC. *)
EXTENDS KernelMemorySearch, TLC

Region(addr, len, available) == [addr |-> addr, len |-> len, available |-> available]

\* Low memory, a hole, memory that begins at the floor, and a reserved region.
SmallMap == <<Region(0, 2, TRUE), Region(2, 2, FALSE), Region(4, 28, TRUE),
              Region(32, 8, FALSE)>>

KernelAndModule == <<[addr |-> 4, size |-> 4], [addr |-> 17, size |-> 1]>>

Interchangeable == Permutations(Pointers)
=============================================================================
