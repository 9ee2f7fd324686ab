----------------------------- MODULE MCUserHeap -----------------------------
(* Constants of UserHeap for TLC. *)
EXTENDS UserHeap

CONSTANTS p1, p2, x1, x2

Call(kind, segments, sizes) == [kind |-> kind, segments |-> segments, sizes |-> sizes]
Segment(va, file, memory) == [va |-> va, file |-> file, memory |-> memory]
OnePage == <<Segment(0, 3, 5)>>

\* A program of one page, with no arguments, and with arguments that fill a page, run over
\* its end once, and twice; two segments of which the second begins where the first ends, which cannot be
\* loaded; and what the checks of a file find.
MCCalls ==
  {Call("elf", OnePage, sizes) : sizes \in {<<>>, <<2>>, <<3>>, <<9>>}}
    \cup {Call("elf", <<Segment(0, 8, 8), Segment(8, 1, 2)>>, <<2>>),
          Call("no entry", OnePage, <<2>>), Call("unsupported", <<>>, <<2>>),
          Call("malformed elf", <<>>, <<2>>)}

OneCall == {Call("elf", OnePage, <<1>>)}

\* 2 MB are 4 pages, 1 GB are 16.  The code fills its 2 MB, as the linker aligns it.
MCKernelPages == 4..8
MCTextPages == 4..7
MCDevicePages == <<44, 45>>
MCAreaStart == [program |-> 9, init |-> 11, heap |-> 13, stack |-> 126]

Symmetric == Permutations({p1, p2}) \cup Permutations({x1, x2})
=============================================================================
