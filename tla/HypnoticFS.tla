----------------------------- MODULE HypnoticFS -----------------------------
(***************************************************************************)
(* An HypnoticFS image: the tools hypnoticfs-mkdir and hypnoticfs-add that *)
(* fill it while the system is built, and the functions with which the     *)
(* kernel finds, lists and reads what is on it.                            *)
(*                                                                         *)
(* The index is an array of slots.  The offset of a slot in the image,     *)
(* which the code uses to name a directory, is the slot's number here, and *)
(* 0 is the root.  A byte of data is the path of the file it was written   *)
(* to, its position in that file, and who wrote it.                        *)
(***************************************************************************)
EXTENDS Path

CONSTANTS
  Names,
  Sizes,       \* the sizes of the files that are added
  Slots,       \* the number of slots for which there is room
  IndexSize,   \* where the data starts
  ImageSize,   \* the size of a new image
  MaxDepth     \* bound: the longest path

ASSUME ImageAssumption ==
  /\ Names \cap Special = {}
  /\ Sizes \subseteq Nat
  /\ Slots \in Nat /\ IndexSize \in Nat \ {0} /\ ImageSize \in Nat
  /\ IndexSize <= ImageSize

VARIABLES
  index,  \* the slots
  data,   \* the bytes of the image from IndexSize on
  files,  \* history: the files there are, with the bytes each should have
  dirs    \* history: the directories that were made

vars == <<index, data, files, dirs>>

NULL   == "null"
Root   == 0
NoByte == <<>>
Any    == <<"any">>  \* a byte of a file that nothing was written to
Empty  == [type |-> "empty", parent_offset |-> Root, size |-> 0, offset |-> 0,
           name |-> ""]

Paths == UNION {[1..n -> Names] : n \in 1..MaxDepth}
Bytes == Paths \X Nat \X {"tool", "kernel"}
Directory(path) == SubSeq(path, 1, Len(path) - 1)

\* hypnoticfs-new
Init ==
  /\ index = [s \in 1..Slots |-> Empty]
  /\ data = [o \in 1..(ImageSize - IndexSize) |-> NoByte]
  /\ files = <<>>
  /\ dirs = {}

-----------------------------------------------------------------------------
\* Finding an entry.  The tools and the kernel do it the same way.

None == -1
FirstOf(S) == IF S = {} THEN None ELSE CHOOSE s \in S : \A t \in S : s <= t

EntriesNamed(name, parent) ==
  {s \in DOMAIN index : /\ index[s].type # "empty"
                        /\ index[s].parent_offset = parent
                        /\ index[s].name = name}

\* The slot of the directory that a path leads to.
ParentOffset(path) ==
  LET at[i \in 0..Len(path)] ==
        IF i = 0 THEN Root
        ELSE IF at[i - 1] = None THEN None
        ELSE FirstOf({s \in EntriesNamed(path[i], at[i - 1]) :
                        index[s].type = "directory"})
  IN  at[Len(path)]

GetIndex(path) ==
  IF path = <<>> \/ ParentOffset(Directory(path)) = None THEN None
  ELSE FirstOf(EntriesNamed(path[Len(path)], ParentOffset(Directory(path))))

EmptySlots == {s \in DOMAIN index : index[s].type = "empty"}
\* Mutant: the search for an empty slot does not stop at the first.
GetLastEmptyIndex ==
  IF EmptySlots = {} THEN None
  ELSE CHOOSE s \in EmptySlots : \A t \in EmptySlots : s >= t
GetEmptyIndex == FirstOf(EmptySlots)

\* The checks of both tools: the directory is there, the name is not, and
\* there is an empty slot for it.
CanAdd(path) ==
  /\ ParentOffset(Directory(path)) # None
  /\ GetIndex(path) = None
  /\ GetEmptyIndex # None

NewEntry(path, type, size, offset) ==
  index' = [index EXCEPT ![GetEmptyIndex] =
    [type |-> type, parent_offset |-> ParentOffset(Directory(path)),
     size |-> size, offset |-> offset, name |-> path[Len(path)]]]

-----------------------------------------------------------------------------
\* The tools.

\* Two files need a gap between them, and a file of size 0 takes part.
CheckOverlap(offset, size) ==
  \E s \in DOMAIN index :
    /\ index[s].type # "empty"
    /\ index[s].offset + index[s].size >= offset
    /\ index[s].offset <= offset + size

\* Mutant: the end of an entry without data, a directory, is tried too.
BehindEntriesAll(size) ==
  {s \in DOMAIN index :
     /\ index[s].type # "empty"
     /\ ~CheckOverlap(index[s].offset + index[s].size + 1, size)}

\* The entries with room for the data one byte behind their end.
BehindEntries(size) ==
  {s \in DOMAIN index :
     /\ index[s].type # "empty"
     /\ index[s].offset + index[s].size + 1 >= IndexSize
     /\ ~CheckOverlap(index[s].offset + index[s].size + 1, size)}

FindOffset(size) ==
  LET s == FirstOf(BehindEntries(size))
  IN  IF ~CheckOverlap(IndexSize, size) THEN IndexSize
      ELSE IF s = None THEN None
      ELSE index[s].offset + index[s].size + 1

\* A file that is written behind its end grows; the gap reads as zeroes.
Written(offset, content) ==
  LET first == offset - IndexSize
      grown == IF content # <<>> /\ first + Len(content) > Len(data)
               THEN first + Len(content) ELSE Len(data)
  IN  [o \in 1..grown |->
         IF o \in (first + 1)..(first + Len(content)) THEN content[o - first]
         ELSE IF o <= Len(data) THEN data[o] ELSE NoByte]

Content(path, size) == [k \in 1..size |-> <<path, k, "tool">>]

Mkdir(path) ==
  /\ CanAdd(path)
  /\ NewEntry(path, "directory", 0, 0)
  /\ dirs' = dirs \cup {path}
  /\ UNCHANGED <<data, files>>

\* The data are written before the entry.
Add(path, size) ==
  /\ CanAdd(path)
  /\ size < Len(data)
  /\ FindOffset(size) # None
  /\ data' = Written(FindOffset(size), Content(path, size))
  /\ NewEntry(path, "file", size, FindOffset(size))
  /\ files' = [p \in DOMAIN files \cup {path} |->
                IF p = path THEN Content(path, size) ELSE files[p]]
  /\ UNCHANGED dirs

\* Reading the source or writing fails on the way, or the tool is stopped: some
\* of the data are on the image, the entry is not.
AddFails(path, size) ==
  /\ CanAdd(path)
  /\ size < Len(data)
  /\ FindOffset(size) # None
  /\ \E n \in 1..size :
       data' = Written(FindOffset(size), SubSeq(Content(path, size), 1, n))
  /\ UNCHANGED <<index, files, dirs>>

Next ==
  \E path \in Paths :
    \/ Mkdir(path)
    \/ \E size \in Sizes : Add(path, size) \/ AddFails(path, size)

Spec == Init /\ [][Next]_vars

-----------------------------------------------------------------------------
\* The kernel reads.

\* StorageRead does not read behind the end of the storage.  A byte in front of the
\* data, of the header or of the index, is a byte of nobody's file.
StorageRead(offset, size) ==
  IF offset + size > IndexSize + Len(data) THEN <<>>
  ELSE [k \in 1..size |-> IF offset + k > IndexSize THEN data[offset + k - IndexSize]
                          ELSE NoByte]

\* FsRead, for an offset up to the size of the file.  A read that ends inside
\* of the file returns offset bytes too many.
FsRead(path, offset, size) ==
  LET s == GetIndex(path)
      read_size == IF offset + size > index[s].size
                   THEN index[s].size - offset ELSE offset + size
  IN  StorageRead(index[s].offset + offset, read_size)

FsDetailsGet(path) ==
  LET s == GetIndex(path)
  IN  IF s = None THEN NULL ELSE [type |-> index[s].type, size |-> index[s].size]

\* The list ends at the first slot that has the right parent and is empty:
\* that is every empty slot if the directory is the root.
FsList(path) ==
  LET directory == IF path = <<>> THEN Root ELSE GetIndex(path)
      children  == {s \in DOMAIN index : index[s].parent_offset = directory}
      end       == FirstOf(children \cap EmptySlots)
  IN  {index[s].name : s \in {s \in children : end = None \/ s < end}}

=============================================================================
