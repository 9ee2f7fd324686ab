-------------------------- MODULE HypnoticFSWrite --------------------------
(***************************************************************************)
(* The writing half of the kernel's HypnoticFS: FsWrite and FsNewIndex on  *)
(* an image that the tools have filled and GRUB has loaded into memory.    *)
(*                                                                         *)
(* Offsets are unsigned 64-bit numbers in the code.  They wrap here at     *)
(* Width.  An image in which the data of two entries overlap, or data lie  *)
(* outside of its data part, is torn: what it holds is nobody's file any   *)
(* more, and nothing is done with it.                                      *)
(***************************************************************************)
EXTENDS HypnoticFS

CONSTANTS
  Width,        \* 2^64
  WriteOffsets, \* where in a file is written
  WriteSizes    \* how much

ASSUME WriteAssumption ==
  /\ Width \in Nat /\ WriteOffsets \subseteq Nat /\ WriteSizes \subseteq Nat \ {0}
  /\ \A offset \in WriteOffsets, size \in WriteSizes : offset + size < Width

VARIABLES
  booted,  \* the image is the memory disk of the kernel
  torn

writeVars == <<vars, booted, torn>>

Wrapped(n) == n % Width

RootMax == IndexSize + Len(data)  \* StorageGetMax
NonEmpty == DOMAIN index \ EmptySlots
EntryEnd(s) == index[s].offset + index[s].size

-----------------------------------------------------------------------------
(* The memory disk.                                                        *)

\* The end is computed in 64 bits, too.
StorageFits(offset, size) == Wrapped(offset + size) <= RootMax

\* Nothing but the data part of the image is touched.
InData(offset, size) == offset >= IndexSize /\ offset + size <= RootMax

\* The part of memcpy that hits the data.
Copied(bytes, offset, content) ==
  [o \in DOMAIN bytes |->
     LET k == o + IndexSize - offset
     IN  IF k \in DOMAIN content THEN content[k] ELSE bytes[o]]

-----------------------------------------------------------------------------
(* Space for data.  Only one point is compared with the entries.           *)

\* margin is 1 if an entry must not end right there either.
Free(at, slots, margin) ==
  \A s \in slots :
    ~(index[s].offset = at \/ (index[s].offset < at /\ EntryEnd(s) + margin > at))

RoomBefore(s, size) ==
  /\ Wrapped(index[s].offset - IndexSize) > size
  /\ Free(Wrapped(index[s].offset - size), NonEmpty, 0)

\* Mutant: the place is not compared with the other entries.
RoomAfterUntested(s, size) == EntryEnd(s) + size < RootMax

\* The point is the end of the space that is needed, and is returned as its start.
RoomAfter(s, size) ==
  /\ EntryEnd(s) + size < RootMax
  /\ Free(EntryEnd(s) + size, NonEmpty, 0)

\* The code returns 0 when there is none.
FindSpace(size) ==
  LET s == FirstOf({s \in NonEmpty : RoomBefore(s, size) \/ RoomAfter(s, size)})
  IN  IF NonEmpty = {}
      THEN IF RootMax - IndexSize > size THEN IndexSize ELSE None
      ELSE IF s = None THEN None
      ELSE IF RoomBefore(s, size) THEN Wrapped(index[s].offset - size)
      ELSE EntryEnd(s) + size

\* Where Resize leaves the data of an entry that gets larger: where they are, as
\* much further down as they grow, or somewhere else.  Entries at the same offset
\* are taken for the entry itself.
ResizedOffset(s, size) ==
  LET others == {t \in NonEmpty : index[t].offset # index[s].offset}
      more == size - index[s].size
  IN  IF /\ index[s].offset + size < RootMax
         /\ Free(index[s].offset + size, others, 1)
      THEN index[s].offset
      ELSE IF /\ IndexSize + more < index[s].offset
              /\ Free(index[s].offset - more, others, 1)
      THEN index[s].offset - more
      ELSE FindSpace(size)

-----------------------------------------------------------------------------
(* The functions of the kernel.                                            *)

\* GRUB has loaded the image as a module, and BootLoadModules makes it the root.  It
\* lies in memory, so its size is far from where offsets wrap.
Boot ==
  /\ ~booted
  /\ 3 * RootMax + Slots <= Width
  /\ booted' = TRUE
  /\ UNCHANGED <<vars, torn>>

\* Mutant: the data stay where they were.
MovedDataNot(s, place) == data

\* Resize copies what the entry has to its new place.
MovedData(s, place) ==
  IF place = index[s].offset \/ index[s].size = 0 THEN data
  ELSE Copied(data, place, StorageRead(index[s].offset, index[s].size))

Extent(entry) == entry.offset..(entry.offset + entry.size - 1)

Overlapping ==
  \E s, t \in NonEmpty' :
    s # t /\ Extent(index'[s]) \cap Extent(index'[t]) # {}

Source(path, offset, size) == [k \in 1..size |-> <<path, offset + k, "kernel">>]

\* What the files should have after a write: there is nothing to say of directories.
Expected(path, offset, size, written) ==
  IF path \notin DOMAIN files THEN files
  ELSE LET old == files[path]
  IN  [files EXCEPT ![path] =
       [k \in 1..IF offset + size > Len(old) THEN offset + size ELSE Len(old) |->
         IF written /\ k \in (offset + 1)..(offset + size)
         THEN <<path, k, "kernel">>
         ELSE IF k <= Len(old) THEN old[k] ELSE Any]]

\* Into the space that an entry has.
FsWrite(path, offset, size) ==
  LET s == GetIndex(path)
      at == index[s].offset + offset
  IN  /\ booted /\ ~torn
      /\ s # None /\ offset + size <= index[s].size
      /\ StorageFits(at, size)
      /\ data' = Copied(data, at, Source(path, offset, size))
      /\ torn' = ~InData(at, size)
      /\ files' = Expected(path, offset, size, TRUE)
      /\ UNCHANGED <<index, dirs, booted>>

\* The entry is made larger first: its data are moved, then the entry is written.
\* When the new data do not fit on the storage, the entry stays larger.
FsWriteLarger(path, offset, size) ==
  /\ booted /\ ~torn
  /\ \E s \in {GetIndex(path)} \ {None} :
     /\ offset + size > index[s].size
     /\ \E place \in {ResizedOffset(s, offset + size)} \ {None} :
        LET moves == place # index[s].offset /\ index[s].size # 0
            at == Wrapped(place + offset)
            fits == StorageFits(at, size)
        IN  /\ moves => /\ StorageFits(index[s].offset, index[s].size)
                        /\ StorageFits(place, index[s].size)
            /\ index' = [index EXCEPT ![s].size = offset + size, ![s].offset = place]
            /\ \E moved \in {MovedData(s, place)} :
                 data' = IF fits THEN Copied(moved, at, Source(path, offset, size))
                         ELSE moved
            /\ torn' = \/ Overlapping
                       \/ moves /\ ~InData(place, index[s].size)
                       \/ fits /\ ~InData(at, size)
            /\ files' = Expected(path, offset, size, fits)
            /\ UNCHANGED <<dirs, booted>>

\* The directories of a path are looked for under the whole new path, which is not
\* there yet, so this works in the root only.
FsNewIndex(path, type) ==
  /\ booted /\ ~torn
  /\ GetIndex(path) = None
  /\ Len(path) = 1
  /\ GetEmptyIndex # None
  /\ FindSpace(0) # None
  /\ index' = [index EXCEPT ![GetEmptyIndex] =
       [type |-> type, parent_offset |-> Root, size |-> 0, offset |-> FindSpace(0),
        name |-> path[1]]]
  /\ files' = [p \in DOMAIN files \cup (IF type = "file" THEN {path} ELSE {}) |->
                IF p = path THEN <<>> ELSE files[p]]
  /\ dirs' = IF type = "directory" THEN dirs \cup {path} ELSE dirs
  /\ torn' = FALSE
  /\ UNCHANGED <<data, booted>>

WriteInit == Init /\ booted = FALSE /\ torn = FALSE

WriteNext ==
  \/ ~booted /\ Next /\ UNCHANGED <<booted, torn>>
  \/ Boot
  \/ \E path \in Paths :
       \/ \E offset \in WriteOffsets, size \in WriteSizes :
            FsWrite(path, offset, size) \/ FsWriteLarger(path, offset, size)
       \/ \E type \in {"file", "directory"} : FsNewIndex(path, type)

WriteSpec == WriteInit /\ [][WriteNext]_writeVars

-----------------------------------------------------------------------------
\* Properties.

\* Slots and sizes keep their types.  The data of a file lie behind the index,
\* where neither the tools nor the kernel take them for slots.
TypeOK ==
  /\ booted \in BOOLEAN /\ torn \in BOOLEAN
  /\ DOMAIN index = 1..Slots
  /\ \A s \in DOMAIN index :
       /\ index[s].type \in {"empty", "file", "directory"}
       /\ index[s].parent_offset \in {Root} \cup DOMAIN index
       /\ index[s].size \in Nat
       /\ index[s].offset \in Nat
       /\ index[s].type = "file" => index[s].offset >= IndexSize
       /\ index[s].name \in Names \cup {""}
  /\ data \in Seq({NoByte} \cup Bytes)

\* The bytes of a file that something was written to.
WrittenBytes(path) == {k \in DOMAIN files[path] : files[path][k] # Any}

LastWritten(path) ==
  CHOOSE k \in WrittenBytes(path) \cup {0} : \A j \in WrittenBytes(path) : j <= k

\* Every file that was made is found by its path, with its size, and reads back
\* what was last written to each of its bytes, whatever has been added, made,
\* written, moved or has failed on the way since; until the image is torn.
ReadsBack ==
  ~torn => \A path \in DOMAIN files :
    /\ FsDetailsGet(path) = [type |-> "file", size |-> Len(files[path])]
    /\ \A last \in {LastWritten(path)} :
       \A read \in {FsRead(path, 0, last)} :
         /\ Len(read) = last
         /\ \A k \in WrittenBytes(path) : read[k] = files[path][k]

\* The list of a directory holds exactly the files and directories that were
\* made in it, although the loop ends at an empty slot.
ListExact ==
  ~torn => \A path \in dirs \cup {<<>>} :
    FsList(path) =
      {p[Len(p)] : p \in {p \in DOMAIN files \cup dirs : Directory(p) = path}}

RawPaths == UNION {[1..n -> Names \cup Special] : n \in 0..3}

\* What the kernel makes of a path, and what it means.
PathsTaken ==
  {<<PathConsolidate(raw), Meaning(raw)>> : raw \in {r \in RawPaths : UpFromName(r)}}

\* A path with ".", ".." and doubled slashes leads to the file it means, if
\* each ".." stands first or right behind a name.  (After another ".." or ".",
\* as in /a/b/../../c, PathConsolidate leaves a name that should be gone.)
PathsLead ==
  \A taken \in PathsTaken :
    taken[1] = taken[2] \/ GetIndex(taken[1]) = GetIndex(taken[2])

\* FindSpace gives a caller the end of the space that it has found, or a difference that
\* has wrapped below 0 in front of a directory, and compares only this point with the
\* entries.  Even so, what it gives lies behind the index and in the data of no entry.
FoundPlaceIsFree ==
  booted /\ ~torn => \A size \in 0..RootMax : \A place \in {FindSpace(size)} \ {None} :
    /\ place >= IndexSize
    /\ \A s \in NonEmpty : place \notin Extent(index[s])
=============================================================================
