---------------------------- MODULE OpenIndices -----------------------------
(***************************************************************************)
(* The table of open indices: a process that lists a directory locks its   *)
(* path and gets the id of the entry as a handle.  The kernel functions    *)
(* run one at a time (Dispatcher); DispatcherIndexLockCheck, which a dying *)
(* process runs over the table it shortens, takes one action per visit.    *)
(*                                                                         *)
(* An entry points to the struct of its process.  When the struct is freed *)
(* and the entry is still there, owner is Freed, and what the code reads   *)
(* in process->pid is arbitrary: the old pid, or that of a process whose   *)
(* struct has got the same memory.                                         *)
(***************************************************************************)
EXTENDS Integers, Sequences, FiniteSets

CONSTANTS
  Pids,
  Paths,
  OPEN_INDICES_MAX_ID  \* 10000 in the code

ASSUME OpenIndicesAssumption ==
  0 \notin Pids /\ OPEN_INDICES_MAX_ID \in Nat \ {0}

Freed == 0
Ids   == 1..(OPEN_INDICES_MAX_ID - 1)

VARIABLES
  indices,  \* DispatcherOpenIndices
  live,     \* the processes
  handles,  \* the ids that DirectoryGet returned and the process has not closed
  check     \* DispatcherIndexLockCheck: its process, its index, and (history)
            \* the number of entries it has removed

vars == <<indices, live, handles, check>>

NoCheck == [pid |-> Freed, at |-> 1, released |-> 0]

Init ==
  /\ indices = <<>>
  /\ live = {}
  /\ handles = {}
  /\ check = NoCheck

-----------------------------------------------------------------------------
Used(id)     == \E i \in DOMAIN indices : indices[i].id = id
\* Mutant: the path is not compared with those of the table.
LockedNever(path) == FALSE
Locked(path) == \E i \in DOMAIN indices : indices[i].path = path

\* What the test process->pid == p->pid may say of an entry.
MayBelong(entry, p) == entry.owner \in {p, Freed}
MayNotBelong(entry, p) == entry.owner # p

\* DispatcherIndexLockDone_Locked: the entry with the id goes, the entries
\* behind it move forward.
WithoutId(s, id) ==
  LET i == CHOOSE i \in DOMAIN s : s[i].id = id
  IN  [j \in 1..(Len(s) - 1) |-> IF j < i THEN s[j] ELSE s[j + 1]]

\* Mutant: the loop tries the maximum as well.
TriedIdsToMax == 1..OPEN_INDICES_MAX_ID
\* The ids that the loop tries.
TriedIds == 1..(OPEN_INDICES_MAX_ID - 1)
\* The lowest id that no entry has.
NewId(id) == ~Used(id) /\ \A j \in 1..(id - 1) : Used(j)

\* DispatcherIndexLockAttempt, then FsList: data says whether the directory could
\* be listed.  If it could not, the entry stays although the caller gets no id.
LockAttempt(p, path, data) ==
  /\ ~Locked(path)
  /\ \E id \in TriedIds :
       /\ NewId(id)
       /\ indices' = Append(indices, [id |-> id, path |-> path, owner |-> p,
                                      data |-> data])
       /\ handles' = IF data THEN handles \cup {[pid |-> p, id |-> id, path |-> path]}
                     ELSE handles

KernelFunctionDirectoryGet(p) ==
  /\ \E path \in Paths, data \in BOOLEAN : LockAttempt(p, path, data)
  /\ UNCHANGED <<live, check>>

\* Mutant: any process may use the id.
RetrieveById(p, i) == i \in DOMAIN indices
\* DispatcherIndexLockRetrieve finds entry i for process p.
Retrieve(p, i) == i \in DOMAIN indices /\ MayBelong(indices[i], p)

\* DirectoryDone with an id that Retrieve finds; without one nothing happens.
KernelFunctionDirectoryDone(p) ==
  /\ \E i \in 1..Len(indices) :
       /\ Retrieve(p, i)
       /\ indices' = WithoutId(indices, indices[i].id)
       /\ handles' = {h \in handles : h.pid # p \/ h.id # indices[i].id}
  /\ UNCHANGED <<live, check>>

DispatcherProcessNew(p) ==
  /\ p \notin live
  /\ live' = live \cup {p}
  /\ UNCHANGED <<indices, handles, check>>

-----------------------------------------------------------------------------
(* DispatcherProcessDone: DispatcherIndexLockCheck, then the struct is     *)
(* freed.  check.at is the loop's index, counted from 1.                   *)

Checking == check.pid # Freed

CheckStart(p) ==
  /\ check' = [NoCheck EXCEPT !.pid = p]
  /\ UNCHANGED <<indices, live, handles>>

\* Mutant: the walk ends at the first entry it removes.
CheckReleaseLast ==
  /\ check.at \in DOMAIN indices
  /\ MayBelong(indices[check.at], check.pid)
  /\ indices' = WithoutId(indices, indices[check.at].id)
  /\ check' = [check EXCEPT !.at = Len(indices) + 1, !.released = @ + 1]
  /\ UNCHANGED <<live, handles>>

\* The entry is removed, and the index moves on although the next entry has moved
\* to its place.
CheckRelease ==
  /\ check.at \in DOMAIN indices
  /\ MayBelong(indices[check.at], check.pid)
  /\ indices' = WithoutId(indices, indices[check.at].id)
  /\ check' = [check EXCEPT !.at = @ + 1, !.released = @ + 1]
  /\ UNCHANGED <<live, handles>>

CheckPass ==
  /\ check.at \in DOMAIN indices
  /\ MayNotBelong(indices[check.at], check.pid)
  /\ check' = [check EXCEPT !.at = @ + 1]
  /\ UNCHANGED <<indices, live, handles>>

Orphaned(p) ==
  [i \in DOMAIN indices |->
     IF indices[i].owner = p THEN [indices[i] EXCEPT !.owner = Freed]
     ELSE indices[i]]

CheckEnd ==
  /\ check.at \notin DOMAIN indices
  /\ indices' = Orphaned(check.pid)
  /\ live' = live \ {check.pid}
  /\ handles' = {h \in handles : h.pid # check.pid}
  /\ check' = NoCheck

DispatcherProcessDone == CheckRelease \/ CheckPass \/ CheckEnd

Next ==
  \/ /\ ~Checking
     /\ \/ \E p \in Pids : DispatcherProcessNew(p)
        \/ \E p \in live : \/ KernelFunctionDirectoryGet(p)
                           \/ KernelFunctionDirectoryDone(p)
                           \/ CheckStart(p)
  \/ Checking /\ DispatcherProcessDone

Spec == Init /\ [][Next]_vars

-----------------------------------------------------------------------------
Entry == [id : Ids, path : Paths, owner : Pids \cup {Freed}, data : BOOLEAN]

\* The type of every variable.
TypeOK ==
  /\ indices \in Seq(Entry)
  /\ live \in SUBSET Pids
  /\ handles \in SUBSET [pid : Pids, id : Ids, path : Paths]
  /\ check \in [pid : Pids \cup {Freed}, at : Nat \ {0}, released : Nat]

\* No path is locked twice, and no id stands for two entries.
LocksDistinct ==
  \A i, j \in DOMAIN indices :
    i # j => indices[i].path # indices[j].path /\ indices[i].id # indices[j].id

\* An id that DirectoryGet returned stands for the same path of the same process
\* until that process closes it or ends, and a process has no listed directory
\* open without knowing its id, whatever ids the processes pass and in whatever
\* order entries are removed.  (The entries of the process that is being checked
\* are on their way out.)
HandlesExact ==
  \A p \in live \ {check.pid} :
    {h \in handles : h.pid = p} =
      {[pid |-> p, id |-> indices[i].id, path |-> indices[i].path] :
         i \in {k \in DOMAIN indices : indices[k].owner = p /\ indices[k].data}}

\* A process that ends leaves no more entries behind than its end has removed:
\* one lock is always released, and of several in a row every other one.
LeakBounded ==
  [][CheckEnd /\ Checking =>
       Cardinality({i \in DOMAIN indices : indices[i].owner = check.pid})
         <= check.released]_vars

\* "Checks for open indices for a process and unlocks the indices."
NoLockOutlivesOwner ==
  \A i \in DOMAIN indices : indices[i].owner \in live
=============================================================================
