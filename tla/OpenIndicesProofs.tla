------------------------- MODULE OpenIndicesProofs --------------------------
(***************************************************************************)
(* For any number of processes, paths and ids: the table of open indices   *)
(* keeps paths and ids distinct, and a handle stands for its path until it *)
(* is closed; and a process that ends leaves at most as many locks behind  *)
(* as it releases.                                                         *)
(***************************************************************************)
EXTENDS OpenIndices, FiniteSetTheorems, TLAPS

USE OpenIndicesAssumption DEF Freed

\* Processes, and nothing else, own entries and have handles.
Owners ==
  /\ \A k \in DOMAIN indices : indices[k].owner \in live \cup {Freed}
  /\ \A h \in handles : h.pid \in live
  /\ check.pid \in live \cup {Freed}

\* HandlesExact, element by element and in both directions.
HandlesHaveEntries ==
  \A h \in handles : h.pid # check.pid =>
    \E k \in DOMAIN indices :
      /\ indices[k].owner = h.pid /\ indices[k].data
      /\ indices[k].id = h.id /\ indices[k].path = h.path

EntriesHaveHandles ==
  \A k \in DOMAIN indices :
    indices[k].owner \notin {Freed, check.pid} /\ indices[k].data =>
      [pid |-> indices[k].owner, id |-> indices[k].id, path |-> indices[k].path]
        \in handles

IInv ==
  TypeOK /\ LocksDistinct /\ Owners /\ HandlesHaveEntries /\ EntriesHaveHandles

-----------------------------------------------------------------------------
\* The elements of a table are entries.
LEMMA EntryFields ==
  ASSUME NEW s \in Seq(Entry), NEW k \in DOMAIN s
  PROVE  /\ s[k] \in Entry
         /\ s[k].id \in Ids /\ s[k].path \in Paths
         /\ s[k].owner \in Pids \cup {Freed} /\ s[k].data \in BOOLEAN
<1>1. s[k] \in Entry
  OBVIOUS
<1> QED BY <1>1 DEF Entry

\* t is s without its element i.
Closes(s, i, t) ==
  /\ DOMAIN t = 1..(Len(s) - 1)
  /\ \A j \in DOMAIN t : t[j] = IF j < i THEN s[j] ELSE s[j + 1]

\* No two entries have the same path or the same id.
Distinct(s) ==
  \A i, j \in DOMAIN s : i # j => s[i].path # s[j].path /\ s[i].id # s[j].id

\* t has the elements of s other than s[e], distinct ones, and nothing else.
Removed(s, e, t) ==
  /\ t \in Seq(Entry)
  /\ Distinct(t)
  /\ \A j \in DOMAIN t : \E k \in DOMAIN s \ {e} : t[j] = s[k]
  /\ \A k \in DOMAIN s \ {e} : \E j \in DOMAIN t : t[j] = s[k]

\* WithoutId removes one entry with the id and keeps the order of the others.
LEMMA Removal ==
  ASSUME NEW s \in Seq(Entry), NEW e \in DOMAIN s
  PROVE  /\ WithoutId(s, s[e].id) \in Seq(Entry)
         /\ \E i \in DOMAIN s :
              s[i].id = s[e].id /\ Closes(s, i, WithoutId(s, s[e].id))
<1> DEFINE i == CHOOSE i \in DOMAIN s : s[i].id = s[e].id
           t == WithoutId(s, s[e].id)
<1>1. i \in DOMAIN s /\ s[i].id = s[e].id
  OBVIOUS
<1>2. t = [j \in 1..(Len(s) - 1) |-> IF j < i THEN s[j] ELSE s[j + 1]]
  BY DEF WithoutId
<1>3. Len(s) - 1 \in Nat
  OBVIOUS
<1>4. \A j \in 1..(Len(s) - 1) : s[j] \in Entry /\ s[j + 1] \in Entry
  OBVIOUS
<1>5. t \in [1..(Len(s) - 1) -> Entry]
  BY <1>2, <1>4
<1>6. t \in Seq(Entry)
  BY <1>3, <1>5
<1>7. DOMAIN t = 1..(Len(s) - 1)
  BY <1>2
<1>8. \A j \in DOMAIN t : t[j] = IF j < i THEN s[j] ELSE s[j + 1]
  BY <1>2, <1>7
<1>9. Closes(s, i, t)
  BY <1>7, <1>8 DEF Closes
<1> HIDE DEF i
<1>10. \E k \in DOMAIN s : s[k].id = s[e].id /\ Closes(s, k, t)
  BY <1>1, <1>9
<1> HIDE DEF t
<1> QED BY <1>6, <1>10 DEF t

\* In a table with distinct ids exactly that entry is gone.
LEMMA RemovalExact ==
  ASSUME NEW s \in Seq(Entry), NEW e \in DOMAIN s, Distinct(s)
  PROVE  Removed(s, e, WithoutId(s, s[e].id))
<1> DEFINE t == WithoutId(s, s[e].id)
<1>1. t \in Seq(Entry)
  BY Removal
<1>2. Closes(s, e, t)
  <2>1. PICK i \in DOMAIN s : s[i].id = s[e].id /\ Closes(s, i, t)
    BY Removal
  <2>2. i = e
    BY <2>1 DEF Distinct
  <2> QED BY <2>1, <2>2
<1> HIDE DEF t
<1>3. e \in Nat /\ Len(s) \in Nat /\ DOMAIN s = 1..Len(s)
  OBVIOUS
<1>4. \A j \in DOMAIN t :
        /\ j < e => j \in DOMAIN s \ {e} /\ t[j] = s[j]
        /\ ~(j < e) => j + 1 \in DOMAIN s \ {e} /\ t[j] = s[j + 1]
  BY <1>2, <1>3 DEF Closes
<1>5. \A k \in DOMAIN s \ {e} :
        /\ k < e => k \in DOMAIN t /\ t[k] = s[k]
        /\ ~(k < e) => k - 1 \in DOMAIN t /\ t[k - 1] = s[k]
  <2> SUFFICES ASSUME NEW k \in DOMAIN s \ {e}
               PROVE  /\ k < e => k \in DOMAIN t /\ t[k] = s[k]
                      /\ ~(k < e) => k - 1 \in DOMAIN t /\ t[k - 1] = s[k]
    OBVIOUS
  <2>1. k \in Nat /\ k # e /\ k <= Len(s) /\ 1 <= k /\ e <= Len(s)
    BY <1>3
  <2>2. CASE k < e
    <3>1. k \in DOMAIN t
      BY <1>2, <1>3, <2>1, <2>2 DEF Closes
    <3> QED BY <1>2, <2>2, <3>1 DEF Closes
  <2>3. CASE ~(k < e)
    <3>1. k - 1 \in DOMAIN t /\ ~(k - 1 < e) /\ (k - 1) + 1 = k
      BY <1>2, <1>3, <2>1, <2>3 DEF Closes
    <3>2. t[k - 1] = s[(k - 1) + 1]
      BY <1>2, <3>1 DEF Closes
    <3> QED BY <2>3, <3>1, <3>2
  <2> QED BY <2>2, <2>3
<1>6. \A j \in DOMAIN t : \E k \in DOMAIN s \ {e} : t[j] = s[k]
  BY <1>4
<1>7. \A k \in DOMAIN s \ {e} : \E j \in DOMAIN t : t[j] = s[k]
  BY <1>5
<1>8. ASSUME NEW i \in DOMAIN t, NEW j \in DOMAIN t, i # j
      PROVE  t[i].path # t[j].path /\ t[i].id # t[j].id
  <2> DEFINE a == IF i < e THEN i ELSE i + 1
             b == IF j < e THEN j ELSE j + 1
  <2>1. a \in DOMAIN s /\ b \in DOMAIN s /\ t[i] = s[a] /\ t[j] = s[b]
    BY <1>4
  <2>2. a # b
    BY <1>2, <1>3, <1>8 DEF Closes
  <2> QED BY <2>1, <2>2 DEF Distinct
<1> QED BY <1>1, <1>6, <1>7, <1>8 DEF Removed, Distinct, t

-----------------------------------------------------------------------------
LEMMA InitIInv == Init => IInv
BY DEF Init, IInv, TypeOK, LocksDistinct, Owners, HandlesHaveEntries,
       EntriesHaveHandles, NoCheck

\* A lock is taken: the new entry has a free id and a free path.
LEMMA LockAttemptKeeps ==
  ASSUME IInv, ~Checking,
         NEW p \in live, NEW path \in Paths, NEW data \in BOOLEAN,
         LockAttempt(p, path, data), UNCHANGED <<live, check>>
  PROVE  IInv'
<1> USE DEF IInv
<1>1. PICK id \in TriedIds :
        /\ NewId(id)
        /\ indices' = Append(indices, [id |-> id, path |-> path, owner |-> p,
                                       data |-> data])
        /\ handles' = IF data
                      THEN handles \cup {[pid |-> p, id |-> id, path |-> path]}
                      ELSE handles
  BY DEF LockAttempt
<1> DEFINE new == [id |-> id, path |-> path, owner |-> p, data |-> data]
<1>2. p \in Pids /\ id \in Ids /\ new \in Entry
  BY DEF TypeOK, TriedIds, Ids, Entry
<1>3. /\ indices' \in Seq(Entry)
      /\ DOMAIN indices' = DOMAIN indices \cup {Len(indices) + 1}
      /\ Len(indices) + 1 \notin DOMAIN indices
      /\ \A k \in DOMAIN indices : indices'[k] = indices[k]
      /\ indices'[Len(indices) + 1] = new
  BY <1>1, <1>2 DEF TypeOK
<1>4. \A k \in DOMAIN indices : indices[k].id # id /\ indices[k].path # path
  BY <1>1 DEF NewId, Used, LockAttempt, Locked
<1> HIDE DEF new
<1>n. new.id = id /\ new.path = path /\ new.owner = p /\ new.data = data
  BY DEF new
<1>5. TypeOK'
  BY <1>1, <1>2, <1>3 DEF TypeOK
<1>6. LocksDistinct'
  BY <1>3, <1>4, <1>n DEF LocksDistinct
<1>7. Owners'
  BY <1>1, <1>3, <1>n DEF Owners
<1>8. HandlesHaveEntries'
  BY <1>1, <1>3, <1>n DEF HandlesHaveEntries
<1>9. EntriesHaveHandles'
  BY <1>1, <1>3, <1>n DEF EntriesHaveHandles
<1> QED BY <1>5, <1>6, <1>7, <1>8, <1>9

\* Entry e goes, with the handles of a process for it.
LEMMA RemovalKeeps ==
  ASSUME IInv, NEW e \in DOMAIN indices, NEW p \in live,
         MayBelong(indices[e], p),
         indices' = WithoutId(indices, indices[e].id),
         \/ handles' = {h \in handles : h.pid # p \/ h.id # indices[e].id}
         \/ handles' = handles /\ check.pid = p,
         live' = live, check'.pid = check.pid
  PROVE  /\ indices' \in Seq(Entry) /\ LocksDistinct' /\ Owners'
         /\ HandlesHaveEntries' /\ EntriesHaveHandles'
<1> USE DEF IInv
<1>1. /\ indices' \in Seq(Entry)
      /\ \A i, j \in DOMAIN indices' :
           i # j => /\ indices'[i].path # indices'[j].path
                    /\ indices'[i].id # indices'[j].id
      /\ \A j \in DOMAIN indices' :
           \E k \in DOMAIN indices \ {e} : indices'[j] = indices[k]
      /\ \A k \in DOMAIN indices \ {e} :
           \E j \in DOMAIN indices' : indices'[j] = indices[k]
  <2>1. indices \in Seq(Entry)
    BY DEF TypeOK
  <2>2. Distinct(indices)
    BY DEF LocksDistinct, Distinct
  <2>3. Removed(indices, e, indices')
    BY <2>1, <2>2, RemovalExact
  <2> QED BY <2>3 DEF Removed, Distinct
<1>2. \A k \in DOMAIN indices \ {e} : indices[k].id # indices[e].id
  BY DEF LocksDistinct
<1>3. handles' \subseteq handles
  OBVIOUS
<1>4. LocksDistinct'
  BY <1>1 DEF LocksDistinct
<1>5. Owners'
  BY <1>1, <1>3 DEF Owners
<1>6. HandlesHaveEntries'
  <2> SUFFICES ASSUME NEW h \in handles', h.pid # check.pid
               PROVE  \E k \in DOMAIN indices' :
                        /\ indices'[k].owner = h.pid /\ indices'[k].data
                        /\ indices'[k].id = h.id /\ indices'[k].path = h.path
    BY DEF HandlesHaveEntries
  <2>1. PICK k \in DOMAIN indices :
          /\ indices[k].owner = h.pid /\ indices[k].data
          /\ indices[k].id = h.id /\ indices[k].path = h.path
    BY <1>3 DEF HandlesHaveEntries
  <2>2. h.pid \in Pids
    BY <1>3 DEF TypeOK
  <2>3. k # e
    BY <2>1, <2>2 DEF MayBelong
  <2> QED BY <1>1, <2>1, <2>3
<1>7. EntriesHaveHandles'
  <2> SUFFICES ASSUME NEW j \in DOMAIN indices',
                      indices'[j].owner \notin {Freed, check.pid},
                      indices'[j].data
               PROVE  [pid |-> indices'[j].owner, id |-> indices'[j].id,
                       path |-> indices'[j].path] \in handles'
    BY DEF EntriesHaveHandles
  <2>1. PICK k \in DOMAIN indices \ {e} : indices'[j] = indices[k]
    BY <1>1
  <2>2. [pid |-> indices[k].owner, id |-> indices[k].id,
         path |-> indices[k].path] \in handles
    BY <2>1 DEF EntriesHaveHandles
  <2> QED BY <1>2, <2>1, <2>2
<1> QED BY <1>1, <1>4, <1>5, <1>6, <1>7

\* The struct of the process that was checked is freed.
LEMMA CheckEndKeeps ==
  ASSUME IInv, Checking, CheckEnd
  PROVE  IInv'
<1> USE DEF IInv
<1> DEFINE q == check.pid
<1>1. q \in Pids /\ q \in live
  BY DEF Checking, Owners, TypeOK
<1>2. /\ DOMAIN indices' = DOMAIN indices
      /\ \A k \in DOMAIN indices :
           indices'[k] = IF indices[k].owner = q
                         THEN [indices[k] EXCEPT !.owner = Freed]
                         ELSE indices[k]
  BY DEF CheckEnd, Orphaned
<1>3. \A k \in DOMAIN indices :
        /\ indices'[k] \in Entry
        /\ indices'[k].id = indices[k].id /\ indices'[k].path = indices[k].path
        /\ indices'[k].data = indices[k].data
        /\ indices'[k].owner = IF indices[k].owner = q THEN Freed
                               ELSE indices[k].owner
  <2> SUFFICES ASSUME NEW k \in DOMAIN indices
               PROVE  /\ indices'[k] \in Entry
                      /\ indices'[k].id = indices[k].id
                      /\ indices'[k].path = indices[k].path
                      /\ indices'[k].data = indices[k].data
                      /\ indices'[k].owner = IF indices[k].owner = q THEN Freed
                                             ELSE indices[k].owner
    OBVIOUS
  <2>1. indices[k] \in Entry
    BY DEF TypeOK
  <2>2. CASE indices[k].owner = q
    <3> DEFINE new == [indices[k] EXCEPT !.owner = Freed]
    <3>1. indices'[k] = new
      BY <1>2, <2>2
    <3>2. new \in Entry
      BY <2>1 DEF Entry
    <3>3. /\ new.id = indices[k].id /\ new.path = indices[k].path
          /\ new.data = indices[k].data /\ new.owner = Freed
      BY <2>1 DEF Entry
    <3> HIDE DEF new
    <3> QED BY <2>2, <3>1, <3>2, <3>3
  <2>3. CASE indices[k].owner # q
    BY <1>2, <2>1, <2>3
  <2> QED BY <2>2, <2>3
<1>4. indices' \in Seq(Entry)
  <2>1. indices' = [k \in 1..Len(indices) |-> indices'[k]]
    BY DEF CheckEnd, Orphaned, TypeOK
  <2> QED BY <1>2, <1>3, <2>1 DEF TypeOK
<1>5. /\ check'.pid = Freed /\ live' = live \ {q}
      /\ check' \in [pid : Pids \cup {Freed}, at : Nat \ {0}, released : Nat]
      /\ handles' = {h \in handles : h.pid # q}
  BY DEF CheckEnd, NoCheck
<1> HIDE DEF q
<1>6. TypeOK'
  BY <1>4, <1>5 DEF TypeOK
<1>7. LocksDistinct'
  BY <1>2, <1>3 DEF LocksDistinct
<1>8. Owners'
  BY <1>2, <1>3, <1>5 DEF Owners
<1>9. HandlesHaveEntries'
  BY <1>2, <1>3, <1>5 DEF HandlesHaveEntries, q
<1>10. EntriesHaveHandles'
  BY <1>2, <1>3, <1>5 DEF EntriesHaveHandles, q
<1> QED BY <1>6, <1>7, <1>8, <1>9, <1>10

LEMMA NextIInv == IInv /\ [Next]_vars => IInv'
<1> SUFFICES ASSUME IInv, [Next]_vars PROVE IInv'
  OBVIOUS
<1> USE DEF IInv
<1>1. ASSUME ~Checking, NEW p \in Pids, DispatcherProcessNew(p) PROVE IInv'
  BY <1>1 DEF DispatcherProcessNew, TypeOK, LocksDistinct, Owners,
       HandlesHaveEntries, EntriesHaveHandles
<1>2. ASSUME ~Checking, NEW p \in live, KernelFunctionDirectoryGet(p)
      PROVE  IInv'
  BY <1>2, LockAttemptKeeps DEF KernelFunctionDirectoryGet
<1>3. ASSUME ~Checking, NEW p \in live, KernelFunctionDirectoryDone(p)
      PROVE  IInv'
  <2>1. PICK i \in DOMAIN indices :
          /\ MayBelong(indices[i], p)
          /\ indices' = WithoutId(indices, indices[i].id)
          /\ handles' = {h \in handles : h.pid # p \/ h.id # indices[i].id}
    BY <1>3 DEF KernelFunctionDirectoryDone, Retrieve
  <2>2. live' = live /\ check' = check
    BY <1>3 DEF KernelFunctionDirectoryDone
  <2>3. /\ indices' \in Seq(Entry) /\ LocksDistinct' /\ Owners'
        /\ HandlesHaveEntries' /\ EntriesHaveHandles'
    BY <2>1, <2>2, RemovalKeeps
  <2>4. TypeOK'
    BY <2>1, <2>2, <2>3 DEF TypeOK
  <2> QED BY <2>3, <2>4
<1>4. ASSUME ~Checking, NEW p \in live, CheckStart(p) PROVE IInv'
  <2>1. check' = [pid |-> p, at |-> 1, released |-> 0]
    BY <1>4 DEF CheckStart, NoCheck
  <2>2. p \in Pids /\ check.pid = Freed
    BY <1>4 DEF TypeOK, Checking
  <2>3. /\ check'.pid = p
        /\ check' \in [pid : Pids \cup {Freed}, at : Nat \ {0}, released : Nat]
    BY <2>1, <2>2
  <2>4. indices' = indices /\ live' = live /\ handles' = handles
    BY <1>4 DEF CheckStart
  <2>5. TypeOK' /\ LocksDistinct' /\ Owners'
    BY <2>3, <2>4 DEF TypeOK, LocksDistinct, Owners
  <2>6. \A h \in handles : h.pid # check.pid
    BY <2>2 DEF TypeOK
  <2>7. HandlesHaveEntries'
    BY <2>4, <2>6 DEF HandlesHaveEntries
  <2>8. EntriesHaveHandles'
    BY <2>2, <2>4 DEF EntriesHaveHandles
  <2> QED BY <2>5, <2>7, <2>8
<1>5. ASSUME Checking, CheckRelease PROVE IInv'
  <2>1. check.pid \in live
    BY <1>5 DEF Checking, Owners
  <2>2. check' = [check EXCEPT !.at = check.at + 1,
                               !.released = check.released + 1]
    BY <1>5 DEF CheckRelease
  <2>3. check'.pid = check.pid
        /\ check' \in [pid : Pids \cup {Freed}, at : Nat \ {0}, released : Nat]
    <3>1. check \in [pid : Pids \cup {Freed}, at : Nat \ {0}, released : Nat]
      BY DEF TypeOK
    <3>2. check.at + 1 \in Nat \ {0} /\ check.released + 1 \in Nat
      BY <3>1
    <3> HIDE DEF IInv
    <3> QED BY <2>2, <3>1, <3>2
  <2>4. /\ indices' \in Seq(Entry) /\ LocksDistinct' /\ Owners'
        /\ HandlesHaveEntries' /\ EntriesHaveHandles'
    BY <1>5, <2>1, <2>3, RemovalKeeps DEF CheckRelease
  <2>5. TypeOK'
    BY <1>5, <2>3, <2>4 DEF CheckRelease, TypeOK
  <2> QED BY <2>4, <2>5
<1>6. ASSUME Checking, CheckPass PROVE IInv'
  <2>1. check' = [check EXCEPT !.at = check.at + 1]
    BY <1>6 DEF CheckPass
  <2>2. check'.pid = check.pid
        /\ check' \in [pid : Pids \cup {Freed}, at : Nat \ {0}, released : Nat]
    BY <2>1 DEF TypeOK
  <2> QED BY <1>6, <2>2 DEF CheckPass, TypeOK, LocksDistinct, Owners,
            HandlesHaveEntries, EntriesHaveHandles
<1>7. ASSUME Checking, CheckEnd PROVE IInv'
  BY <1>7, CheckEndKeeps
<1>8. CASE UNCHANGED vars
  BY <1>8 DEF vars, TypeOK, LocksDistinct, Owners, HandlesHaveEntries,
       EntriesHaveHandles
<1> QED BY <1>1, <1>2, <1>3, <1>4, <1>5, <1>6, <1>7, <1>8
         DEF Next, DispatcherProcessDone

LEMMA Inductive == Spec => []IInv
<1> QED BY InitIInv, NextIInv, PTL DEF Spec

-----------------------------------------------------------------------------
\* The table, the handles and the walk of a dying process keep their types: ids
\* stay below OPEN_INDICES_MAX_ID.
THEOREM IndicesTypeCorrect == Spec => []TypeOK
<1> QED BY Inductive, PTL DEF IInv

\* No directory is ever locked twice and no id is given out while it is in use.
THEOREM LocksStayDistinct == Spec => []LocksDistinct
<1> QED BY Inductive, PTL DEF IInv

\* The handles of a process are exactly its entries that were listed, whatever
\* the other processes close and in whatever state they die.
THEOREM HandlesStayExact == Spec => []HandlesExact
<1>1. IInv => HandlesExact
  <2> SUFFICES ASSUME IInv, NEW p \in live \ {check.pid}
               PROVE  {h \in handles : h.pid = p} =
                        {[pid |-> p, id |-> indices[i].id,
                          path |-> indices[i].path] :
                           i \in {k \in DOMAIN indices :
                                    indices[k].owner = p /\ indices[k].data}}
    BY DEF HandlesExact
  <2>1. p \in Pids
    BY DEF IInv, TypeOK
  <2>2. ASSUME NEW h \in handles, h.pid = p
        PROVE  \E i \in DOMAIN indices :
                 /\ indices[i].owner = p /\ indices[i].data
                 /\ h = [pid |-> p, id |-> indices[i].id,
                         path |-> indices[i].path]
    <3>1. h = [pid |-> h.pid, id |-> h.id, path |-> h.path]
      BY DEF IInv, TypeOK
    <3> QED BY <2>2, <3>1 DEF IInv, HandlesHaveEntries
  <2>3. ASSUME NEW i \in DOMAIN indices, indices[i].owner = p, indices[i].data
        PROVE  [pid |-> p, id |-> indices[i].id,
                path |-> indices[i].path] \in handles
    BY <2>1, <2>3 DEF IInv, EntriesHaveHandles
  <2> QED BY <2>2, <2>3
<1> QED BY <1>1, Inductive, PTL

-----------------------------------------------------------------------------
\* What the walk of a dying process has left behind it.
LeftBehind ==
  {k \in DOMAIN indices : k < check.at /\ indices[k].owner = check.pid}

\* Every entry that was stepped over was so because one had been removed.
LeftInv == Checking => Cardinality(LeftBehind) <= check.released

\* With distinct ids WithoutId closes the gap of that very entry.
LEMMA Closing ==
  ASSUME NEW s \in Seq(Entry), NEW e \in DOMAIN s, Distinct(s)
  PROVE  Closes(s, e, WithoutId(s, s[e].id))
<1>1. PICK i \in DOMAIN s : s[i].id = s[e].id /\ Closes(s, i, WithoutId(s, s[e].id))
  BY Removal
<1>2. i = e
  BY <1>1 DEF Distinct
<1> QED BY <1>1, <1>2

LEMMA LeftFinite ==
  ASSUME NEW n \in Nat, NEW S \in SUBSET (1..n)
  PROVE  IsFiniteSet(S) /\ Cardinality(S) \in Nat
<1>1. IsFiniteSet(1..n)
  BY FS_Interval
<1>2. IsFiniteSet(S)
  BY <1>1, FS_Subset
<1> QED BY <1>2, FS_CardinalityType

\* A release leaves at most one more entry behind, the one that moves to its place.
LEMMA ReleaseLeaves ==
  ASSUME IInv, LeftInv, Checking, CheckRelease
  PROVE  LeftInv'
<1> DEFINE e == check.at
           n == Len(indices)
           old == LeftBehind
           new == LeftBehind'
<1>1. /\ indices \in Seq(Entry) /\ e \in DOMAIN indices /\ Distinct(indices)
      /\ check \in [pid : Pids \cup {Freed}, at : Nat \ {0}, released : Nat]
  BY DEF IInv, TypeOK, LocksDistinct, Distinct, CheckRelease
<1>2. n \in Nat /\ DOMAIN indices = 1..n /\ e \in 1..n
  BY <1>1
<1>3. /\ DOMAIN indices' = 1..(n - 1)
      /\ \A j \in DOMAIN indices' : j < e => indices'[j] = indices[j]
  <2>1. indices' = WithoutId(indices, indices[e].id)
    BY DEF CheckRelease
  <2>2. Closes(indices, e, indices')
    BY <1>1, <2>1, Closing
  <2> QED BY <2>2 DEF Closes
<1>4. check'.pid = check.pid /\ check'.at = e + 1 /\ check'.released = check.released + 1
  BY <1>1 DEF CheckRelease
<1>5. new \subseteq old \cup {e}
  <2> SUFFICES ASSUME NEW k \in new, k # e PROVE k \in old
    OBVIOUS
  <2>1. k \in 1..(n - 1) /\ k < e + 1 /\ indices'[k].owner = check.pid
    BY <1>3, <1>4 DEF LeftBehind
  <2>2. k \in 1..n /\ k < e
    BY <1>2, <2>1
  <2>3. indices'[k] = indices[k]
    BY <1>3, <2>1, <2>2
  <2> QED BY <1>2, <2>1, <2>2, <2>3 DEF LeftBehind
<1>6. old \in SUBSET (1..n)
  BY <1>2 DEF LeftBehind
<1> HIDE DEF old, new, e, n
<1>7. IsFiniteSet(old) /\ Cardinality(old) \in Nat
  BY <1>2, <1>6, LeftFinite
<1>8. IsFiniteSet(old \cup {e}) /\ Cardinality(old \cup {e}) <= Cardinality(old) + 1
  <2>1. /\ IsFiniteSet(old \cup {e})
        /\ \/ Cardinality(old \cup {e}) = Cardinality(old)
           \/ Cardinality(old \cup {e}) = Cardinality(old) + 1
    BY Zenon, <1>7, FS_AddElement
  <2> QED BY <1>7, <2>1
<1>9. Cardinality(new) <= Cardinality(old \cup {e})
  BY <1>5, <1>8, FS_Subset
<1>10. Cardinality(new) \in Nat /\ Cardinality(old \cup {e}) \in Nat
  <2>1. IsFiniteSet(new)
    BY <1>5, <1>8, FS_Subset
  <2> QED BY <1>8, <2>1, FS_CardinalityType
<1>11. Cardinality(old) <= check.released /\ check.released \in Nat
  BY <1>1 DEF LeftInv, old
<1>12. Cardinality(new) <= check'.released
  BY <1>4, <1>7, <1>8, <1>9, <1>10, <1>11
<1> QED BY <1>12 DEF LeftInv, new

LEMMA NextLeft == IInv /\ LeftInv /\ [Next]_vars => LeftInv'
<1> SUFFICES ASSUME IInv, LeftInv, [Next]_vars PROVE LeftInv'
  OBVIOUS
<1>1. check \in [pid : Pids \cup {Freed}, at : Nat \ {0}, released : Nat]
      /\ indices \in Seq(Entry)
  BY DEF IInv, TypeOK
<1>2. ASSUME ~Checking, check' = check PROVE LeftInv'
  BY <1>2 DEF LeftInv, Checking
<1>3. ASSUME NEW p \in live, CheckStart(p) PROVE LeftInv'
  <2>1. check'.at = 1 /\ check'.released = 0 /\ indices' = indices
    BY <1>3 DEF CheckStart, NoCheck
  <2>2. DOMAIN indices = 1..Len(indices) /\ Len(indices) \in Nat
    BY <1>1
  <2>3. LeftBehind' = {}
    BY <2>1, <2>2 DEF LeftBehind
  <2>4. Cardinality(LeftBehind') = 0
    BY <2>3, FS_EmptySet
  <2> QED BY <2>1, <2>4 DEF LeftInv
<1>4. ASSUME Checking, CheckRelease PROVE LeftInv'
  BY <1>4, ReleaseLeaves
<1>5. ASSUME Checking, CheckPass PROVE LeftInv'
  <2>1. /\ check'.pid = check.pid /\ check'.at = check.at + 1
        /\ check'.released = check.released /\ indices' = indices
    BY <1>1, <1>5 DEF CheckPass
  <2>2. indices[check.at].owner # check.pid
    BY <1>5 DEF CheckPass, MayNotBelong
  <2>3. \A k \in DOMAIN indices : k < check.at + 1 <=> k < check.at \/ k = check.at
    <3>1. DOMAIN indices = 1..Len(indices) /\ check.at \in Nat
      BY <1>1
    <3> QED BY <3>1
  <2>4. LeftBehind' = LeftBehind
    BY <2>1, <2>2, <2>3 DEF LeftBehind
  <2> QED BY <1>5, <2>1, <2>4 DEF LeftInv
<1>6. ASSUME Checking, CheckEnd PROVE LeftInv'
  BY <1>6 DEF CheckEnd, NoCheck, LeftInv, Checking
<1>7. CASE UNCHANGED vars
  BY <1>7 DEF vars, LeftInv, LeftBehind, Checking
<1>8. ASSUME NEW p \in Pids,
             \/ DispatcherProcessNew(p)
             \/ KernelFunctionDirectoryGet(p) \/ KernelFunctionDirectoryDone(p)
      PROVE  check' = check
  BY <1>8 DEF DispatcherProcessNew, KernelFunctionDirectoryGet, KernelFunctionDirectoryDone
<1>9. live \subseteq Pids
  BY DEF IInv, TypeOK
<1> QED BY <1>2, <1>3, <1>4, <1>5, <1>6, <1>7, <1>8, <1>9
         DEF Next, DispatcherProcessDone

\* However many directories a process has open when it ends, and whoever else has some
\* open, it leaves at most as many locked as it unlocks, for tables of any size.
THEOREM LeakStaysBounded == Spec => LeakBounded
<1>1. Init => LeftInv
  BY DEF Init, LeftInv, Checking, NoCheck
<1>2. ASSUME IInv, LeftInv, Checking, CheckEnd
      PROVE  Cardinality({i \in DOMAIN indices : indices[i].owner = check.pid})
               <= check.released
  <2>1. check.at \in Nat \ {0} /\ indices \in Seq(Entry)
    BY <1>2 DEF IInv, TypeOK
  <2>2. \A i \in DOMAIN indices : i < check.at
    <3>1. DOMAIN indices = 1..Len(indices) /\ check.at \notin DOMAIN indices
      BY <1>2, <2>1 DEF CheckEnd
    <3> QED BY <2>1, <3>1
  <2>3. {i \in DOMAIN indices : indices[i].owner = check.pid} = LeftBehind
    BY <2>2 DEF LeftBehind
  <2> QED BY <1>2, <2>3 DEF LeftInv
<1> QED BY <1>1, <1>2, Inductive, NextLeft, PTL DEF Spec, LeakBounded
=============================================================================
