-------------------------- MODULE HypnoticFSProofs --------------------------
(***************************************************************************)
(* Proofs about Path, HypnoticFS and HypnoticFSWrite: PathsLead, and the   *)
(* invariant IInv of the image, from which TypeOK, ReadsBack, ListExact,   *)
(* RoomIsUsed and FoundPlaceIsFree follow.                                 *)
(*                                                                         *)
(* Its heart is Named: the taken slots are exactly the files and           *)
(* directories that were made, each below the slot of its directory.  The  *)
(* lookups (ParentIs, GetIndexIs) follow from it, and every action keeps   *)
(* it.  An action either puts a new entry into the first empty slot        *)
(* (EntryAdded) or gives an entry a new place and size (EntryRewritten);   *)
(* what is left of it is where its data go.                                *)
(***************************************************************************)
EXTENDS HypnoticFSWrite, Induction

-----------------------------------------------------------------------------
(* Paths.                                                                  *)

\* The two walks over the segments of a path, turn by turn.
KeepTurn(segments, i, s) ==
  IF Stays(segments, i) THEN Append(s, segments[i]) ELSE s

WalkTurn(segments, i, s) ==
  IF segments[i] \in {"", "."} THEN s
  ELSE IF segments[i] = ".." THEN SubSeq(s, 1, Len(s) - 1)
  ELSE Append(s, segments[i])

LEMMA ShorterIs ==
  ASSUME NEW S, NEW s \in Seq(S)
  PROVE  /\ SubSeq(s, 1, Len(s) - 1) \in Seq(S)
         /\ Len(s) # 0 => Len(SubSeq(s, 1, Len(s) - 1)) = Len(s) - 1
  <1>1. Len(s) \in Nat /\ \A i \in 1..Len(s) : s[i] \in S
    OBVIOUS
  <1>2. SubSeq(s, 1, Len(s) - 1) = [i \in 1..(Len(s) - 1) |-> s[i]]
    BY <1>1
  <1>3. CASE Len(s) = 0
    <2>1. SubSeq(s, 1, Len(s) - 1) = <<>>
      BY <1>2, <1>3
    <2> QED BY <2>1, <1>3
  <1>4. CASE Len(s) # 0
    <2> DEFINE n == Len(s) - 1
    <2>1. n \in Nat
      BY <1>1, <1>4
    <2>2. \A i \in 1..n : s[i] \in S
      BY <1>1
    <2> HIDE DEF n
    <2>3. [i \in 1..n |-> s[i]] \in Seq(S) /\ Len([i \in 1..n |-> s[i]]) = n
      BY <2>1, <2>2
    <2> QED BY <1>2, <2>3 DEF n
  <1> QED BY <1>3, <1>4

KeptBy(segments, f) ==
  /\ f[0] = <<>>
  /\ \A i \in 1..Len(segments) : f[i] = KeepTurn(segments, i, f[i - 1])

WalkedBy(segments, f) ==
  /\ f[0] = <<>>
  /\ \A i \in 1..Len(segments) : f[i] = WalkTurn(segments, i, f[i - 1])

LEMMA ConsolidateTurns ==
  ASSUME NEW S, NEW segments \in Seq(S)
  PROVE  \E f \in [0..Len(segments) -> Seq(S)] :
           KeptBy(segments, f) /\ PathConsolidate(segments) = f[Len(segments)]
  <1> DEFINE len == Len(segments)
             G == [i \in 1..len |-> [s \in Seq(S) |-> KeepTurn(segments, i, s)]]
             f == CHOOSE g : g = [i \in 0..len |->
                    IF i = 0 THEN <<>> ELSE KeepTurn(segments, i, g[i - 1])]
  <1>1. len \in Nat /\ \A i \in 1..len : segments[i] \in S
    OBVIOUS
  <1>2. PathConsolidate(segments) = f[len]
    BY DEF PathConsolidate, KeepTurn
  <1> HIDE DEF len
  <1>3. \A i \in 1..len : \A s \in Seq(S) : KeepTurn(segments, i, s) \in Seq(S)
    BY <1>1 DEF KeepTurn
  <1>4. G \in [1..len -> [Seq(S) -> Seq(S)]]
    BY <1>3
  <1>5. \A i \in 1..len : \A s \in Seq(S) : G[i][s] = KeepTurn(segments, i, s)
    OBVIOUS
  <1> HIDE DEF G
  <1>6. PICK g \in [0..len -> Seq(S)] :
          g[0] = <<>> /\ \A n \in 1..len : g[n] = G[n][g[n - 1]]
    <2>1. <<>> \in Seq(S)
      OBVIOUS
    <2>2. Runs(Seq(S), <<>>, len, G) # {}
      BY <1>1, <1>4, <2>1, CanBeRun
    <2> QED BY <2>2 DEF Runs
  <1>7. \A i \in 1..len : g[i] = KeepTurn(segments, i, g[i - 1])
    <2> TAKE i \in 1..len
    <2>1. g[i - 1] \in Seq(S)
      BY <1>1, <1>6
    <2> QED BY <2>1, <1>5, <1>6
  <1>8. g = [i \in 0..len |-> IF i = 0 THEN <<>> ELSE KeepTurn(segments, i, g[i - 1])]
    BY <1>1, <1>6, <1>7
  <1>9. f = [i \in 0..len |-> IF i = 0 THEN <<>> ELSE KeepTurn(segments, i, f[i - 1])]
    BY <1>8
  <1> HIDE DEF f
  <1>10. f[0] = <<>> /\ \A i \in 1..len : f[i] = KeepTurn(segments, i, f[i - 1])
    BY <1>1, <1>9
  <1>11. \A i \in 0..len : f[i] = g[i]
    <2> DEFINE Same == {i \in 0..len : f[i] = g[i]}
    <2>1. 0 \in Same
      BY <1>1, <1>6, <1>10
    <2>2. \A i \in 1..len : i - 1 \in Same => i \in Same
      BY <1>1, <1>7, <1>10
    <2> HIDE DEF Same
    <2>3. \A i \in 0..len : i \in Same
      BY <1>1, <2>1, <2>2, ReachesAll
    <2> QED BY <2>3 DEF Same
  <1>12. KeptBy(segments, f)
    BY <1>10 DEF KeptBy, len
  <1>13. f \in [0..len -> Seq(S)]
    BY <1>6, <1>9, <1>11
  <1> QED BY <1>2, <1>12, <1>13 DEF len

LEMMA MeaningTurns ==
  ASSUME NEW S, NEW segments \in Seq(S)
  PROVE  \E f \in [0..Len(segments) -> Seq(S)] :
           WalkedBy(segments, f) /\ Meaning(segments) = f[Len(segments)]
  <1> DEFINE len == Len(segments)
             G == [i \in 1..len |-> [s \in Seq(S) |-> WalkTurn(segments, i, s)]]
             f == CHOOSE g : g = [i \in 0..len |->
                    IF i = 0 THEN <<>> ELSE WalkTurn(segments, i, g[i - 1])]
  <1>1. len \in Nat /\ \A i \in 1..len : segments[i] \in S
    OBVIOUS
  <1>2. Meaning(segments) = f[len]
    BY DEF Meaning, WalkTurn
  <1> HIDE DEF len
  <1>3. \A i \in 1..len : \A s \in Seq(S) : WalkTurn(segments, i, s) \in Seq(S)
    <2> TAKE i \in 1..len
    <2> TAKE s \in Seq(S)
    <2>1. SubSeq(s, 1, Len(s) - 1) \in Seq(S) /\ Append(s, segments[i]) \in Seq(S)
      BY <1>1, ShorterIs
    <2> QED BY <2>1 DEF WalkTurn
  <1>4. G \in [1..len -> [Seq(S) -> Seq(S)]]
    BY <1>3
  <1>5. \A i \in 1..len : \A s \in Seq(S) : G[i][s] = WalkTurn(segments, i, s)
    OBVIOUS
  <1> HIDE DEF G
  <1>6. PICK g \in [0..len -> Seq(S)] :
          g[0] = <<>> /\ \A n \in 1..len : g[n] = G[n][g[n - 1]]
    <2>1. <<>> \in Seq(S)
      OBVIOUS
    <2>2. Runs(Seq(S), <<>>, len, G) # {}
      BY <1>1, <1>4, <2>1, CanBeRun
    <2> QED BY <2>2 DEF Runs
  <1>7. \A i \in 1..len : g[i] = WalkTurn(segments, i, g[i - 1])
    <2> TAKE i \in 1..len
    <2>1. g[i - 1] \in Seq(S)
      BY <1>1, <1>6
    <2> QED BY <2>1, <1>5, <1>6
  <1>8. g = [i \in 0..len |-> IF i = 0 THEN <<>> ELSE WalkTurn(segments, i, g[i - 1])]
    BY <1>1, <1>6, <1>7
  <1>9. f = [i \in 0..len |-> IF i = 0 THEN <<>> ELSE WalkTurn(segments, i, f[i - 1])]
    BY <1>8
  <1> HIDE DEF f
  <1>10. f[0] = <<>> /\ \A i \in 1..len : f[i] = WalkTurn(segments, i, f[i - 1])
    BY <1>1, <1>9
  <1>11. \A i \in 0..len : f[i] = g[i]
    <2> DEFINE Same == {i \in 0..len : f[i] = g[i]}
    <2>1. 0 \in Same
      BY <1>1, <1>6, <1>10
    <2>2. \A i \in 1..len : i - 1 \in Same => i \in Same
      BY <1>1, <1>7, <1>10
    <2> HIDE DEF Same
    <2>3. \A i \in 0..len : i \in Same
      BY <1>1, <2>1, <2>2, ReachesAll
    <2> QED BY <2>3 DEF Same
  <1>12. WalkedBy(segments, f)
    BY <1>10 DEF WalkedBy, len
  <1>13. f \in [0..len -> Seq(S)]
    BY <1>6, <1>9, <1>11
  <1> QED BY <1>2, <1>12, <1>13 DEF len

\* A path in which ".." comes first or right behind a name is consolidated to what it
\* means, however long it is (PathConsolidate looks at no more than the next segment).
LEMMA Consolidated ==
  ASSUME NEW S, NEW segments \in Seq(S), UpFromName(segments)
  PROVE  PathConsolidate(segments) = Meaning(segments)
  <1> DEFINE len == Len(segments)
             NextUp(i) == i < len /\ segments[i + 1] = ".."
  <1>1. PICK f \in [0..len -> Seq(S)] :
          KeptBy(segments, f) /\ PathConsolidate(segments) = f[len]
    BY ConsolidateTurns
  <1>2. PICK g \in [0..len -> Seq(S)] :
          WalkedBy(segments, g) /\ Meaning(segments) = g[len]
    BY MeaningTurns
  <1>3. len \in Nat /\ \A i \in 1..len : segments[i] \in S
    OBVIOUS
  <1>4. \A i \in 1..len : segments[i] = ".." => i = 1 \/ segments[i - 1] \notin Special
    <2>1. DOMAIN segments = 1..len
      OBVIOUS
    <2> QED BY <2>1 DEF UpFromName
  <1> DEFINE Alike(i) == IF i # 0 /\ NextUp(i) THEN g[i] = Append(f[i], segments[i])
                         ELSE g[i] = f[i]
             Good == {i \in 0..len : Alike(i)}
  <1>5. 0 \in Good
    BY <1>1, <1>2, <1>3 DEF KeptBy, WalkedBy
  <1>6. ASSUME NEW i \in 1..len, Alike(i - 1) PROVE Alike(i)
    <2>0. i \in Nat /\ i - 1 \in 0..len
      BY <1>3
    <2>1. i \in Nat /\ i - 1 \in 0..len /\ f[i - 1] \in Seq(S)
      BY <2>0
    <2>2. /\ f[i] = KeepTurn(segments, i, f[i - 1])
          /\ g[i] = WalkTurn(segments, i, g[i - 1])
      BY <1>1, <1>2 DEF KeptBy, WalkedBy
    <2>3. NextUp(i) => segments[i] \notin Special
      <3> SUFFICES ASSUME NextUp(i) PROVE segments[i] \notin Special
        OBVIOUS
      <3>1. i + 1 \in 1..len /\ (i + 1) - 1 = i /\ i + 1 # 1
        BY <1>3
      <3> QED BY <3>1, <1>4
    <2>4. Stays(segments, i) <=> segments[i] \notin Special /\ ~NextUp(i)
      BY DEF Stays
    <2>5. CASE segments[i] = ".."
      <3>1. f[i] = f[i - 1] /\ ~NextUp(i)
        BY <2>2, <2>3, <2>4, <2>5 DEF KeepTurn, Special
      <3>2. g[i] = SubSeq(g[i - 1], 1, Len(g[i - 1]) - 1)
        BY <2>2, <2>5 DEF WalkTurn
      <3>3. CASE i = 1
        <4>1. g[i - 1] = <<>> /\ f[i - 1] = <<>>
          BY <3>3, <1>1, <1>2 DEF KeptBy, WalkedBy
        <4>2. SubSeq(<<>>, 1, Len(<<>>) - 1) = <<>>
          OBVIOUS
        <4> QED BY <3>1, <3>2, <4>1, <4>2
      <3>4. CASE i # 1
        <4>1. i - 1 # 0 /\ NextUp(i - 1) /\ segments[i - 1] \in S
          BY <3>4, <2>1, <2>5, <1>3
        <4>2. g[i - 1] = Append(f[i - 1], segments[i - 1])
          BY <4>1, <1>6
        <4>3. \A s \in Seq(S), x \in S : SubSeq(Append(s, x), 1, Len(Append(s, x)) - 1) = s
          OBVIOUS
        <4>4. g[i] = f[i - 1]
          BY <3>2, <4>1, <4>2, <4>3, <2>1
        <4> QED BY <3>1, <4>4
      <3> QED BY <3>3, <3>4
    <2>6. CASE segments[i] # ".."
      <3>1. ~(i - 1 # 0 /\ NextUp(i - 1))
        BY <2>1, <2>6
      <3>2. g[i - 1] = f[i - 1]
        BY <3>1, <1>6
      <3>3. CASE segments[i] \in {"", "."}
        <4>1. ~NextUp(i) /\ ~Stays(segments, i)
          BY <2>3, <2>4, <3>3 DEF Special
        <4>2. f[i] = f[i - 1] /\ g[i] = g[i - 1]
          BY <4>1, <3>3, <2>2 DEF KeepTurn, WalkTurn
        <4> QED BY <4>1, <4>2, <3>2
      <3>4. CASE segments[i] \notin {"", "."}
        <4>1. segments[i] \notin Special
          BY <2>6, <3>4 DEF Special
        <4>2. g[i] = Append(f[i - 1], segments[i])
          BY <2>2, <2>6, <3>2, <3>4 DEF WalkTurn
        <4>3. CASE NextUp(i)
          <5>1. f[i] = f[i - 1]
            BY <4>3, <2>4, <2>2 DEF KeepTurn
          <5> QED BY <4>2, <4>3, <5>1, <2>1
        <4>4. CASE ~NextUp(i)
          <5>1. f[i] = Append(f[i - 1], segments[i])
            BY <4>1, <4>4, <2>4, <2>2 DEF KeepTurn
          <5> QED BY <4>2, <4>4, <5>1
        <4> QED BY <4>3, <4>4
      <3> QED BY <3>3, <3>4
    <2> QED BY <2>5, <2>6
  <1>7. \A i \in 1..len : i - 1 \in Good => i \in Good
    <2> HIDE DEF Alike
    <2> QED BY <1>3, <1>6
  <1> HIDE DEF Alike, len
  <1>8. \A i \in 0..len : i \in Good
    <2> HIDE DEF Good
    <2> QED BY <1>3, <1>5, <1>7, ReachesAll
  <1>9. Alike(len)
    BY <1>3, <1>8
  <1>10. g[len] = f[len]
    BY <1>9, <1>3 DEF Alike
  <1> QED BY <1>1, <1>2, <1>10

\* What PathConsolidate makes of a path leads where the path means to, in every state
\* of the image.
THEOREM PathsLeadRight == WriteSpec => []PathsLead
  <1>1. PathsLead
    <2> SUFFICES ASSUME NEW raw \in RawPaths, UpFromName(raw)
                 PROVE  PathConsolidate(raw) = Meaning(raw)
      BY DEF PathsLead, PathsTaken
    <2>1. PICK n \in 0..3 : raw \in [1..n -> Names \cup Special]
      BY DEF RawPaths
    <2>2. raw \in Seq(Names \cup Special)
      BY <2>1
    <2> QED BY <2>2, Consolidated
  <1> QED BY <1>1, PTL

-----------------------------------------------------------------------------
(* Names and paths.                                                        *)

LEMMA PathIs ==
  ASSUME NEW p \in Paths
  PROVE  p \in Seq(Names) /\ Len(p) \in Nat /\ Len(p) # 0 /\ p # <<>>
  <1>1. PICK n \in 1..MaxDepth : p \in [1..n -> Names]
    BY DEF Paths
  <1>2. n \in Nat /\ n # 0
    BY <1>1
  <1>3. p \in Seq(Names) /\ Len(p) = n
    BY <1>1, <1>2
  <1> QED BY <1>2, <1>3

\* The first segments of a path.
First(p, i) == SubSeq(p, 1, i)

LEMMA FirstIs ==
  ASSUME NEW p \in Seq(Names), NEW i \in 0..Len(p)
  PROVE  /\ First(p, i) \in Seq(Names)
         /\ Len(First(p, i)) = i
         /\ \A j \in 1..i : First(p, i)[j] = p[j]
  <1>1. i \in Nat /\ Len(p) \in Nat /\ \A j \in 1..i : p[j] \in Names
    OBVIOUS
  <1>2. SubSeq(p, 1, i) = [j \in 1..i |-> p[j]]
    BY <1>1
  <1>3. [j \in 1..i |-> p[j]] \in Seq(Names) /\ Len([j \in 1..i |-> p[j]]) = i
    BY <1>1
  <1> QED BY <1>1, <1>2, <1>3 DEF First

LEMMA Alike ==
  ASSUME NEW p \in Seq(Names), NEW q \in Seq(Names), Len(p) = Len(q),
         \A i \in 1..Len(p) : p[i] = q[i]
  PROVE  p = q
OBVIOUS

LEMMA WholePath == ASSUME NEW p \in Seq(Names) PROVE First(p, Len(p)) = p /\ First(p, 0) = <<>>
  <1>1. Len(p) \in 0..Len(p) /\ 0 \in 0..Len(p) /\ Len(p) \in Nat
    OBVIOUS
  <1>2. First(p, Len(p)) = p
    BY <1>1, FirstIs, Alike
  <1>3. First(p, 0) = <<>>
    <2>1. <<>> \in Seq(Names) /\ Len(<<>>) = 0
      OBVIOUS
    <2> QED BY <1>1, <2>1, FirstIs, Alike
  <1> QED BY <1>2, <1>3

LEMMA DirectoryIs ==
  ASSUME NEW p \in Seq(Names), Len(p) # 0
  PROVE  /\ Directory(p) \in Seq(Names)
         /\ Len(Directory(p)) = Len(p) - 1
         /\ \A j \in 1..(Len(p) - 1) : Directory(p)[j] = p[j]
         /\ p[Len(p)] \in Names
         /\ Directory(p) = First(p, Len(p) - 1)
  <1>1. Len(p) - 1 \in 0..Len(p) /\ p[Len(p)] \in Names
    OBVIOUS
  <1>2. Directory(p) = First(p, Len(p) - 1)
    BY DEF Directory, First
  <1> QED BY <1>1, <1>2, FirstIs

\* A path is its directory and its last name.
LEMMA SamePath ==
  ASSUME NEW p \in Seq(Names), Len(p) # 0, NEW q \in Seq(Names), Len(q) # 0,
         Directory(p) = Directory(q), p[Len(p)] = q[Len(q)]
  PROVE  p = q
  <1>1. Len(p) \in Nat /\ Len(q) \in Nat
    OBVIOUS
  <1>2. Len(p) = Len(q)
    BY <1>1, DirectoryIs
  <1>3. \A i \in 1..Len(p) : p[i] = q[i]
    <2> TAKE i \in 1..Len(p)
    <2>1. CASE i = Len(p)
      BY <1>2, <2>1
    <2>2. CASE i # Len(p)
      <3>1. i \in 1..(Len(p) - 1) /\ i \in 1..(Len(q) - 1)
        BY <1>1, <1>2, <2>2
      <3>2. Directory(p)[i] = p[i] /\ Directory(q)[i] = q[i]
        BY <3>1, DirectoryIs
      <3> QED BY <3>2
    <2> QED BY <2>1, <2>2
  <1> QED BY <1>2, <1>3, Alike

\* A part of a path without its last name is the next shorter part.
LEMMA FirstDirectory ==
  ASSUME NEW p \in Seq(Names), NEW i \in 1..Len(p)
  PROVE  Directory(First(p, i)) = First(p, i - 1) /\ First(p, i)[i] = p[i]
  <1> DEFINE q == First(p, i)
  <1>1. i \in 0..Len(p) /\ i - 1 \in 0..Len(p) /\ i \in Nat /\ i # 0 /\ i \in 1..i
        /\ \A j \in 1..(i - 1) : j \in 1..i
    OBVIOUS
  <1>2. q \in Seq(Names) /\ Len(q) = i /\ \A j \in 1..i : q[j] = p[j]
    BY <1>1, FirstIs
  <1>3. First(p, i - 1) \in Seq(Names) /\ Len(First(p, i - 1)) = i - 1
        /\ \A j \in 1..(i - 1) : First(p, i - 1)[j] = p[j]
    BY <1>1, FirstIs
  <1> HIDE DEF q
  <1>4. Directory(q) \in Seq(Names) /\ Len(Directory(q)) = i - 1
        /\ \A j \in 1..(i - 1) : Directory(q)[j] = q[j]
    BY <1>1, <1>2, DirectoryIs
  <1>5. Directory(q) = First(p, i - 1)
    <2>1. \A j \in 1..(i - 1) : Directory(q)[j] = First(p, i - 1)[j]
      BY <1>1, <1>2, <1>3, <1>4
    <2> QED BY <1>3, <1>4, <2>1, Alike
  <1> QED BY <1>1, <1>2, <1>5 DEF q

-----------------------------------------------------------------------------
(* Finding an entry.                                                       *)

LEMMA FirstOfIs ==
  ASSUME NEW S \in SUBSET Nat
  PROVE  IF S = {} THEN FirstOf(S) = None
         ELSE FirstOf(S) \in S /\ \A t \in S : FirstOf(S) <= t
  <1>1. CASE S = {}
    BY <1>1 DEF FirstOf
  <1>2. CASE S # {}
    <2>1. \E s \in S : \A t \in S : s <= t
      BY <1>2, LeastOf
    <2> QED BY <1>2, <2>1 DEF FirstOf
  <1> QED BY <1>1, <1>2

LEMMA FirstOfOne == ASSUME NEW s \in Nat PROVE FirstOf({s}) = s
  <1>1. {s} \in SUBSET Nat /\ {s} # {}
    OBVIOUS
  <1>2. FirstOf({s}) \in {s}
    BY <1>1, FirstOfIs
  <1> QED BY <1>2

\* The entries, and what is in them.
Entries ==
  [type : {"empty", "file", "directory"}, parent_offset : {Root} \cup (1..Slots),
   size : Nat, offset : Nat, name : Names \cup {""}]
Index == [1..Slots -> Entries]
Taken(idx) == {s \in DOMAIN idx : idx[s].type # "empty"}

LEMMA EntryIs ==
  ASSUME NEW idx \in Index, NEW s \in 1..Slots
  PROVE  /\ idx[s] \in Entries
         /\ idx[s].type \in {"empty", "file", "directory"}
         /\ idx[s].parent_offset \in {Root} \cup (1..Slots)
         /\ idx[s].size \in Nat /\ idx[s].offset \in Nat
         /\ idx[s].name \in Names \cup {""}
  <1>1. idx[s] \in Entries
    BY DEF Index
  <1> QED BY <1>1 DEF Entries

LEMMA SlotNumbers ==
  /\ Slots \in Nat /\ 1..Slots \in SUBSET Nat
  /\ Root \notin 1..Slots /\ None \notin 1..Slots /\ None # Root
  BY ImageAssumption DEF Root, None

LEMMA SlotIs ==
  ASSUME NEW idx \in Index
  PROVE  DOMAIN idx = 1..Slots /\ Taken(idx) \in SUBSET (1..Slots)
  BY DEF Index, Taken

LEMMA NonEmptyIs == ASSUME index \in Index PROVE NonEmpty = Taken(index)
  BY DEF NonEmpty, EmptySlots, Taken

\* The lookup of a directory, name by name.
LookTurn(path, i, a) ==
  IF a = None THEN None
  ELSE FirstOf({s \in EntriesNamed(path[i], a) : index[s].type = "directory"})

LEMMA ParentTurns ==
  ASSUME index \in Index, NEW path \in Seq(Names)
  PROVE  \E f : /\ f[0] = Root
                /\ \A i \in 1..Len(path) : f[i] = LookTurn(path, i, f[i - 1])
                /\ ParentOffset(path) = f[Len(path)]
  <1> DEFINE len == Len(path)
             K == {None, Root} \cup (1..Slots)
             G == [i \in 1..len |-> [a \in K |-> LookTurn(path, i, a)]]
             f == CHOOSE g : g = [i \in 0..len |->
                    IF i = 0 THEN Root ELSE LookTurn(path, i, g[i - 1])]
  <1>1. len \in Nat /\ Root \in K
    OBVIOUS
  <1>2. ParentOffset(path) = f[len]
    BY DEF ParentOffset, LookTurn
  <1>3. \A i \in 1..len : \A a \in K : LookTurn(path, i, a) \in K
    <2> TAKE i \in 1..len
    <2> TAKE a \in K
    <2> DEFINE S == {s \in EntriesNamed(path[i], a) : index[s].type = "directory"}
    <2>1. S \in SUBSET (1..Slots) /\ S \in SUBSET Nat
      BY SlotIs, SlotNumbers DEF EntriesNamed
    <2> HIDE DEF S
    <2>2. FirstOf(S) \in {None} \cup (1..Slots)
      <3>1. CASE S = {}
        BY <2>1, <3>1, FirstOfIs
      <3>2. CASE S # {}
        BY <2>1, <3>2, FirstOfIs
      <3> QED BY <3>1, <3>2
    <2>3. LookTurn(path, i, a) = IF a = None THEN None ELSE FirstOf(S)
      BY DEF LookTurn, S
    <2> QED BY <2>2, <2>3
  <1> HIDE DEF len, K
  <1>4. G \in [1..len -> [K -> K]]
    BY <1>3
  <1>5. \A i \in 1..len : \A a \in K : G[i][a] = LookTurn(path, i, a)
    OBVIOUS
  <1> HIDE DEF G
  <1>6. PICK g \in [0..len -> K] :
          g[0] = Root /\ \A n \in 1..len : g[n] = G[n][g[n - 1]]
    <2>1. Runs(K, Root, len, G) # {}
      BY <1>1, <1>4, CanBeRun
    <2> QED BY <2>1 DEF Runs
  <1>7. \A i \in 1..len : g[i] = LookTurn(path, i, g[i - 1])
    <2> TAKE i \in 1..len
    <2>1. g[i - 1] \in K
      BY <1>1, <1>6
    <2> QED BY <2>1, <1>5, <1>6
  <1>8. g = [i \in 0..len |-> IF i = 0 THEN Root ELSE LookTurn(path, i, g[i - 1])]
    BY <1>1, <1>6, <1>7
  <1>9. f = [i \in 0..len |-> IF i = 0 THEN Root ELSE LookTurn(path, i, f[i - 1])]
    BY <1>8
  <1> HIDE DEF f
  <1>10. f[0] = Root /\ \A i \in 1..len : f[i] = LookTurn(path, i, f[i - 1])
    BY <1>1, <1>9
  <1> QED BY <1>2, <1>10 DEF len

\* Where the children of a directory have their parent, if it is there.
DirSlot(slot, ds, path) ==
  IF path = <<>> THEN Root ELSE IF path \in ds THEN slot[path] ELSE None

\* The taken slots are exactly the files and directories that were made: each path has
\* one of its own, with its last name, below the slot of its directory.
NameOf(idx, ds, fs, slot, p) ==
  /\ p \in Seq(Names) /\ Len(p) # 0
  /\ Directory(p) = <<>> \/ Directory(p) \in ds
  /\ slot[p] \in Taken(idx)
  /\ idx[slot[p]].name = p[Len(p)]
  /\ idx[slot[p]].parent_offset = DirSlot(slot, ds, Directory(p))
  /\ idx[slot[p]].type = IF p \in ds THEN "directory" ELSE "file"

Named(idx, ds, fs, slot) ==
  /\ ds \cap fs = {}
  /\ \A p \in ds \cup fs : NameOf(idx, ds, fs, slot, p)
  /\ \A p, q \in ds \cup fs : slot[p] = slot[q] => p = q
  /\ \A s \in Taken(idx) : \E p \in ds \cup fs : slot[p] = s

LEMMA DirSlotIs ==
  ASSUME NEW idx \in Index, NEW ds, NEW fs, NEW slot, Named(idx, ds, fs, slot), NEW path,
         DirSlot(slot, ds, path) # None
  PROVE  /\ path = <<>> \/ path \in ds
         /\ path = <<>> => DirSlot(slot, ds, path) = Root
         /\ path # <<>> => /\ DirSlot(slot, ds, path) = slot[path]
                           /\ slot[path] \in 1..Slots
                           /\ slot[path] \in Taken(idx)
  <1>1. path = <<>> \/ path \in ds
    BY DEF DirSlot
  <1>2. path # <<>> => DirSlot(slot, ds, path) = slot[path] /\ path \in ds
    BY <1>1 DEF DirSlot
  <1>3. path # <<>> => slot[path] \in Taken(idx)
    BY <1>2 DEF Named, NameOf
  <1>4. Taken(idx) \in SUBSET (1..Slots)
    BY SlotIs, SlotNumbers
  <1> QED BY <1>1, <1>2, <1>3, <1>4 DEF DirSlot

\* Directories are told apart by their slots.
LEMMA OneDirSlot ==
  ASSUME NEW idx \in Index, NEW ds, NEW fs, NEW slot, Named(idx, ds, fs, slot),
         NEW a, DirSlot(slot, ds, a) # None, NEW b, DirSlot(slot, ds, b) = DirSlot(slot, ds, a)
  PROVE  a = b
  <1>1. /\ a = <<>> \/ a \in ds
        /\ a = <<>> => DirSlot(slot, ds, a) = Root
        /\ a # <<>> => DirSlot(slot, ds, a) = slot[a] /\ slot[a] \in 1..Slots
    BY DirSlotIs
  <1>2. /\ b = <<>> \/ b \in ds
        /\ b = <<>> => DirSlot(slot, ds, b) = Root
        /\ b # <<>> => DirSlot(slot, ds, b) = slot[b] /\ slot[b] \in 1..Slots
    BY DirSlotIs
  <1>3. Root \notin 1..Slots
    BY SlotIs, SlotNumbers
  <1>4. a \in ds /\ b \in ds /\ slot[a] = slot[b] => a = b
    BY DEF Named
  <1> QED BY <1>1, <1>2, <1>3, <1>4

LEMMA NamedEntries ==
  ASSUME index \in Index, NEW slot, NEW fs, Named(index, dirs, fs, slot),
         NEW path \in Seq(Names), Len(path) # 0,
         DirSlot(slot, dirs, Directory(path)) # None
  PROVE  EntriesNamed(path[Len(path)], DirSlot(slot, dirs, Directory(path))) =
           IF path \in dirs \cup fs THEN {slot[path]} ELSE {}
  <1> DEFINE E == EntriesNamed(path[Len(path)], DirSlot(slot, dirs, Directory(path)))
  <1>1. ASSUME NEW s \in E PROVE path \in dirs \cup fs /\ s = slot[path]
    <2>1. /\ s \in Taken(index)
          /\ index[s].parent_offset = DirSlot(slot, dirs, Directory(path))
          /\ index[s].name = path[Len(path)]
      BY <1>1 DEF EntriesNamed, Taken
    <2>2. PICK q \in dirs \cup fs : slot[q] = s
      BY <2>1 DEF Named
    <2>3. /\ q \in Seq(Names) /\ Len(q) # 0
          /\ index[s].name = q[Len(q)]
          /\ index[s].parent_offset = DirSlot(slot, dirs, Directory(q))
      BY <2>2 DEF Named, NameOf
    <2>4. Directory(q) = Directory(path)
      <3>1. DirSlot(slot, dirs, Directory(q)) = DirSlot(slot, dirs, Directory(path))
        BY <2>1, <2>3
      <3> QED BY ONLY <3>1, OneDirSlot, index \in Index, Named(index, dirs, fs, slot),
                      DirSlot(slot, dirs, Directory(path)) # None
    <2>5. q = path
      BY <2>1, <2>3, <2>4, SamePath
    <2> QED BY <2>2, <2>5
  <1>2. ASSUME path \in dirs \cup fs PROVE slot[path] \in E
    <2>1. NameOf(index, dirs, fs, slot, path)
      BY <1>2 DEF Named
    <2> QED BY <2>1 DEF NameOf, EntriesNamed, Taken
  <1> HIDE DEF E
  <1>3. CASE path \in dirs \cup fs
    <2>1. E = {slot[path]}
      BY <1>1, <1>2, <1>3
    <2> QED BY <1>3, <2>1 DEF E
  <1>4. CASE path \notin dirs \cup fs
    <2>1. E = {}
      BY <1>1, <1>4
    <2> QED BY <1>4, <2>1 DEF E
  <1> QED BY <1>3, <1>4

\* The lookup of a path ends in its slot if it was made, and finds nothing otherwise.
LEMMA ParentIs ==
  ASSUME index \in Index, NEW slot, NEW fs, Named(index, dirs, fs, slot),
         NEW path \in Seq(Names)
  PROVE  ParentOffset(path) = DirSlot(slot, dirs, path)
  <1> DEFINE len == Len(path)
  <1>1. PICK f : /\ f[0] = Root
                 /\ \A i \in 1..len : f[i] = LookTurn(path, i, f[i - 1])
                 /\ ParentOffset(path) = f[len]
    BY ParentTurns
  <1>2. len \in Nat
    OBVIOUS
  <1> DEFINE Good == {i \in 0..len : f[i] = DirSlot(slot, dirs, First(path, i))}
  <1>3. 0 \in Good
    BY <1>1, <1>2, WholePath DEF DirSlot
  <1>4. ASSUME NEW i \in 1..len, f[i - 1] = DirSlot(slot, dirs, First(path, i - 1))
        PROVE  f[i] = DirSlot(slot, dirs, First(path, i))
    <2> DEFINE q == First(path, i)
               a == DirSlot(slot, dirs, Directory(q))
    <2>1. i \in Nat /\ i # 0 /\ i \in 0..len
      BY <1>2
    <2>2. q \in Seq(Names) /\ Len(q) = i /\ Directory(q) = First(path, i - 1) /\ q[i] = path[i]
      BY <2>1, FirstIs, FirstDirectory
    <2>3. q # <<>>
      BY <2>1, <2>2
    <2> HIDE DEF q
    <2>4. f[i] = LookTurn(path, i, a)
      BY <1>1, <1>4, <2>2
    <2>5. CASE a = None
      <3>1. f[i] = None
        BY <2>4, <2>5 DEF LookTurn
      <3>2. q \notin dirs
        <4> SUFFICES ASSUME q \in dirs PROVE FALSE
          OBVIOUS
        <4>1. NameOf(index, dirs, fs, slot, q)
          BY DEF Named
        <4>2. index[slot[q]].parent_offset = None /\ slot[q] \in 1..Slots
          BY <4>1, <2>5, SlotIs, SlotNumbers DEF NameOf
        <4> QED BY <4>2, EntryIs, SlotIs, SlotNumbers
      <3> QED BY <3>1, <3>2, <2>3 DEF DirSlot, q
    <2>6. CASE a # None
      <3> DEFINE S == {s \in EntriesNamed(path[i], a) : index[s].type = "directory"}
      <3>1. EntriesNamed(path[i], a) = IF q \in dirs \cup fs THEN {slot[q]} ELSE {}
        BY <2>1, <2>2, <2>6, NamedEntries
      <3>2. f[i] = FirstOf(S)
        BY <2>4, <2>6 DEF LookTurn
      <3>3. CASE q \in dirs
        <4>1. NameOf(index, dirs, fs, slot, q)
          BY <3>3 DEF Named
        <4>2. index[slot[q]].type = "directory" /\ slot[q] \in Nat
          BY <3>3, <4>1, SlotIs, SlotNumbers DEF NameOf
        <4>3. S = {slot[q]}
          BY <3>1, <3>3, <4>2
        <4> HIDE DEF S
        <4>4. f[i] = slot[q]
          BY <3>2, <4>2, <4>3, FirstOfOne
        <4> QED BY <4>4, <3>3, <2>3 DEF DirSlot, q
      <3>4. CASE q \notin dirs
        <4>1. S = {}
          <5> SUFFICES ASSUME NEW s \in EntriesNamed(path[i], a) PROVE index[s].type # "directory"
            OBVIOUS
          <5>1. q \in fs /\ s = slot[q]
            BY <3>1, <3>4
          <5>2. NameOf(index, dirs, fs, slot, q)
            BY <5>1 DEF Named
          <5> QED BY <3>4, <5>1, <5>2 DEF NameOf
        <4> HIDE DEF S
        <4>2. f[i] = None
          BY <3>2, <4>1 DEF FirstOf
        <4> QED BY <4>2, <3>4, <2>3 DEF DirSlot, q
      <3> QED BY <3>3, <3>4
    <2> QED BY <2>5, <2>6
  <1>5. \A i \in 1..len : i - 1 \in Good => i \in Good
    BY <1>2, <1>4
  <1>6. len \in Good
    <2> HIDE DEF Good
    <2>1. \A i \in 0..len : i \in Good
      BY <1>2, <1>3, <1>5, ReachesAll
    <2> QED BY <1>2, <2>1
  <1> QED BY <1>1, <1>6, WholePath

LEMMA GetIndexIs ==
  ASSUME index \in Index, NEW slot, NEW fs, Named(index, dirs, fs, slot),
         NEW path \in Seq(Names), Len(path) # 0
  PROVE  /\ GetIndex(path) = IF path \in dirs \cup fs THEN slot[path] ELSE None
         /\ path \in dirs \cup fs => slot[path] \in Taken(index) /\ slot[path] \in 1..Slots
         /\ ParentOffset(Directory(path)) = DirSlot(slot, dirs, Directory(path))
  <1> DEFINE a == DirSlot(slot, dirs, Directory(path))
  <1>1. path # <<>> /\ Directory(path) \in Seq(Names)
    BY DirectoryIs
  <1>2. ParentOffset(Directory(path)) = a
    BY <1>1, ParentIs
  <1>3. ASSUME path \in dirs \cup fs
        PROVE  slot[path] \in Taken(index) /\ slot[path] \in 1..Slots /\ a # None
    <2>1. NameOf(index, dirs, fs, slot, path)
      BY <1>3 DEF Named
    <2>2. slot[path] \in Taken(index) /\ slot[path] \in 1..Slots
          /\ index[slot[path]].parent_offset = a
      BY <2>1, SlotIs, SlotNumbers DEF NameOf
    <2> QED BY <2>2, EntryIs, SlotIs, SlotNumbers
  <1> HIDE DEF a
  <1>4. CASE a = None
    <2>1. GetIndex(path) = None
      BY <1>2, <1>4 DEF GetIndex
    <2> QED BY <1>2, <1>3, <1>4, <2>1 DEF a
  <1>5. CASE a # None
    <2>1. GetIndex(path) = FirstOf(EntriesNamed(path[Len(path)], a))
      BY <1>1, <1>2, <1>5 DEF GetIndex
    <2>2. EntriesNamed(path[Len(path)], a) = IF path \in dirs \cup fs THEN {slot[path]} ELSE {}
      BY <1>5, NamedEntries DEF a
    <2>3. CASE path \in dirs \cup fs
      <3>1. slot[path] \in Nat /\ FirstOf({slot[path]}) = slot[path]
        BY <1>3, <2>3, FirstOfOne, SlotIs, SlotNumbers
      <3> QED BY <1>2, <1>3, <2>1, <2>2, <2>3, <3>1 DEF a
    <2>4. CASE path \notin dirs \cup fs
      BY <1>2, <2>1, <2>2, <2>4 DEF FirstOf, a
    <2> QED BY <2>3, <2>4
  <1> QED BY <1>4, <1>5

\* An entry for a path that was not there, in a slot that was empty.
With(S, path, e, type) == IF e.type = type THEN S \cup {path} ELSE S
Put(idx, s, e) == [idx EXCEPT ![s] = e]

Fits(idx, ds, fs, slot, s, path, e) ==
  /\ s \in 1..Slots /\ idx[s].type = "empty"
  /\ path \in Seq(Names) /\ Len(path) # 0 /\ path \notin ds \cup fs
  /\ DirSlot(slot, ds, Directory(path)) # None
  /\ e \in Entries /\ e.type \in {"file", "directory"} /\ e.name = path[Len(path)]
  /\ e.parent_offset = DirSlot(slot, ds, Directory(path))

Extends(slot2, ds, fs, slot, s, path) ==
  slot2[path] = s /\ \A p \in ds \cup fs : slot2[p] = slot[p]

LEMMA NewNamed ==
  ASSUME NEW idx \in Index, NEW ds, NEW fs, NEW slot, Named(idx, ds, fs, slot),
         NEW s, NEW path, NEW e, Fits(idx, ds, fs, slot, s, path, e),
         NEW slot2, Extends(slot2, ds, fs, slot, s, path)
  PROVE  Named(Put(idx, s, e), With(ds, path, e, "directory"), With(fs, path, e, "file"), slot2)
  <1> DEFINE idx2 == Put(idx, s, e)
             ds2 == With(ds, path, e, "directory")
             fs2 == With(fs, path, e, "file")
  <1>0. /\ s \in 1..Slots /\ idx[s].type = "empty"
        /\ path \in Seq(Names) /\ Len(path) # 0 /\ path \notin ds \cup fs
        /\ DirSlot(slot, ds, Directory(path)) # None
        /\ e \in Entries /\ e.type \in {"file", "directory"} /\ e.name = path[Len(path)]
        /\ e.parent_offset = DirSlot(slot, ds, Directory(path))
    BY DEF Fits
  <1>1. ds2 \cup fs2 = ds \cup fs \cup {path} /\ ds2 \cap fs2 = {}
    BY <1>0 DEF Named, With
  <1>2. /\ slot2[path] = s
        /\ \A p \in ds \cup fs : p # path /\ slot2[p] = slot[p]
    BY <1>0 DEF Extends
  <1>3. DOMAIN idx = 1..Slots /\ idx2 \in Index /\ idx2[s] = e
        /\ \A t \in 1..Slots : t # s => idx2[t] = idx[t]
    BY <1>0 DEF Index, Put
  <1> HIDE DEF idx2
  <1>4. Taken(idx2) = Taken(idx) \cup {s} /\ s \notin Taken(idx) /\ Taken(idx) \in SUBSET (1..Slots)
    <2>1. DOMAIN idx2 = 1..Slots
      BY <1>3, SlotIs
    <2> QED BY <1>0, <1>3, <2>1 DEF Taken
  <1>5. \A p \in ds \cup fs : NameOf(idx, ds, fs, slot, p)
    BY DEF Named
  <1>6. ds2 \in SUBSET (ds \cup {path}) /\ ds \in SUBSET ds2 /\ (path \in ds2 <=> e.type = "directory")
    BY <1>0 DEF With
  <1> HIDE DEF ds2, fs2
  <1>7. \A d \in ds \cup {<<>>} : DirSlot(slot2, ds2, d) = DirSlot(slot, ds, d)
    BY <1>0, <1>2, <1>6 DEF DirSlot
  <1>8. Directory(path) \in ds \cup {<<>>}
    BY <1>0 DEF DirSlot
  <1>9. NameOf(idx2, ds2, fs2, slot2, path)
    BY <1>0, <1>2, <1>3, <1>4, <1>6, <1>7, <1>8 DEF NameOf
  <1>10. ASSUME NEW p \in ds \cup fs PROVE NameOf(idx2, ds2, fs2, slot2, p)
    <2>1. NameOf(idx, ds, fs, slot, p) /\ p # path /\ slot2[p] = slot[p]
      BY <1>2, <1>5
    <2>2. slot[p] \in Taken(idx) /\ slot[p] # s /\ slot[p] \in 1..Slots
      BY <2>1, <1>4 DEF NameOf
    <2>3. idx2[slot[p]] = idx[slot[p]] /\ (p \in ds2 <=> p \in ds)
      BY <2>1, <2>2, <1>0, <1>3, <1>6
    <2> QED BY <2>1, <2>2, <2>3, <1>4, <1>6, <1>7 DEF NameOf
  <1>11. \A p, q \in ds2 \cup fs2 : slot2[p] = slot2[q] => p = q
    <2> SUFFICES ASSUME NEW p \in ds2 \cup fs2, NEW q \in ds2 \cup fs2, slot2[p] = slot2[q]
                 PROVE  p = q
      OBVIOUS
    <2>1. \A r \in ds \cup fs : slot[r] # s
      BY <1>4, <1>5 DEF NameOf
    <2>2. CASE p = path \/ q = path
      BY <2>1, <2>2, <1>1, <1>2
    <2>3. CASE p # path /\ q # path
      <3>1. p \in ds \cup fs /\ q \in ds \cup fs
        BY <1>1, <2>3
      <3>2. slot[p] = slot[q]
        BY <3>1, <1>2
      <3> QED BY <3>1, <3>2 DEF Named
    <2> QED BY <2>2, <2>3
  <1>12. \A t \in Taken(idx2) : \E p \in ds2 \cup fs2 : slot2[p] = t
    <2> SUFFICES ASSUME NEW t \in Taken(idx2) PROVE \E p \in ds2 \cup fs2 : slot2[p] = t
      OBVIOUS
    <2>1. CASE t = s
      BY <2>1, <1>1, <1>2
    <2>2. CASE t # s
      <3>1. t \in Taken(idx)
        BY <2>2, <1>4
      <3>2. PICK p \in ds \cup fs : slot[p] = t
        BY <3>1 DEF Named
      <3> QED BY <3>2, <1>1, <1>2
    <2> QED BY <2>1, <2>2
  <1>13. \A p \in ds2 \cup fs2 : NameOf(idx2, ds2, fs2, slot2, p)
    BY <1>1, <1>9, <1>10
  <1>14. Named(idx2, ds2, fs2, slot2)
    BY <1>1, <1>11, <1>12, <1>13 DEF Named
  <1> QED BY <1>14 DEF idx2, ds2, fs2

\* Only the size and the place of an entry change.
LEMMA SameNamed ==
  ASSUME NEW idx \in Index, NEW ds, NEW fs, NEW slot, Named(idx, ds, fs, slot),
         NEW idx2, DOMAIN idx2 = DOMAIN idx,
         \A s \in DOMAIN idx : /\ idx2[s].type = idx[s].type
                               /\ idx2[s].parent_offset = idx[s].parent_offset
                               /\ idx2[s].name = idx[s].name
  PROVE  Named(idx2, ds, fs, slot) /\ Taken(idx2) = Taken(idx)
  <1>1. Taken(idx2) = Taken(idx)
    BY DEF Taken
  <1>2. \A p \in ds \cup fs : NameOf(idx2, ds, fs, slot, p)
    <2> TAKE p \in ds \cup fs
    <2>1. NameOf(idx, ds, fs, slot, p)
      BY DEF Named
    <2>2. slot[p] \in DOMAIN idx
      BY <2>1 DEF NameOf, Taken
    <2> QED BY <1>1, <2>1, <2>2 DEF NameOf
  <1> QED BY <1>1, <1>2 DEF Named

-----------------------------------------------------------------------------
(* The invariant.                                                          *)

Byte == {NoByte} \cup Bytes
Contents == Seq(Bytes \cup {Any})

Typed ==
  /\ booted \in BOOLEAN /\ torn \in BOOLEAN
  /\ index \in Index
  /\ \A s \in 1..Slots : index[s].type = "file" => index[s].offset >= IndexSize
  /\ data \in Seq(Byte)
  /\ dirs \in SUBSET Paths /\ DOMAIN files \in SUBSET Paths
  /\ files \in [DOMAIN files -> Contents]

\* The empty slots are behind all others, and as they were made.
Tidy(idx) ==
  \A s, t \in 1..Slots : s <= t /\ idx[s].type = "empty" =>
    idx[t].type = "empty" /\ idx[t].parent_offset = Root

\* An entry lies behind the index, or is a directory whose place was never chosen.
\* What is written to such a directory is behind the index, or the image is torn.
Placed(idx) ==
  \A s \in Taken(idx) :
    \/ idx[s].offset >= IndexSize
    \/ /\ idx[s].type = "directory" /\ idx[s].offset = 0
       /\ idx[s].size = 0 \/ idx[s].size > IndexSize

Apart(idx) ==
  \A s, t \in Taken(idx) : s # t => Extent(idx[s]) \cap Extent(idx[t]) = {}

\* No entry ends far behind the image, and none where offsets wrap.
EndOf(e) == e.offset + e.size

Early(idx, max) == \A s \in Taken(idx) : EndOf(idx[s]) <= max + s

Late(idx, max) ==
  /\ 3 * max + Slots <= Width
  /\ \A s \in Taken(idx) : EndOf(idx[s]) <= 2 * max + Slots

\* The bytes of a file that something was written to are in its place.
Stored(e, dt, content) ==
  /\ Len(content) = e.size
  /\ \A k \in 1..Len(content) :
       content[k] # Any => /\ e.offset + k <= IndexSize + Len(dt)
                           /\ dt[e.offset - IndexSize + k] = content[k]

Holds(idx, dt, fs, slot) ==
  \A p \in DOMAIN fs : Stored(idx[slot[p]], dt, fs[p])

Whole ==
  /\ Tidy(index) /\ Placed(index) /\ Apart(index)
  /\ IF booted THEN Late(index, RootMax) ELSE Early(index, RootMax)
  /\ \E slot : Named(index, dirs, DOMAIN files, slot) /\ Holds(index, data, files, slot)

IInv ==
  /\ Typed
  /\ torn => booted
  /\ ~torn => Whole

-----------------------------------------------------------------------------
(* What follows from it.                                                   *)

LEMMA InvTypes == IInv => TypeOK
  <1> SUFFICES ASSUME Typed PROVE TypeOK
    BY DEF IInv
  <1>1. index \in Index /\ DOMAIN index = 1..Slots
    BY SlotIs, SlotNumbers DEF Typed
  <1>2. \A s \in 1..Slots :
          /\ index[s].type \in {"empty", "file", "directory"}
          /\ index[s].parent_offset \in {Root} \cup (1..Slots)
          /\ index[s].size \in Nat /\ index[s].offset \in Nat
          /\ index[s].name \in Names \cup {""}
    BY <1>1, EntryIs
  <1> QED BY <1>1, <1>2 DEF Typed, TypeOK, Byte

\* There is room for a file of that size where the file is: it ends before the
\* storage does, and every other entry ends in front of it or begins behind it.
Room(s, size) ==
  /\ index[s].offset + size < RootMax
  /\ \A t \in NonEmpty \ {s} :
       \/ EntryEnd(t) <= index[s].offset /\ index[t].offset < index[s].offset
       \/ index[t].offset > index[s].offset + size

\* A file that has room behind it grows where it is, so that such a write neither
\* fails nor moves data nor touches another file.  (Without that room, Resize may
\* put the file over another one: it looks at one point of the new place only.)
RoomIsUsed ==
  ~torn => \A s \in NonEmpty, more \in 1..RootMax :
    index[s].type = "file" /\ Room(s, index[s].size + more) =>
      ResizedOffset(s, index[s].size + more) = index[s].offset

\* Room for a file where it is, is room for Resize.
LEMMA RoomFound ==
  ASSUME TypeOK, NEW s \in NonEmpty, NEW more \in 1..RootMax,
         Room(s, index[s].size + more)
  PROVE  ResizedOffset(s, index[s].size + more) = index[s].offset
  <1> DEFINE others == {t \in NonEmpty : index[t].offset # index[s].offset}
             size == index[s].size + more
             at == index[s].offset + size
  <1>1. \A t \in NonEmpty : index[t].offset \in Nat /\ index[t].size \in Nat
    BY DEF TypeOK, NonEmpty
  <1>2. more \in Nat /\ more >= 1 /\ size \in Nat /\ at \in Nat /\ at > index[s].offset
    <2>1. more \in Int /\ more >= 1
      OBVIOUS
    <2> QED BY <1>1, <2>1
  <1>3. at < RootMax
    BY DEF Room
  <1>4. ASSUME NEW t \in others
        PROVE  ~(index[t].offset = at \/ (index[t].offset < at /\ EntryEnd(t) + 1 > at))
    <2>1. t \in NonEmpty \ {s} /\ index[t].offset \in Nat /\ index[t].size \in Nat
      BY <1>1
    <2>2. \/ EntryEnd(t) <= index[s].offset /\ index[t].offset < index[s].offset
          \/ index[t].offset > at
      BY <2>1 DEF Room
    <2> HIDE DEF size, at
    <2> QED BY <1>1, <1>2, <2>1, <2>2 DEF EntryEnd
  <1>5. Free(at, others, 1)
    BY <1>4 DEF Free
  <1> QED BY <1>3, <1>5 DEF ResizedOffset

LEMMA InvRoom == TypeOK => RoomIsUsed
  BY RoomFound DEF RoomIsUsed

LEMMA InvPaths ==
  ASSUME Typed
  PROVE  \A p \in dirs \cup DOMAIN files :
           p \in Paths /\ p \in Seq(Names) /\ Len(p) # 0 /\ p # <<>>
  BY PathIs DEF Typed

\* The list of a directory.
LEMMA InvLists == IInv => ListExact
  <1> SUFFICES ASSUME IInv, ~torn, NEW path \in dirs \cup {<<>>}
               PROVE  FsList(path) = {p[Len(p)] : p \in
                        {p \in DOMAIN files \cup dirs : Directory(p) = path}}
    BY DEF ListExact
  <1>1. Typed /\ Tidy(index) /\ index \in Index /\ DOMAIN index = 1..Slots
    BY SlotIs, SlotNumbers DEF IInv, Whole, Typed
  <1> DEFINE fs == DOMAIN files
  <1>2. PICK slot : Named(index, dirs, fs, slot)
    BY DEF IInv, Whole
  <1> DEFINE directory == IF path = <<>> THEN Root ELSE GetIndex(path)
             children == {s \in DOMAIN index : index[s].parent_offset = directory}
             end == FirstOf(children \cap EmptySlots)
             listed == {s \in children : end = None \/ s < end}
             mine == {p \in fs \cup dirs : Directory(p) = path}
  <1>3. FsList(path) = {index[s].name : s \in listed}
    BY DEF FsList
  <1>4. directory = DirSlot(slot, dirs, path) /\ directory # None
    <2>1. CASE path = <<>>
      BY <2>1, SlotIs, SlotNumbers DEF DirSlot
    <2>2. CASE path # <<>>
      <3>1. path \in dirs /\ path \in Seq(Names) /\ Len(path) # 0
        BY <1>1, <2>2, InvPaths
      <3>2. GetIndex(path) = slot[path] /\ slot[path] \in 1..Slots
        BY <1>1, <1>2, <3>1, GetIndexIs
      <3> QED BY <2>2, <3>1, <3>2, SlotIs, SlotNumbers DEF DirSlot
    <2> QED BY <2>1, <2>2
  <1> HIDE DEF directory, fs
  <1>5. \A p \in mine : slot[p] \in children /\ slot[p] \in Taken(index)
                        /\ index[slot[p]].name = p[Len(p)]
    <2> TAKE p \in mine
    <2>1. NameOf(index, dirs, fs, slot, p)
      BY <1>2 DEF Named
    <2>2. slot[p] \in Taken(index) /\ slot[p] \in DOMAIN index
          /\ index[slot[p]].name = p[Len(p)]
          /\ index[slot[p]].parent_offset = DirSlot(slot, dirs, Directory(p))
      BY <2>1 DEF NameOf, Taken
    <2> QED BY <1>4, <2>2
  <1>6. \A s \in children \cap Taken(index) : \E p \in mine : slot[p] = s
    <2> TAKE s \in children \cap Taken(index)
    <2>1. PICK p \in dirs \cup fs : slot[p] = s
      BY <1>2 DEF Named
    <2>2. DirSlot(slot, dirs, Directory(p)) = directory
      BY <1>2, <2>1 DEF Named, NameOf
    <2>3. Directory(p) = path
      <3>1. DirSlot(slot, dirs, Directory(p)) = DirSlot(slot, dirs, path)
            /\ DirSlot(slot, dirs, path) # None
        BY <1>4, <2>2
      <3> QED BY ONLY <3>1, OneDirSlot, <1>1, <1>2
    <2> QED BY <2>1, <2>3
  <1>7. EmptySlots \in SUBSET (1..Slots) /\ EmptySlots = (1..Slots) \ Taken(index)
    BY <1>1 DEF EmptySlots, Taken
  <1>8. children \in SUBSET (1..Slots)
    BY <1>1
  <1>9. \A s \in children : s \in listed <=> s \in Taken(index)
    <2> DEFINE free == children \cap EmptySlots
    <2>1. free \in SUBSET Nat
      BY <1>7, SlotIs, SlotNumbers
    <2>2. IF free = {} THEN end = None ELSE end \in free /\ \A t \in free : end <= t
      BY <2>1, FirstOfIs
    <2> HIDE DEF end
    <2>3a. free \in SUBSET (1..Slots) /\ free \in SUBSET EmptySlots
      BY <1>7
    <2> HIDE DEF free
    <2> TAKE s \in children
    <2>3. s \in Nat /\ s \in 1..Slots
      BY <1>8, SlotIs, SlotNumbers
    <2>4. CASE free = {}
      BY <2>2, <2>4, <1>7, <1>8 DEF free
    <2>5. CASE free # {}
      <3>1. end \in free /\ end \in Nat /\ end # None
        BY <2>1, <2>2, <2>3a, <2>5, SlotNumbers
      <3>2. index[end].type = "empty" /\ end \in 1..Slots
        BY <3>1, <2>3a DEF EmptySlots
      <3>3. s < end => s \in Taken(index)
        <4> SUFFICES ASSUME s \notin Taken(index) PROVE ~(s < end)
          OBVIOUS
        <4>1. s \in free
          BY <1>7, <2>3 DEF free
        <4>2. end <= s
          BY <2>2, <2>5, <4>1
        <4> QED BY <2>3, <3>1, <4>2
      <3>4. s \in Taken(index) => s < end
        <4> SUFFICES ASSUME ~(s < end) PROVE s \notin Taken(index)
          OBVIOUS
        <4>1. end <= s
          BY <2>3, <3>1
        <4>2. index[s].type = "empty"
          BY <1>1, <2>3, <3>2, <4>1 DEF Tidy
        <4> QED BY <4>2 DEF Taken
      <3> QED BY <3>1, <3>3, <3>4
    <2> QED BY <2>4, <2>5
  <1> HIDE DEF children, end, mine
  <1>10. listed = children \cap Taken(index)
    BY <1>9
  <1> HIDE DEF listed
  <1>11. \A s \in listed : \E p \in mine : p[Len(p)] = index[s].name
    BY <1>5, <1>6, <1>10
  <1>12. \A p \in mine : \E s \in listed : index[s].name = p[Len(p)]
    BY <1>5, <1>10
  <1>13. {index[s].name : s \in listed} = {p[Len(p)] : p \in mine}
    BY <1>11, <1>12
  <1> QED BY <1>3, <1>13 DEF mine, fs

\* A file reads back.
LEMMA ReadIs ==
  ASSUME data \in Seq(Byte), NEW offset \in Nat, NEW n \in Nat,
         n # 0 => offset + n <= IndexSize + Len(data)
  PROVE  /\ Len(StorageRead(offset, n)) = n
         /\ \A k \in 1..n : StorageRead(offset, n)[k] =
              IF offset + k > IndexSize THEN data[offset + k - IndexSize] ELSE NoByte
  <1> DEFINE bytes == [k \in 1..n |-> IF offset + k > IndexSize
                                      THEN data[offset + k - IndexSize] ELSE NoByte]
  <1>1. Len(data) \in Nat /\ IndexSize \in Nat
    BY ImageAssumption
  <1>2. Len(bytes) = n /\ \A k \in 1..n : bytes[k] =
          IF offset + k > IndexSize THEN data[offset + k - IndexSize] ELSE NoByte
    OBVIOUS
  <1>3. CASE offset + n <= IndexSize + Len(data)
    <2>1. StorageRead(offset, n) = bytes
      BY <1>1, <1>3 DEF StorageRead
    <2> HIDE DEF bytes
    <2> QED BY <1>2, <2>1
  <1>4. CASE n = 0 /\ ~(offset + n <= IndexSize + Len(data))
    <2>1. StorageRead(offset, n) = <<>>
      BY <1>1, <1>4 DEF StorageRead
    <2> QED BY <1>4, <2>1
  <1> QED BY <1>3, <1>4

LEMMA InvReads == IInv => ReadsBack
  <1> SUFFICES ASSUME IInv, ~torn, NEW path \in DOMAIN files
               PROVE  /\ FsDetailsGet(path) = [type |-> "file", size |-> Len(files[path])]
                      /\ \A last \in {LastWritten(path)} :
                         \A read \in {FsRead(path, 0, last)} :
                           /\ Len(read) = last
                           /\ \A k \in WrittenBytes(path) : read[k] = files[path][k]
    BY DEF ReadsBack
  <1>1. Typed /\ index \in Index /\ data \in Seq(Byte)
    BY DEF IInv, Typed
  <1>2. PICK slot : Named(index, dirs, DOMAIN files, slot) /\ Holds(index, data, files, slot)
    BY DEF IInv, Whole
  <1>3. path \in Seq(Names) /\ Len(path) # 0
    BY <1>1, InvPaths
  <1> DEFINE s == slot[path]
             old == files[path]
  <1>4. GetIndex(path) = s /\ s \in 1..Slots /\ s # None
    <2>1. GetIndex(path) = IF path \in dirs \cup DOMAIN files THEN s ELSE None
      BY <1>1, <1>2, <1>3, GetIndexIs
    <2>2. s \in 1..Slots
      BY <1>1, <1>2, <1>3, GetIndexIs
    <2> QED BY <2>1, <2>2, SlotIs, SlotNumbers
  <1>5. index[s].type = "file"
    <2>1. NameOf(index, dirs, DOMAIN files, slot, path) /\ path \notin dirs
      BY <1>2 DEF Named
    <2> QED BY <2>1 DEF NameOf
  <1>6. Stored(index[s], data, old)
    BY <1>2 DEF Holds
  <1>7. index[s].offset \in Nat /\ index[s].size \in Nat /\ index[s].offset >= IndexSize
        /\ IndexSize \in Nat
    BY <1>1, <1>4, <1>5, EntryIs, ImageAssumption DEF Typed
  <1>8. old \in Contents /\ Len(old) \in Nat /\ DOMAIN old = 1..Len(old)
    BY <1>1 DEF Typed, Contents
  <1> HIDE DEF s, old
  <1>9. Len(old) = index[s].size /\ FsDetailsGet(path) = [type |-> "file", size |-> Len(old)]
    BY <1>4, <1>5, <1>6 DEF Stored, FsDetailsGet
  <1> DEFINE W == WrittenBytes(path)
             last == LastWritten(path)
  <1>10. W \in SUBSET (1..Len(old)) /\ W \in SUBSET Nat
         /\ \A k \in W : old[k] # Any
    BY <1>8 DEF WrittenBytes, old
  <1>11. last \in W \cup {0} /\ \A j \in W : j <= last
    <2>1. W \cup {0} \in SUBSET Nat /\ W \cup {0} # {} /\ \A j \in W \cup {0} : j <= Len(old)
      BY <1>8, <1>10
    <2>2. \E k \in W \cup {0} : \A j \in W \cup {0} : j <= k
      BY <1>8, <2>1, GreatestOf
    <2>3. \E k \in W \cup {0} : \A j \in W : j <= k
      BY <2>2
    <2> HIDE DEF W
    <2>4. last = CHOOSE k \in W \cup {0} : \A j \in W : j <= k
      BY DEF LastWritten, W
    <2> HIDE DEF last
    <2> QED BY <2>3, <2>4
  <1> HIDE DEF W, last
  <1>12. last \in Nat /\ last <= Len(old)
    BY <1>8, <1>10, <1>11
  <1>13. last # 0 => index[s].offset + last <= IndexSize + Len(data)
    <2> SUFFICES ASSUME last # 0 PROVE index[s].offset + last <= IndexSize + Len(data)
      OBVIOUS
    <2>1. last \in 1..Len(old) /\ old[last] # Any
      BY <1>10, <1>11
    <2> QED BY <1>6, <2>1 DEF Stored
  <1>14. FsRead(path, 0, last) = StorageRead(index[s].offset, last)
    <2>1. ~(0 + last > index[s].size) /\ 0 + last = last /\ index[s].offset + 0 = index[s].offset
      BY <1>7, <1>9, <1>12
    <2> QED BY <1>4, <2>1 DEF FsRead
  <1>15. /\ Len(StorageRead(index[s].offset, last)) = last
         /\ \A k \in 1..last : StorageRead(index[s].offset, last)[k] =
              IF index[s].offset + k > IndexSize THEN data[index[s].offset + k - IndexSize]
              ELSE NoByte
    BY <1>1, <1>7, <1>12, <1>13, ReadIs
  <1>16. ASSUME NEW k \in W PROVE StorageRead(index[s].offset, last)[k] = old[k]
    <2>1. k \in 1..last /\ k \in 1..Len(old) /\ old[k] # Any /\ k \in Nat
      BY <1>10, <1>11, <1>12
    <2>2. data[index[s].offset - IndexSize + k] = old[k]
      BY <1>6, <2>1 DEF Stored
    <2>3. index[s].offset + k > IndexSize
          /\ index[s].offset + k - IndexSize = index[s].offset - IndexSize + k
      BY <1>7, <2>1
    <2> QED BY <1>15, <2>1, <2>2, <2>3
  <1> QED BY <1>9, <1>14, <1>15, <1>16 DEF W, old, last

-----------------------------------------------------------------------------
(* The data.                                                               *)

LEMMA SizesAre == IndexSize \in Nat /\ IndexSize # 0 /\ Slots \in Nat /\ Width \in Nat
  BY ImageAssumption, WriteAssumption

\* What is not touched stays stored.
LEMMA StoredElsewhere ==
  ASSUME NEW e, e.offset \in Nat, e.size \in Nat, e.offset >= IndexSize,
         NEW dt \in Seq(Byte), NEW dt2 \in Seq(Byte), Len(dt) <= Len(dt2),
         NEW content \in Contents, Stored(e, dt, content),
         \A b \in Extent(e) :
           b + 1 - IndexSize \in 1..Len(dt) => dt2[b + 1 - IndexSize] = dt[b + 1 - IndexSize]
  PROVE  Stored(e, dt2, content)
  <1>1. Len(content) = e.size /\ IndexSize \in Nat /\ Len(dt) \in Nat /\ Len(dt2) \in Nat
    BY SizesAre DEF Stored
  <1>2. ASSUME NEW k \in 1..Len(content), content[k] # Any
        PROVE  /\ e.offset + k <= IndexSize + Len(dt2)
               /\ dt2[e.offset - IndexSize + k] = content[k]
    <2>1. /\ e.offset + k <= IndexSize + Len(dt)
          /\ dt[e.offset - IndexSize + k] = content[k]
      BY <1>2 DEF Stored
    <2> DEFINE b == e.offset + k - 1
    <2>2. k \in Nat /\ k >= 1 /\ k <= e.size
      BY <1>1
    <2>3. b \in Extent(e) /\ b + 1 - IndexSize = e.offset - IndexSize + k
      BY <1>1, <2>2 DEF Extent
    <2>4. b + 1 - IndexSize \in 1..Len(dt)
      <3>1. /\ e.offset \in Nat /\ e.offset >= IndexSize /\ IndexSize \in Nat /\ k \in Nat
            /\ k >= 1 /\ Len(dt) \in Nat /\ e.offset + k <= IndexSize + Len(dt)
        BY <1>1, <2>1, <2>2
      <3> QED BY ONLY <3>1
    <2>5. dt2[b + 1 - IndexSize] = dt[b + 1 - IndexSize]
      BY <2>3, <2>4
    <2> HIDE DEF b
    <2>6. e.offset + k <= IndexSize + Len(dt2)
      BY <1>1, <2>1, <2>2
    <2> QED BY <2>1, <2>3, <2>5, <2>6
  <1> QED BY <1>1, <1>2 DEF Stored

LEMMA WrittenIs ==
  ASSUME data \in Seq(Byte), NEW offset \in Nat, offset >= IndexSize,
         NEW content \in Seq(Bytes)
  PROVE  LET w == Written(offset, content) IN
         /\ w \in Seq(Byte) /\ Len(data) <= Len(w)
         /\ Len(content) # 0 => offset + Len(content) <= IndexSize + Len(w)
         /\ \A k \in 1..Len(content) : w[offset - IndexSize + k] = content[k]
         /\ \A b \in Nat :
              /\ b + 1 - IndexSize \in 1..Len(data)
              /\ b < offset \/ b >= offset + Len(content)
              => w[b + 1 - IndexSize] = data[b + 1 - IndexSize]
  <1> DEFINE w == Written(offset, content)
             first == offset - IndexSize
             n == Len(content)
             len == Len(data)
             grown == IF content # <<>> /\ first + n > len THEN first + n ELSE len
             At(o) == IF o \in (first + 1)..(first + n) THEN content[o - first]
                      ELSE IF o <= len THEN data[o] ELSE NoByte
  <1>1. first \in Nat /\ n \in Nat /\ len \in Nat /\ IndexSize \in Nat
    BY SizesAre
  <1>2. w = [o \in 1..grown |-> At(o)]
    BY DEF Written
  <1>3. /\ \A k \in 1..n : content[k] \in Byte
        /\ \A o \in 1..len : data[o] \in Byte
        /\ NoByte \in Byte
    BY DEF Byte
  <1>4. n = 0 <=> content = <<>>
    OBVIOUS
  <1> HIDE DEF first, n, len
  <1>5. grown \in Nat /\ len <= grown /\ (n # 0 => first + n <= grown)
    BY <1>1, <1>4
  <1> HIDE DEF grown
  <1>6. \A o \in 1..grown : At(o) \in Byte
    <2> TAKE o \in 1..grown
    <2>1. CASE o \in (first + 1)..(first + n)
      <3>1. o - first \in 1..n
        BY <1>1, <2>1
      <3> QED BY <1>3, <2>1, <3>1
    <2>2. CASE o \notin (first + 1)..(first + n)
      <3>1. o <= len => o \in 1..len
        BY <1>1, <1>5
      <3> QED BY <1>3, <2>2, <3>1
    <2> QED BY <2>1, <2>2
  <1>7. \A k \in 1..n : At(first + k) = content[k] /\ first + k \in 1..grown
    <2> TAKE k \in 1..n
    <2>1. first + k \in (first + 1)..(first + n) /\ (first + k) - first = k
          /\ first + k \in 1..grown
      BY <1>1, <1>5
    <2> QED BY <2>1
  <1>8. \A o \in 1..len : o \notin (first + 1)..(first + n) => At(o) = data[o] /\ o \in 1..grown
    BY <1>1, <1>5
  <1> HIDE DEF At
  <1>9. w \in Seq(Byte) /\ Len(w) = grown /\ \A o \in 1..grown : w[o] = At(o)
    BY <1>2, <1>5, <1>6
  <1> HIDE DEF w
  <1>10. ASSUME NEW b \in Nat, b + 1 - IndexSize \in 1..len,
                b < offset \/ b >= offset + n
         PROVE  w[b + 1 - IndexSize] = data[b + 1 - IndexSize]
    <2> DEFINE o == b + 1 - IndexSize
    <2>1. o \notin (first + 1)..(first + n)
      BY <1>1, <1>10 DEF first
    <2> HIDE DEF o
    <2>2. w[o] = data[o]
      BY <1>8, <1>9, <1>10, <2>1 DEF o
    <2> QED BY <2>2 DEF o
  <1>11. n # 0 => offset + n <= IndexSize + Len(w)
    BY <1>1, <1>5, <1>9 DEF first
  <1>12. \A k \in 1..n : w[first + k] = content[k]
    BY <1>7, <1>9
  <1> QED BY <1>5, <1>9, <1>10, <1>11, <1>12 DEF w, first, n, len

\* c is bytes with the n bytes of content at an offset, as far as there is room for them.
CopyIn(c, bytes, offset, n, content) ==
  /\ c \in Seq(Byte) /\ Len(c) = Len(bytes)
  /\ \A k \in 1..n : offset - IndexSize + k \in 1..Len(bytes)
                       => c[offset - IndexSize + k] = content[k]
  /\ \A b \in Nat :
       /\ b + 1 - IndexSize \in 1..Len(bytes)
       /\ b < offset \/ b >= offset + n
       => c[b + 1 - IndexSize] = bytes[b + 1 - IndexSize]

LEMMA CopiedIs ==
  ASSUME NEW bytes \in Seq(Byte), NEW n \in Nat, NEW content \in [1..n -> Byte],
         NEW offset \in Nat
  PROVE  CopyIn(Copied(bytes, offset, content), bytes, offset, n, content)
  <1> DEFINE c == Copied(bytes, offset, content)
             len == Len(bytes)
             At(o) == LET k == o + IndexSize - offset
                      IN  IF k \in 1..n THEN content[k] ELSE bytes[o]
  <1>1. len \in Nat /\ IndexSize \in Nat /\ DOMAIN bytes = 1..len /\ DOMAIN content = 1..n
        /\ \A o \in 1..len : bytes[o] \in Byte
    BY SizesAre
  <1>2. c = [o \in 1..len |-> At(o)]
    BY <1>1 DEF Copied
  <1>3. \A o \in 1..len : At(o) \in Byte
    BY <1>1
  <1>4. \A k \in 1..n : At(offset - IndexSize + k) = content[k]
    <2> TAKE k \in 1..n
    <2>1. (offset - IndexSize + k) + IndexSize - offset = k
      BY <1>1
    <2> QED BY <2>1
  <1>5. ASSUME NEW b \in Nat, b < offset \/ b >= offset + n
        PROVE  At(b + 1 - IndexSize) = bytes[b + 1 - IndexSize]
    <2>1. (b + 1 - IndexSize) + IndexSize - offset \notin 1..n
      BY <1>1, <1>5
    <2> QED BY <2>1
  <1> HIDE DEF At, len
  <1>6. c \in Seq(Byte) /\ Len(c) = len /\ \A o \in 1..len : c[o] = At(o)
    BY <1>1, <1>2, <1>3
  <1> HIDE DEF c
  <1>7. \A k \in 1..n : offset - IndexSize + k \in 1..len
                          => c[offset - IndexSize + k] = content[k]
    BY <1>4, <1>6
  <1>8. \A b \in Nat : /\ b + 1 - IndexSize \in 1..len
                       /\ b < offset \/ b >= offset + n
                       => c[b + 1 - IndexSize] = bytes[b + 1 - IndexSize]
    BY <1>5, <1>6
  <1> QED BY <1>6, <1>7, <1>8 DEF c, len, CopyIn

LEMMA SourceIs ==
  ASSUME NEW path \in Paths, NEW offset \in Nat, NEW size \in Nat
  PROVE  /\ Source(path, offset, size) \in [1..size -> Byte]
         /\ \A k \in 1..size : Source(path, offset, size)[k] = <<path, offset + k, "kernel">>
         /\ \A k \in Nat : <<path, k, "kernel">> \in Bytes
  <1>1. \A k \in Nat : <<path, k, "kernel">> \in Bytes
    BY DEF Bytes
  <1>2. \A k \in 1..size : offset + k \in Nat
    OBVIOUS
  <1> QED BY <1>1, <1>2 DEF Source, Byte

LEMMA ContentIs ==
  ASSUME NEW path \in Paths, NEW size \in Nat
  PROVE  /\ Content(path, size) \in Seq(Bytes) /\ Len(Content(path, size)) = size
         /\ Content(path, size) \in Contents
         /\ \A n \in 0..size : /\ SubSeq(Content(path, size), 1, n) \in Seq(Bytes)
                               /\ Len(SubSeq(Content(path, size), 1, n)) = n
  <1> DEFINE C == Content(path, size)
  <1>1. \A k \in 1..size : <<path, k, "tool">> \in Bytes
    BY DEF Bytes
  <1>2. C \in Seq(Bytes) /\ Len(C) = size
    BY <1>1 DEF Content
  <1> HIDE DEF C
  <1>3. ASSUME NEW n \in 0..size
        PROVE  SubSeq(C, 1, n) \in Seq(Bytes) /\ Len(SubSeq(C, 1, n)) = n
    <2>1. n \in Nat /\ \A k \in 1..n : C[k] \in Bytes
      BY <1>2
    <2>2. SubSeq(C, 1, n) = [k \in 1..n |-> C[k]]
      BY <1>2, <2>1
    <2>3. [k \in 1..n |-> C[k]] \in Seq(Bytes) /\ Len([k \in 1..n |-> C[k]]) = n
      BY <2>1
    <2> QED BY <2>2, <2>3
  <1>4. C \in Contents
    <2>1. \A k \in 1..size : C[k] \in Bytes \cup {Any}
      BY <1>2
    <2> QED BY <1>2, <2>1 DEF Contents
  <1> QED BY <1>2, <1>3, <1>4 DEF C

-----------------------------------------------------------------------------
(* The tools, and a new entry.                                             *)

LEMMA InvNow ==
  ASSUME IInv
  PROVE  /\ Typed /\ index \in Index /\ DOMAIN index = 1..Slots
         /\ data \in Seq(Byte) /\ Len(data) \in Nat
         /\ NonEmpty = Taken(index) /\ Taken(index) \in SUBSET (1..Slots)
         /\ RootMax \in Nat /\ RootMax = IndexSize + Len(data) /\ RootMax >= IndexSize
         /\ \A s \in 1..Slots : index[s].offset \in Nat /\ index[s].size \in Nat
  <1>1. Typed /\ index \in Index /\ data \in Seq(Byte)
    BY DEF IInv, Typed
  <1>2. Len(data) \in Nat /\ IndexSize \in Nat
    BY <1>1, SizesAre
  <1>3. DOMAIN index = 1..Slots /\ Taken(index) \in SUBSET (1..Slots)
    BY <1>1, SlotIs
  <1>4. \A s \in 1..Slots : index[s].offset \in Nat /\ index[s].size \in Nat
    BY <1>1, EntryIs
  <1>5. RootMax \in Nat /\ RootMax = IndexSize + Len(data) /\ RootMax >= IndexSize
    BY <1>2 DEF RootMax
  <1> QED BY <1>1, <1>2, <1>3, <1>4, <1>5, NonEmptyIs

LEMMA EmptyIs ==
  ASSUME IInv, ~torn, GetEmptyIndex # None
  PROVE  /\ GetEmptyIndex \in 1..Slots
         /\ index[GetEmptyIndex].type = "empty"
         /\ \A t \in Taken(index) : t < GetEmptyIndex
         /\ \A t \in 1..Slots : t < GetEmptyIndex => index[t].type # "empty"
         /\ \A t \in 1..Slots : t > GetEmptyIndex =>
              index[t].type = "empty" /\ index[t].parent_offset = Root
  <1> DEFINE s == GetEmptyIndex
  <1>1. index \in Index /\ DOMAIN index = 1..Slots /\ Taken(index) \in SUBSET (1..Slots)
        /\ Tidy(index) /\ 1..Slots \in SUBSET Nat
    BY InvNow, SlotNumbers DEF IInv, Whole
  <1>2. EmptySlots \in SUBSET Nat /\ EmptySlots \in SUBSET (1..Slots)
    BY <1>1 DEF EmptySlots
  <1>3. s \in EmptySlots /\ \A t \in EmptySlots : s <= t
    <2>1. EmptySlots # {}
      BY DEF GetEmptyIndex, FirstOf
    <2> QED BY <1>2, <2>1, FirstOfIs DEF GetEmptyIndex
  <1> HIDE DEF s
  <1>4. s \in 1..Slots /\ index[s].type = "empty" /\ s \in Nat
    BY <1>1, <1>2, <1>3 DEF EmptySlots
  <1>5. ASSUME NEW t \in 1..Slots
        PROVE  /\ t < s => index[t].type # "empty"
               /\ s <= t => index[t].type = "empty" /\ index[t].parent_offset = Root
    <2>1. t \in Nat
      BY <1>1
    <2>2. index[t].type = "empty" => s <= t
      BY <1>1, <1>3 DEF EmptySlots
    <2>3. s <= t => index[t].type = "empty" /\ index[t].parent_offset = Root
      BY <1>1, <1>4 DEF Tidy
    <2> QED BY <1>4, <2>1, <2>2, <2>3
  <1>6. ASSUME NEW t \in Taken(index) PROVE t < s
    <2>1. t \in 1..Slots /\ t \in Nat /\ index[t].type # "empty"
      BY <1>1 DEF Taken
    <2>2. ~(s <= t)
      BY <1>5, <2>1
    <2> QED BY <1>4, <2>1, <2>2
  <1>7. ASSUME NEW t \in 1..Slots, t > s PROVE s <= t
    <2>1. t \in Nat
      BY <1>1
    <2> QED BY <1>4, <1>7, <2>1
  <1> QED BY <1>4, <1>5, <1>6, <1>7 DEF s

\* An entry e with its data is made for a path that was not there.  The data of the other
\* entries stay, and are not where the new entry is.
Enters(path, e, dt, content) ==
  /\ GetIndex(path) = None /\ GetEmptyIndex # None /\ ParentOffset(Directory(path)) # None
  /\ e \in Entries /\ e.type \in {"file", "directory"} /\ e.name = path[Len(path)]
  /\ e.parent_offset = ParentOffset(Directory(path))
  /\ e.offset >= IndexSize \/ (e.type = "directory" /\ e.offset = 0 /\ e.size = 0)
  /\ dt \in Seq(Byte) /\ Len(data) <= Len(dt)
  /\ content \in Contents /\ (e.type = "file" => Stored(e, dt, content))
  /\ \A t \in Taken(index) : Extent(e) \cap Extent(index[t]) = {}
  /\ \A t \in Taken(index) : \A b \in Extent(index[t]) :
       b + 1 - IndexSize \in 1..Len(data) => dt[b + 1 - IndexSize] = data[b + 1 - IndexSize]

FilesWith(path, e, content) ==
  IF e.type = "file"
  THEN [p \in DOMAIN files \cup {path} |-> IF p = path THEN content ELSE files[p]]
  ELSE files

\* What holds of an index, the directories, the files and the data, whatever the ends of
\* the entries are.
Sound(idx, ds, fs, dt) ==
  /\ idx \in Index /\ dt \in Seq(Byte)
  /\ \A s \in 1..Slots : idx[s].type = "file" => idx[s].offset >= IndexSize
  /\ ds \in SUBSET Paths /\ DOMAIN fs \in SUBSET Paths
  /\ fs \in [DOMAIN fs -> Contents]
  /\ Tidy(idx) /\ Placed(idx) /\ Apart(idx)
  /\ \E slot : Named(idx, ds, DOMAIN fs, slot) /\ Holds(idx, dt, fs, slot)

Entered(idx, e) ==
  /\ Taken(idx) = Taken(index) \cup {GetEmptyIndex}
  /\ idx[GetEmptyIndex] = e
  /\ \A t \in Taken(index) : idx[t] = index[t] /\ t < GetEmptyIndex

LEMMA EntryAdded ==
  ASSUME IInv, ~torn, NEW path \in Paths, NEW e, NEW dt, NEW content,
         Enters(path, e, dt, content)
  PROVE  /\ Sound(Put(index, GetEmptyIndex, e), With(dirs, path, e, "directory"),
                  FilesWith(path, e, content), dt)
         /\ Entered(Put(index, GetEmptyIndex, e), e)
  <1> DEFINE idx == Put(index, GetEmptyIndex, e)
             ds == With(dirs, path, e, "directory")
             fs == FilesWith(path, e, content)
  <1>a. /\ GetIndex(path) = None /\ GetEmptyIndex # None
        /\ ParentOffset(Directory(path)) # None
        /\ e \in Entries /\ e.type \in {"file", "directory"} /\ e.name = path[Len(path)]
        /\ e.parent_offset = ParentOffset(Directory(path))
        /\ e.offset >= IndexSize \/ (e.type = "directory" /\ e.offset = 0 /\ e.size = 0)
        /\ dt \in Seq(Byte) /\ Len(data) <= Len(dt)
        /\ content \in Contents /\ (e.type = "file" => Stored(e, dt, content))
    BY DEF Enters
  <1>b. \A t \in Taken(index) : Extent(e) \cap Extent(index[t]) = {}
    BY DEF Enters
  <1>c. \A t \in Taken(index) : \A b \in Extent(index[t]) :
          b + 1 - IndexSize \in 1..Len(data) => dt[b + 1 - IndexSize] = data[b + 1 - IndexSize]
    BY DEF Enters
  <1>d. /\ idx = [index EXCEPT ![GetEmptyIndex] = e]
        /\ ds = IF e.type = "directory" THEN dirs \cup {path} ELSE dirs
        /\ fs = IF e.type = "file"
                THEN [p \in DOMAIN files \cup {path} |-> IF p = path THEN content ELSE files[p]]
                ELSE files
    BY DEF Put, With, FilesWith
  <1> HIDE DEF idx, ds, fs
  <1> DEFINE new == GetEmptyIndex
  <1> USE <1>a
  <1>1. /\ Typed /\ index \in Index /\ DOMAIN index = 1..Slots
        /\ data \in Seq(Byte) /\ Taken(index) \in SUBSET (1..Slots)
        /\ \A s \in 1..Slots : index[s].offset \in Nat /\ index[s].size \in Nat
    BY InvNow
  <1>2. /\ new \in 1..Slots /\ index[new].type = "empty"
        /\ \A t \in Taken(index) : t < new
        /\ \A t \in 1..Slots : t < new => index[t].type # "empty"
        /\ \A t \in 1..Slots : t > new => index[t].type = "empty" /\ index[t].parent_offset = Root
    BY EmptyIs
  <1>3. Placed(index) /\ Apart(index)
    BY DEF IInv, Whole
  <1>4. PICK slot : Named(index, dirs, DOMAIN files, slot) /\ Holds(index, data, files, slot)
    BY DEF IInv, Whole
  <1>5. path \in Seq(Names) /\ Len(path) # 0
    BY PathIs
  <1>6. path \notin dirs \cup DOMAIN files
        /\ ParentOffset(Directory(path)) = DirSlot(slot, dirs, Directory(path))
    <2>1. /\ GetIndex(path) = IF path \in dirs \cup DOMAIN files THEN slot[path] ELSE None
          /\ path \in dirs \cup DOMAIN files => slot[path] \in 1..Slots
          /\ ParentOffset(Directory(path)) = DirSlot(slot, dirs, Directory(path))
      BY <1>1, <1>4, <1>5, GetIndexIs
    <2> QED BY <2>1, SlotNumbers, <1>a
  <1> HIDE DEF new
  <1>7. /\ idx \in Index /\ idx[new] = e /\ DOMAIN idx = 1..Slots
        /\ \A t \in 1..Slots : t # new => idx[t] = index[t]
    BY <1>d, <1>1, <1>2 DEF Index, new
  <1>8. /\ Taken(idx) = Taken(index) \cup {new} /\ new \notin Taken(index)
        /\ \A t \in Taken(index) : idx[t] = index[t]
    BY <1>1, <1>2, <1>7 DEF Taken
  <1>9. \A s \in 1..Slots : idx[s].type = "file" => idx[s].offset >= IndexSize
    BY <1>1, <1>7 DEF Typed
  <1>10. Tidy(idx)
    <2> SUFFICES ASSUME NEW s \in 1..Slots, NEW t \in 1..Slots, s <= t, idx[s].type = "empty"
                 PROVE  idx[t].type = "empty" /\ idx[t].parent_offset = Root
      BY DEF Tidy
    <2>0. s \in Nat /\ t \in Nat /\ new \in Nat
      BY <1>2, SlotNumbers
    <2>1. s # new /\ idx[s] = index[s]
      BY <1>7
    <2>2. s > new
      <3>1. ~(s < new)
        BY <1>2, <2>1
      <3> QED BY <2>0, <2>1, <3>1
    <2>3. t > new /\ t # new
      BY <2>0, <2>2
    <2> QED BY <1>2, <1>7, <2>3
  <1>11. Placed(idx)
    BY <1>3, <1>7, <1>8 DEF Placed
  <1>12. Apart(idx)
    <2> SUFFICES ASSUME NEW s \in Taken(idx), NEW t \in Taken(idx), s # t
                 PROVE  Extent(idx[s]) \cap Extent(idx[t]) = {}
      BY DEF Apart
    <2>1. CASE s = new
      <3>1. t \in Taken(index)
        BY <1>8, <2>1
      <3> QED BY <1>b, <1>7, <1>8, <2>1, <3>1
    <2>2. CASE t = new
      <3>1. s \in Taken(index)
        BY <1>8, <2>2
      <3>2. Extent(e) \cap Extent(index[s]) = {}
        BY <1>b, <3>1
      <3> QED BY <1>7, <1>8, <2>2, <3>1, <3>2
    <2>3. CASE s # new /\ t # new
      <3>1. s \in Taken(index) /\ t \in Taken(index)
        BY <1>8, <2>3
      <3> QED BY <1>3, <1>8, <3>1 DEF Apart
    <2> QED BY <2>1, <2>2, <2>3
  <1>13. /\ ds \in SUBSET Paths /\ DOMAIN fs \in SUBSET Paths
         /\ DOMAIN fs = IF e.type = "file" THEN DOMAIN files \cup {path} ELSE DOMAIN files
         /\ \A p \in DOMAIN files : p # path /\ fs[p] = files[p]
         /\ e.type = "file" => fs[path] = content
    BY <1>d, <1>1, <1>6 DEF Typed
  <1>14. fs \in [DOMAIN fs -> Contents]
    <2>1. CASE e.type = "file"
      <3>1. \A p \in DOMAIN files \cup {path} : (IF p = path THEN content ELSE files[p]) \in Contents
        BY <1>1 DEF Typed
      <3> QED BY <1>d, <2>1, <3>1, <1>13
    <2>2. CASE e.type # "file"
      BY <1>d, <2>2, <1>1 DEF Typed
    <2> QED BY <2>1, <2>2
  <1> DEFINE slot2 == [p \in ds \cup DOMAIN fs |-> IF p = path THEN new ELSE slot[p]]
  <1>15. Named(idx, ds, DOMAIN fs, slot2)
    <2>1. idx = Put(index, new, e)
      BY <1>d DEF new, Put
    <2>2. Fits(index, dirs, DOMAIN files, slot, new, path, e)
      BY <1>2, <1>5, <1>6 DEF Fits
    <2>3. Extends(slot2, dirs, DOMAIN files, slot, new, path)
      <3>1. path \in ds \cup DOMAIN fs /\ dirs \cup DOMAIN files \in SUBSET (ds \cup DOMAIN fs)
        BY <1>d, <1>13
      <3> QED BY <1>6, <3>1 DEF Extends
    <2>4. ds = With(dirs, path, e, "directory")
      BY <1>d DEF With
    <2>5. DOMAIN fs = With(DOMAIN files, path, e, "file")
      BY <1>13 DEF With
    <2> HIDE DEF slot2
    <2>6. Named(Put(index, new, e), With(dirs, path, e, "directory"),
                With(DOMAIN files, path, e, "file"), slot2)
      <3>1. index \in Index /\ Named(index, dirs, DOMAIN files, slot)
        BY <1>1, <1>4
      <3> QED BY ONLY <3>1, <2>2, <2>3, NewNamed
    <2> QED BY ONLY <2>1, <2>4, <2>5, <2>6
  <1>16. Holds(idx, dt, fs, slot2)
    <2> SUFFICES ASSUME NEW p \in DOMAIN fs PROVE Stored(idx[slot2[p]], dt, fs[p])
      BY DEF Holds
    <2>0. slot2[p] = IF p = path THEN new ELSE slot[p]
      OBVIOUS
    <2> HIDE DEF slot2
    <2>1. CASE p \in DOMAIN files
      <3>1. p # path /\ fs[p] = files[p] /\ slot2[p] = slot[p]
        BY <1>13, <2>0, <2>1
      <3>2. NameOf(index, dirs, DOMAIN files, slot, p) /\ p \notin dirs
        BY <1>4, <2>1 DEF Named
      <3>3. slot[p] \in Taken(index) /\ index[slot[p]].type = "file"
        BY <3>2 DEF NameOf
      <3> DEFINE d == index[slot[p]]
      <3>4. idx[slot[p]] = d /\ d.offset \in Nat /\ d.size \in Nat /\ d.offset >= IndexSize
        BY <1>1, <1>8, <3>3 DEF Typed
      <3>5. Stored(d, data, files[p]) /\ files[p] \in Contents
        BY <1>1, <1>4, <2>1 DEF Holds, Typed
      <3>6. \A b \in Extent(d) : b + 1 - IndexSize \in 1..Len(data) =>
              dt[b + 1 - IndexSize] = data[b + 1 - IndexSize]
        BY <1>c, <3>3
      <3> HIDE DEF d
      <3>7. Stored(d, dt, files[p])
        BY <1>1, <3>4, <3>5, <3>6, StoredElsewhere
      <3> QED BY <3>1, <3>4, <3>7
    <2>2. CASE p \notin DOMAIN files
      <3>1. p = path /\ e.type = "file"
        BY <1>13, <2>2
      <3> QED BY <1>7, <1>13, <2>0, <3>1
    <2> QED BY <2>1, <2>2
  <1>17. \E slot3 : Named(idx, ds, DOMAIN fs, slot3) /\ Holds(idx, dt, fs, slot3)
    <2> HIDE DEF slot2
    <2> QED BY <1>15, <1>16
  <1>18. Sound(idx, ds, fs, dt)
    BY <1>7, <1>9, <1>10, <1>11, <1>12, <1>13, <1>14, <1>17 DEF Sound
  <1>19. Entered(idx, e)
    BY <1>2, <1>7, <1>8 DEF Entered, new
  <1> QED BY <1>18, <1>19 DEF idx, ds, fs

\* The place for a new file is behind the index and away from every entry.
LEMMA FoundOffset ==
  ASSUME IInv, NEW size \in Nat, FindOffset(size) # None
  PROVE  /\ FindOffset(size) \in Nat /\ FindOffset(size) >= IndexSize
         /\ ~CheckOverlap(FindOffset(size), size)
         /\ \/ FindOffset(size) = IndexSize
            \/ \E t \in Taken(index) : FindOffset(size) = EndOf(index[t]) + 1
  <1> DEFINE B == BehindEntries(size)
             s == FirstOf(B)
  <1>1. /\ DOMAIN index = 1..Slots /\ IndexSize \in Nat
        /\ \A t \in 1..Slots : index[t].offset \in Nat /\ index[t].size \in Nat
    BY InvNow, SizesAre
  <1>2. CASE ~CheckOverlap(IndexSize, size)
    <2>1. FindOffset(size) = IndexSize
      BY <1>2 DEF FindOffset
    <2> QED BY <1>1, <1>2, <2>1
  <1>3. CASE CheckOverlap(IndexSize, size)
    <2>1. FindOffset(size) = IF s = None THEN None ELSE index[s].offset + index[s].size + 1
      BY <1>3 DEF FindOffset
    <2>2. B \in SUBSET Nat /\ B \in SUBSET Taken(index) /\ B \in SUBSET (1..Slots)
      BY <1>1, SlotNumbers DEF BehindEntries, Taken
    <2>3. s \in B
      <3>1. B # {}
        BY <2>1 DEF FirstOf
      <3> HIDE DEF B
      <3> QED BY <2>2, <3>1, FirstOfIs
    <2>4. /\ index[s].offset + index[s].size + 1 >= IndexSize
          /\ ~CheckOverlap(index[s].offset + index[s].size + 1, size)
      BY <2>3 DEF BehindEntries
    <2>5. s # None /\ s \in Taken(index) /\ s \in 1..Slots
      BY <2>2, <2>3, SlotNumbers
    <2> HIDE DEF s, B
    <2>6. FindOffset(size) = EndOf(index[s]) + 1
      BY <2>1, <2>5 DEF EndOf
    <2> QED BY <1>1, <2>1, <2>4, <2>5, <2>6
  <1> QED BY <1>2, <1>3

\* So a byte of the new file is nobody's.
LEMMA FoundIsFree ==
  ASSUME IInv, NEW size \in Nat, NEW place \in Nat, ~CheckOverlap(place, size),
         NEW t \in Taken(index), NEW b \in Extent(index[t])
  PROVE  b \in Nat /\ (b < place \/ b >= place + size)
  <1>1. /\ DOMAIN index = 1..Slots /\ t \in 1..Slots
        /\ \A s \in 1..Slots : index[s].offset \in Nat /\ index[s].size \in Nat
    BY InvNow
  <1>2. ~(index[t].offset + index[t].size >= place /\ index[t].offset <= place + size)
    BY <1>1 DEF CheckOverlap, Taken
  <1>3. index[t].offset \in Nat /\ index[t].size \in Nat
    BY <1>1
  <1>4. b \in Int /\ b >= index[t].offset /\ b <= index[t].offset + index[t].size - 1
    BY <1>3 DEF Extent
  <1> QED BY ONLY <1>2, <1>3, <1>4, place \in Nat, size \in Nat

\* What a step of a tool leaves is the invariant again.
LEMMA ToolsAgain ==
  ASSUME booted' = FALSE, torn' = FALSE, Sound(index', dirs', files', data'),
         Early(index', RootMax')
  PROVE  IInv'
  <1>1. Typed'
    BY DEF Typed, Sound
  <1>2. Whole'
    BY DEF Whole, Sound
  <1> QED BY <1>1, <1>2 DEF IInv

LEMMA EarlyAgain ==
  ASSUME IInv, ~booted, NEW new \in 1..Slots, NEW idx, NEW max \in Nat, RootMax <= max,
         Taken(idx) = Taken(index) \cup {new},
         \A t \in Taken(index) : idx[t] = index[t],
         EndOf(idx[new]) <= max + new
  PROVE  Early(idx, max)
  <1>1. /\ RootMax \in Nat /\ Taken(index) \in SUBSET (1..Slots)
        /\ \A s \in 1..Slots : index[s].offset \in Nat /\ index[s].size \in Nat
    BY InvNow
  <1>2. Early(index, RootMax)
    BY DEF IInv, Whole
  <1> SUFFICES ASSUME NEW s \in Taken(idx) PROVE EndOf(idx[s]) <= max + s
    BY DEF Early
  <1>3. CASE s = new
    BY <1>3
  <1>4. CASE s # new
    <2>1. s \in Taken(index) /\ idx[s] = index[s]
      BY <1>4
    <2>2. s \in Nat /\ index[s].offset \in Nat /\ index[s].size \in Nat
      BY <1>1, <2>1, SlotNumbers
    <2>3. EndOf(index[s]) <= RootMax + s /\ EndOf(index[s]) \in Nat
      BY <1>2, <2>1, <2>2 DEF Early, EndOf
    <2> DEFINE m == RootMax
               n == EndOf(index[s])
    <2>4. m \in Nat /\ n \in Nat /\ n <= m + s /\ m <= max /\ s \in Nat
      BY <1>1, <2>2, <2>3
    <2> HIDE DEF m, n
    <2>5. n <= max + s
      BY ONLY <2>4, max \in Nat
    <2> QED BY <2>1, <2>5 DEF n
  <1> QED BY <1>3, <1>4

LEMMA NewEntryIs ==
  ASSUME index \in Index, NEW path \in Paths, NEW type \in {"file", "directory"},
         NEW parent \in {Root} \cup (1..Slots), NEW size \in Nat, NEW offset \in Nat
  PROVE  LET e == [type |-> type, parent_offset |-> parent, size |-> size,
                   offset |-> offset, name |-> path[Len(path)]]
         IN  /\ e \in Entries /\ e.type = type /\ e.name = path[Len(path)]
             /\ e.parent_offset = parent /\ e.offset = offset /\ e.size = size
  <1>1. path[Len(path)] \in Names
    BY PathIs, DirectoryIs
  <1> QED BY <1>1 DEF Entries

\* The directory of a path that can be added has a slot, or is the root.
LEMMA ParentSlot ==
  ASSUME IInv, ~torn, NEW path \in Paths, ParentOffset(Directory(path)) # None
  PROVE  ParentOffset(Directory(path)) \in {Root} \cup (1..Slots)
  <1>1. index \in Index
    BY InvNow
  <1>2. PICK slot : Named(index, dirs, DOMAIN files, slot)
    BY DEF IInv, Whole
  <1>3. path \in Seq(Names) /\ Len(path) # 0
    BY PathIs
  <1>4. ParentOffset(Directory(path)) = DirSlot(slot, dirs, Directory(path))
    BY <1>1, <1>2, <1>3, GetIndexIs
  <1> QED BY <1>1, <1>2, <1>4, DirSlotIs

LEMMA ToolsNow ==
  ASSUME IInv, ~booted
  PROVE  ~torn /\ torn = FALSE /\ booted = FALSE
  BY DEF IInv, Typed

LEMMA KeptByMkdir ==
  ASSUME IInv, ~booted, UNCHANGED <<booted, torn>>, NEW path \in Paths, Mkdir(path)
  PROVE  IInv'
  <1> DEFINE new == GetEmptyIndex
             parent == ParentOffset(Directory(path))
             e == [type |-> "directory", parent_offset |-> parent, size |-> 0,
                   offset |-> 0, name |-> path[Len(path)]]
  <1>1. /\ Typed /\ index \in Index /\ data \in Seq(Byte) /\ Len(data) \in Nat
        /\ RootMax \in Nat
    BY InvNow
  <1>2. ~torn /\ torn' = FALSE /\ booted' = FALSE
    BY ToolsNow
  <1>3. GetIndex(path) = None /\ new # None /\ parent # None
        /\ index' = [index EXCEPT ![new] = e] /\ dirs' = dirs \cup {path}
        /\ data' = data /\ files' = files
    BY DEF Mkdir, CanAdd, NewEntry
  <1>4. /\ e \in Entries /\ e.type = "directory" /\ e.name = path[Len(path)]
        /\ e.parent_offset = parent /\ e.offset = 0 /\ e.size = 0
    BY <1>1, <1>2, <1>3, ParentSlot, NewEntryIs
  <1> HIDE DEF e, parent
  <1>5. Extent(e) = {}
    BY <1>4 DEF Extent
  <1>6. <<>> \in Contents
    BY DEF Contents
  <1>7. Len(data) <= Len(data)
    BY <1>1
  <1>8. Enters(path, e, data, <<>>)
    BY <1>1, <1>3, <1>4, <1>5, <1>6, <1>7 DEF Enters, parent
  <1>9. index' = Put(index, GetEmptyIndex, e) /\ dirs' = With(dirs, path, e, "directory")
        /\ files' = FilesWith(path, e, <<>>)
    BY <1>3, <1>4 DEF Put, With, FilesWith
  <1>10. Sound(index', dirs', files', data') /\ Entered(index', e)
    <2>1. Sound(Put(index, GetEmptyIndex, e), With(dirs, path, e, "directory"),
                FilesWith(path, e, <<>>), data)
          /\ Entered(Put(index, GetEmptyIndex, e), e)
      BY ONLY IInv, <1>2, <1>8, path \in Paths, EntryAdded
    <2> QED BY ONLY <1>3, <1>9, <2>1
  <1>11. new \in 1..Slots /\ new \in Nat
    BY <1>2, <1>3, EmptyIs, SlotNumbers
  <1>12. /\ Taken(index') = Taken(index) \cup {new} /\ index'[new] = e
         /\ \A t \in Taken(index) : index'[t] = index[t]
    BY <1>10 DEF Entered
  <1>13. Early(index', RootMax')
    <2>1. EndOf(index'[new]) <= RootMax + new
      BY <1>1, <1>4, <1>11, <1>12 DEF EndOf
    <2>2. RootMax' = RootMax /\ RootMax <= RootMax
      BY <1>1, <1>3 DEF RootMax
    <2> HIDE DEF new
    <2> QED BY <1>1, <1>11, <1>12, <2>1, <2>2, EarlyAgain
  <1> QED BY <1>2, <1>10, <1>13, ToolsAgain

LEMMA KeptByAdd ==
  ASSUME IInv, ~booted, UNCHANGED <<booted, torn>>, NEW path \in Paths, NEW size \in Sizes,
         Add(path, size)
  PROVE  IInv'
  <1> DEFINE new == GetEmptyIndex
             parent == ParentOffset(Directory(path))
             place == FindOffset(size)
             content == Content(path, size)
             e == [type |-> "file", parent_offset |-> parent, size |-> size,
                   offset |-> place, name |-> path[Len(path)]]
  <1>1. /\ Typed /\ index \in Index /\ data \in Seq(Byte) /\ Len(data) \in Nat
        /\ RootMax \in Nat /\ RootMax = IndexSize + Len(data) /\ IndexSize \in Nat
        /\ Taken(index) \in SUBSET (1..Slots)
        /\ \A s \in 1..Slots : index[s].offset \in Nat /\ index[s].size \in Nat
    BY InvNow, SizesAre
  <1>2. ~torn /\ torn' = FALSE /\ booted' = FALSE /\ size \in Nat
    BY ToolsNow, ImageAssumption
  <1>3. /\ GetIndex(path) = None /\ new # None /\ parent # None /\ place # None
        /\ index' = [index EXCEPT ![new] = e] /\ dirs' = dirs
        /\ data' = Written(place, content)
        /\ files' = [p \in DOMAIN files \cup {path} |->
                      IF p = path THEN content ELSE files[p]]
    BY DEF Add, CanAdd, NewEntry
  <1>4. /\ place \in Nat /\ place >= IndexSize /\ ~CheckOverlap(place, size)
        /\ \/ place = IndexSize
           \/ \E t \in Taken(index) : place = EndOf(index[t]) + 1
    BY <1>2, <1>3, FoundOffset
  <1>5. /\ content \in Seq(Bytes) /\ Len(content) = size /\ content \in Contents
    BY <1>2, ContentIs
  <1>6. /\ data' \in Seq(Byte) /\ Len(data) <= Len(data')
        /\ size # 0 => place + size <= IndexSize + Len(data')
        /\ \A k \in 1..size : data'[place - IndexSize + k] = content[k]
        /\ \A b \in Nat :
              /\ b + 1 - IndexSize \in 1..Len(data)
              /\ b < place \/ b >= place + size
              => data'[b + 1 - IndexSize] = data[b + 1 - IndexSize]
    <2> HIDE DEF place, content
    <2>1. LET w == Written(place, content) IN
          /\ w \in Seq(Byte) /\ Len(data) <= Len(w)
          /\ Len(content) # 0 => place + Len(content) <= IndexSize + Len(w)
          /\ \A k \in 1..Len(content) : w[place - IndexSize + k] = content[k]
          /\ \A b \in Nat :
               /\ b + 1 - IndexSize \in 1..Len(data)
               /\ b < place \/ b >= place + Len(content)
               => w[b + 1 - IndexSize] = data[b + 1 - IndexSize]
      BY <1>1, <1>4, <1>5, WrittenIs
    <2> QED BY <1>3, <1>5, <2>1
  <1>7. Len(data') \in Nat /\ RootMax' = IndexSize + Len(data') /\ RootMax' \in Nat
        /\ RootMax <= RootMax'
    <2>1. Len(data') \in Nat
      BY <1>6
    <2>2. RootMax' = IndexSize + Len(data')
      BY DEF RootMax
    <2> QED BY <1>1, <1>6, <2>1, <2>2
  <1>8. /\ e \in Entries /\ e.type = "file" /\ e.name = path[Len(path)]
        /\ e.parent_offset = parent /\ e.offset = place /\ e.size = size
    BY <1>1, <1>2, <1>3, <1>4, ParentSlot, NewEntryIs
  <1> HIDE DEF e, parent, place, content
  <1>9. Stored(e, data', content)
    <2>1. ASSUME NEW k \in 1..size PROVE place + k <= IndexSize + Len(data')
      BY <1>1, <1>2, <1>4, <1>6, <1>7
    <2> QED BY <1>5, <1>6, <1>8, <2>1 DEF Stored
  <1>10. ASSUME NEW t \in Taken(index), NEW b \in Extent(index[t])
         PROVE  b \in Nat /\ (b < place \/ b >= place + size)
    BY <1>2, <1>4, FoundIsFree
  <1>11. \A t \in Taken(index) : Extent(e) \cap Extent(index[t]) = {}
    <2> SUFFICES ASSUME NEW t \in Taken(index), NEW b \in Extent(index[t]) PROVE b \notin Extent(e)
      OBVIOUS
    <2>1. b \in Nat /\ (b < place \/ b >= place + size)
      BY <1>10
    <2>2. Extent(e) = place..(place + size - 1)
      BY <1>8 DEF Extent
    <2> QED BY <1>2, <1>4, <2>1, <2>2
  <1>12. \A t \in Taken(index) : \A b \in Extent(index[t]) :
           b + 1 - IndexSize \in 1..Len(data)
             => data'[b + 1 - IndexSize] = data[b + 1 - IndexSize]
    BY <1>6, <1>10
  <1>13. Sound(index', dirs', files', data') /\ Entered(index', e)
    <2>1. Enters(path, e, data', content)
      BY <1>3, <1>4, <1>5, <1>6, <1>8, <1>9, <1>11, <1>12 DEF Enters, parent
    <2>2. index' = Put(index, GetEmptyIndex, e) /\ dirs' = With(dirs, path, e, "directory")
          /\ files' = FilesWith(path, e, content)
      BY <1>3, <1>8 DEF Put, With, FilesWith
    <2>3. Sound(Put(index, GetEmptyIndex, e), With(dirs, path, e, "directory"),
                FilesWith(path, e, content), data')
          /\ Entered(Put(index, GetEmptyIndex, e), e)
      BY ONLY IInv, <1>2, <2>1, path \in Paths, EntryAdded
    <2> QED BY ONLY <2>2, <2>3
  <1>13a. /\ Taken(index') = Taken(index) \cup {new} /\ index'[new] = e
          /\ \A t \in Taken(index) : index'[t] = index[t] /\ t < new
    BY <1>13 DEF Entered
  <1>14. new \in 1..Slots /\ new \in Nat
    BY <1>2, <1>3, EmptyIs, SlotNumbers
  <1>15. EndOf(index'[new]) <= RootMax' + new
    <2>1. EndOf(index'[new]) = place + size
      BY <1>8, <1>13a DEF EndOf
    <2> HIDE DEF new
    <2>2. CASE size # 0
      BY <1>2, <1>4, <1>6, <1>7, <1>14, <2>1, <2>2
    <2>3. CASE size = 0 /\ place = IndexSize
      BY <1>1, <1>4, <1>7, <1>14, <2>1, <2>3
    <2>4. CASE size = 0 /\ place # IndexSize
      <3>1. PICK t \in Taken(index) : place = EndOf(index[t]) + 1
        BY <1>4, <2>4
      <3>2. EndOf(index[t]) <= RootMax + t
        BY <1>2, <3>1, ToolsNow DEF IInv, Whole, Early
      <3>3. t < new /\ t \in Nat
        BY <1>1, <1>13a, SlotNumbers
      <3>4. EndOf(index[t]) \in Nat
        BY <1>1 DEF EndOf
      <3> DEFINE n == EndOf(index[t])
      <3> HIDE DEF n
      <3>5. n \in Nat /\ n <= RootMax + t /\ place = n + 1
        BY <3>1, <3>2, <3>4 DEF n
      <3>6. place + size = place
        BY <1>4, <2>4
      <3>7. place <= RootMax' + new
        BY ONLY <1>1, <1>7, <1>14, <3>3, <3>5
      <3> QED BY <2>1, <3>6, <3>7
    <2> QED BY <2>2, <2>3, <2>4
  <1>16. Early(index', RootMax')
    <2> HIDE DEF new
    <2> QED BY <1>7, <1>13a, <1>14, <1>15, EarlyAgain
  <1> QED BY <1>2, <1>13, <1>16, ToolsAgain

LEMMA KeptByAddFails ==
  ASSUME IInv, ~booted, UNCHANGED <<booted, torn>>, NEW path \in Paths, NEW size \in Sizes,
         AddFails(path, size)
  PROVE  IInv'
  <1> DEFINE place == FindOffset(size)
  <1>1. /\ Typed /\ index \in Index /\ data \in Seq(Byte) /\ Len(data) \in Nat
        /\ RootMax \in Nat /\ RootMax = IndexSize + Len(data) /\ IndexSize \in Nat
        /\ Taken(index) \in SUBSET (1..Slots)
        /\ \A s \in 1..Slots : index[s].offset \in Nat /\ index[s].size \in Nat
    BY InvNow, SizesAre
  <1>2. ~torn /\ torn' = FALSE /\ booted' = FALSE /\ size \in Nat
    BY ToolsNow, ImageAssumption
  <1>3. place # None /\ index' = index /\ dirs' = dirs /\ files' = files
    BY DEF AddFails
  <1>4. place \in Nat /\ place >= IndexSize /\ ~CheckOverlap(place, size)
    BY <1>2, <1>3, FoundOffset
  <1>5. PICK n \in 1..size : data' = Written(place, SubSeq(Content(path, size), 1, n))
    BY DEF AddFails
  <1> DEFINE content == SubSeq(Content(path, size), 1, n)
  <1>6. content \in Seq(Bytes) /\ Len(content) = n /\ n \in Nat /\ n <= size
    <2>1. n \in 0..size
      BY <1>2
    <2> QED BY <1>2, <2>1, ContentIs
  <1> HIDE DEF place, content
  <1>7. /\ data' \in Seq(Byte) /\ Len(data) <= Len(data')
        /\ \A b \in Nat :
              /\ b + 1 - IndexSize \in 1..Len(data)
              /\ b < place \/ b >= place + n
              => data'[b + 1 - IndexSize] = data[b + 1 - IndexSize]
    <2>1. LET w == Written(place, content) IN
          /\ w \in Seq(Byte) /\ Len(data) <= Len(w)
          /\ Len(content) # 0 => place + Len(content) <= IndexSize + Len(w)
          /\ \A k \in 1..Len(content) : w[place - IndexSize + k] = content[k]
          /\ \A b \in Nat :
               /\ b + 1 - IndexSize \in 1..Len(data)
               /\ b < place \/ b >= place + Len(content)
               => w[b + 1 - IndexSize] = data[b + 1 - IndexSize]
      BY <1>1, <1>4, <1>6, WrittenIs
    <2>2. data' = Written(place, content)
      BY <1>5 DEF content
    <2> QED BY <1>6, <2>1, <2>2
  <1>8. ASSUME NEW t \in Taken(index), NEW b \in Extent(index[t])
        PROVE  b \in Nat /\ (b < place \/ b >= place + n)
    <2>1. b \in Nat /\ (b < place \/ b >= place + size)
      BY <1>2, <1>4, FoundIsFree
    <2> QED BY <1>2, <1>4, <1>6, <2>1
  <1>9. PICK slot : Named(index, dirs, DOMAIN files, slot) /\ Holds(index, data, files, slot)
    BY <1>2 DEF IInv, Whole
  <1>10. Holds(index, data', files, slot)
    <2> SUFFICES ASSUME NEW p \in DOMAIN files PROVE Stored(index[slot[p]], data', files[p])
      BY DEF Holds
    <2>1. NameOf(index, dirs, DOMAIN files, slot, p) /\ p \notin dirs
      BY <1>9 DEF Named
    <2>2. slot[p] \in Taken(index) /\ index[slot[p]].type = "file"
      BY <2>1 DEF NameOf
    <2> DEFINE d == index[slot[p]]
    <2>3. d.offset \in Nat /\ d.size \in Nat /\ d.offset >= IndexSize
      BY <1>1, <2>2 DEF Typed
    <2>4. Stored(d, data, files[p]) /\ files[p] \in Contents
      BY <1>1, <1>9 DEF Holds, Typed
    <2>5. \A b \in Extent(d) : b + 1 - IndexSize \in 1..Len(data) =>
            data'[b + 1 - IndexSize] = data[b + 1 - IndexSize]
      BY <1>7, <1>8, <2>2
    <2> HIDE DEF d
    <2>6. Stored(d, data', files[p])
      BY <1>1, <1>7, <2>3, <2>4, <2>5, StoredElsewhere
    <2> QED BY <2>6 DEF d
  <1>11. Early(index', RootMax')
    <2>1. Early(index, RootMax)
      BY <1>2, ToolsNow DEF IInv, Whole
    <2>2. RootMax' \in Nat /\ RootMax <= RootMax'
      BY <1>1, <1>7 DEF RootMax
    <2> SUFFICES ASSUME NEW s \in Taken(index) PROVE EndOf(index[s]) <= RootMax' + s
      BY <1>3 DEF Early
    <2>3. s \in Nat /\ index[s].offset \in Nat /\ index[s].size \in Nat
      BY <1>1, SlotNumbers
    <2>4. EndOf(index[s]) \in Nat
      BY <2>3 DEF EndOf
    <2> DEFINE m == EndOf(index[s])
               max == RootMax
               max2 == RootMax'
    <2>5. m \in Nat /\ m <= max + s /\ s \in Nat /\ max \in Nat /\ max2 \in Nat /\ max <= max2
      BY <1>1, <2>1, <2>2, <2>3, <2>4 DEF Early
    <2> HIDE DEF m, max, max2
    <2>6. m <= max2 + s
      BY ONLY <2>5
    <2> QED BY <2>6 DEF m, max2
  <1>12. Tidy(index) /\ Placed(index) /\ Apart(index)
    BY <1>2 DEF IInv, Whole
  <1>13. /\ Tidy(index') /\ Placed(index') /\ Apart(index')
         /\ \E slot2 : Named(index', dirs', DOMAIN files', slot2)
                       /\ Holds(index', data', files', slot2)
    BY <1>3, <1>9, <1>10, <1>12
  <1>14. /\ index' \in Index /\ dirs' \in SUBSET Paths /\ DOMAIN files' \in SUBSET Paths
         /\ files' \in [DOMAIN files' -> Contents]
         /\ \A s \in 1..Slots : index'[s].type = "file" => index'[s].offset >= IndexSize
    BY <1>1, <1>3 DEF Typed
  <1>15. Sound(index', dirs', files', data')
    BY <1>7, <1>13, <1>14 DEF Sound
  <1> QED BY <1>2, <1>11, <1>15, ToolsAgain

LEMMA KeptByBoot ==
  ASSUME IInv, Boot
  PROVE  IInv'
  <1>1. /\ RootMax \in Nat /\ Taken(index) \in SUBSET (1..Slots)
        /\ \A s \in 1..Slots : index[s].offset \in Nat /\ index[s].size \in Nat
    BY InvNow
  <1>2. ~torn /\ ~booted /\ booted' = TRUE /\ torn' = FALSE /\ 3 * RootMax + Slots <= Width
        /\ index' = index /\ data' = data /\ files' = files /\ dirs' = dirs
    BY ToolsNow DEF Boot, vars
  <1>3. Late(index, RootMax)
    <2>1. Early(index, RootMax)
      BY <1>2 DEF IInv, Whole
    <2> SUFFICES ASSUME NEW s \in Taken(index) PROVE EndOf(index[s]) <= 2 * RootMax + Slots
      BY <1>2 DEF Late
    <2>2. s \in Nat /\ s <= Slots /\ EndOf(index[s]) \in Nat /\ EndOf(index[s]) <= RootMax + s
      BY <1>1, <2>1, SlotNumbers DEF EndOf, Early
    <2> DEFINE m == EndOf(index[s])
    <2> HIDE DEF m
    <2>3. m \in Nat /\ m <= RootMax + s
      BY <2>2 DEF m
    <2>4. m <= 2 * RootMax + Slots
      BY ONLY <1>1, <2>2, <2>3, SizesAre
    <2> QED BY <2>4 DEF m
  <1>4. Typed'
    BY <1>2 DEF IInv, Typed
  <1>5. RootMax' = RootMax
    BY <1>2 DEF RootMax
  <1>6. Whole'
    BY <1>2, <1>3, <1>5 DEF IInv, Whole
  <1> QED BY <1>2, <1>4, <1>6 DEF IInv


-----------------------------------------------------------------------------
(* The kernel's space for data.                                            *)

LEMMA WrapsNot == ASSUME NEW n \in Nat, n < Width PROVE Wrapped(n) = n
  BY SizesAre DEF Wrapped

LEMMA WrapsBelow == ASSUME NEW m \in Nat, m # 0, m <= Width PROVE Wrapped(0 - m) = Width - m
  BY SizesAre DEF Wrapped

\* What is known of the entries while the kernel writes.
Writable(idx, max) ==
  /\ max \in Nat /\ max >= IndexSize /\ 3 * max + Slots <= Width
  /\ \A s \in Taken(idx) : /\ idx[s].offset \in Nat /\ idx[s].size \in Nat
                           /\ idx[s].offset + idx[s].size <= 2 * max + Slots
                           /\ \/ idx[s].offset >= IndexSize
                              \/ /\ idx[s].offset = 0
                                 /\ idx[s].size = 0 \/ idx[s].size > IndexSize

LEMMA KernelNow == ASSUME IInv, booted, ~torn PROVE Writable(index, RootMax)
  <1>1. /\ RootMax \in Nat /\ RootMax >= IndexSize /\ Taken(index) \in SUBSET (1..Slots)
        /\ \A s \in 1..Slots : index[s].offset \in Nat /\ index[s].size \in Nat
    BY InvNow
  <1>2. Late(index, RootMax) /\ Placed(index)
    BY DEF IInv, Whole
  <1> QED BY <1>1, <1>2 DEF Writable, Late, EndOf, Placed

\* There is always room in front of a directory whose place was never chosen: offsets wrap.
LEMMA RoomByWrapping ==
  ASSUME IInv, booted, ~torn, NEW s \in Taken(index), index[s].offset = 0,
         NEW size \in Nat, size # 0, size < RootMax
  PROVE  RoomBefore(s, size)
  <1> DEFINE max == RootMax
  <1>1. Writable(index, max) /\ NonEmpty = Taken(index)
    BY KernelNow, InvNow
  <1>2. max \in Nat /\ max >= IndexSize /\ 3 * max + Slots <= Width
        /\ IndexSize \in Nat /\ IndexSize # 0 /\ Slots \in Nat /\ Width \in Nat /\ size < max
    BY <1>1, SizesAre DEF Writable
  <1> HIDE DEF max
  <1>3. IndexSize <= Width /\ size <= Width /\ Width - IndexSize > size
        /\ 2 * max + Slots < Width - size
    BY <1>2
  <1>4. Wrapped(index[s].offset - IndexSize) = Width - IndexSize
    BY <1>2, <1>3, WrapsBelow
  <1>5. Wrapped(index[s].offset - size) = Width - size
    BY <1>3, WrapsBelow
  <1>6. ASSUME NEW t \in Taken(index)
        PROVE  ~(index[t].offset = Width - size
                 \/ (index[t].offset < Width - size /\ EntryEnd(t) + 0 > Width - size))
    <2>1. index[t].offset \in Nat /\ index[t].size \in Nat
          /\ index[t].offset + index[t].size <= 2 * max + Slots
      BY <1>1 DEF Writable
    <2> QED BY <1>2, <1>3, <2>1 DEF EntryEnd
  <1>7. Free(Width - size, NonEmpty, 0)
    BY <1>1, <1>6 DEF Free
  <1> QED BY <1>3, <1>4, <1>5, <1>7 DEF RoomBefore

\* A new place is behind the index.  It ends not far behind the image, or exactly where
\* offsets wrap.
Reaches(place, size, max) ==
  /\ place \in Nat
  /\ place + size <= 2 * max + Slots \/ (size # 0 /\ size <= Width /\ place = Width - size)

LEMMA FindSpaceIs ==
  ASSUME IInv, booted, ~torn, NEW size \in Nat, FindSpace(size) # None
  PROVE  FindSpace(size) >= IndexSize /\ Reaches(FindSpace(size), size, RootMax)
  <1> DEFINE max == RootMax
             place == FindSpace(size)
             S == {s \in NonEmpty : RoomBefore(s, size) \/ RoomAfter(s, size)}
             s == FirstOf(S)
  <1>1. Writable(index, max) /\ NonEmpty = Taken(index) /\ Taken(index) \in SUBSET (1..Slots)
    BY KernelNow, InvNow
  <1>2. max \in Nat /\ max >= IndexSize /\ 3 * max + Slots <= Width
        /\ IndexSize \in Nat /\ IndexSize # 0 /\ Slots \in Nat /\ Width \in Nat
    BY <1>1, SizesAre DEF Writable
  <1>3. CASE NonEmpty = {}
    <2>1. place = IndexSize /\ max - IndexSize > size
      BY <1>3 DEF FindSpace
    <2> HIDE DEF place, max
    <2> QED BY <1>2, <2>1 DEF Reaches, place, max
  <1>4. CASE NonEmpty # {}
    <2>1. s # None /\ place = IF RoomBefore(s, size) THEN Wrapped(index[s].offset - size)
                              ELSE EntryEnd(s) + size
      BY <1>4 DEF FindSpace
    <2>2. S \in SUBSET Nat
      BY <1>1, SlotNumbers
    <2>3. s \in S
      <3>1. S # {}
        BY <2>1 DEF FirstOf
      <3> HIDE DEF S
      <3> QED BY <2>2, <3>1, FirstOfIs
    <2>4. s \in Taken(index) /\ (RoomBefore(s, size) \/ RoomAfter(s, size))
      BY <1>1, <2>3
    <2> HIDE DEF s, S, place
    <2> DEFINE off == index[s].offset
               old == index[s].size
    <2>5. off \in Nat /\ old \in Nat /\ off + old <= 2 * max + Slots
          /\ (off >= IndexSize \/ (off = 0 /\ (old = 0 \/ old > IndexSize)))
      BY <1>1, <2>4 DEF Writable
    <2>6. \A at : Free(at, NonEmpty, 0) => off # at
      BY <1>1, <2>4 DEF Free
    <2>7. CASE RoomBefore(s, size)
      <3>1. place = Wrapped(off - size) /\ Wrapped(off - IndexSize) > size /\ place # off
        BY <2>1, <2>6, <2>7 DEF RoomBefore
      <3>2. CASE off >= IndexSize
        <4> HIDE DEF off, old, max
        <4>1. off - IndexSize \in Nat /\ off - IndexSize < Width
          BY <1>2, <2>5, <3>2
        <4>2. off - IndexSize > size
          BY <3>1, <4>1, WrapsNot
        <4>3. off - size \in Nat /\ off - size < Width /\ off - size >= IndexSize
          BY <1>2, <2>5, <4>2
        <4>4. place = off - size
          BY <3>1, <4>3, WrapsNot
        <4>5. place + size <= 2 * max + Slots
          BY <1>2, <2>5, <4>4
        <4> QED BY <4>3, <4>4, <4>5 DEF Reaches, max, place
      <3>3. CASE off = 0
        <4> HIDE DEF off, old, max
        <4>1. IndexSize <= Width /\ 0 < Width
          BY <1>2
        <4>2. Wrapped(0 - IndexSize) = Width - IndexSize
          BY <1>2, <4>1, WrapsBelow
        <4>3. Width - IndexSize > size
          BY <3>1, <3>3, <4>2
        <4>4. size # 0
          <5> SUFFICES ASSUME size = 0 PROVE FALSE
            OBVIOUS
          <5>1. off - size = 0
            BY <3>3
          <5>2. place = 0
            BY <3>1, <4>1, <5>1, WrapsNot
          <5> QED BY <3>1, <3>3, <5>2
        <4>5. size <= Width
          BY <1>2, <4>3
        <4>6. place = Width - size
          <5>1. off - size = 0 - size
            BY <3>3
          <5> QED BY <3>1, <4>4, <4>5, <5>1, WrapsBelow
        <4>7. place \in Nat /\ place >= IndexSize
          BY <1>2, <4>3, <4>5, <4>6
        <4> QED BY <4>4, <4>5, <4>6, <4>7 DEF Reaches, place
      <3> QED BY <2>5, <3>2, <3>3
    <2>8. CASE ~RoomBefore(s, size)
      <3>1. place = off + old + size /\ place < max /\ place # off
        BY <2>1, <2>4, <2>6, <2>8 DEF RoomAfter, EntryEnd
      <3>2. place >= IndexSize
        <4>1. CASE off >= IndexSize \/ old > IndexSize
          <5> HIDE DEF off, old, max
          <5> QED BY <1>2, <2>5, <3>1, <4>1
        <4>2. CASE off = 0 /\ old = 0
          <5>0. size # 0 /\ size < max
            <6> HIDE DEF off, old, max
            <6> QED BY <1>2, <3>1, <4>2
          <5>1. RoomBefore(s, size)
            BY <2>4, <4>2, <5>0, RoomByWrapping
          <5> QED BY <2>8, <5>1
        <4> QED BY <2>5, <4>1, <4>2
      <3>3. place \in Nat /\ place + size <= 2 * max + Slots
        <4> HIDE DEF off, old, max
        <4> QED BY <1>2, <2>5, <3>1
      <3> QED BY <3>2, <3>3 DEF Reaches, place
    <2> QED BY <2>7, <2>8
  <1> QED BY <1>3, <1>4

LEMMA ResizedIs ==
  ASSUME IInv, booted, ~torn, NEW s \in Taken(index), NEW size \in Nat,
         size > index[s].size, ResizedOffset(s, size) # None
  PROVE  /\ Reaches(ResizedOffset(s, size), size, RootMax)
         /\ \/ ResizedOffset(s, size) = index[s].offset
            \/ ResizedOffset(s, size) >= IndexSize
  <1> DEFINE max == RootMax
             off == index[s].offset
             old == index[s].size
             more == size - old
             place == ResizedOffset(s, size)
             others == {t \in NonEmpty : index[t].offset # index[s].offset}
  <1>1. Writable(index, max)
    BY KernelNow
  <1>2. max \in Nat /\ max >= IndexSize /\ 3 * max + Slots <= Width
        /\ IndexSize \in Nat /\ IndexSize # 0 /\ Slots \in Nat /\ Width \in Nat
    BY <1>1, SizesAre DEF Writable
  <1>3. off \in Nat /\ old \in Nat /\ off + old <= 2 * max + Slots /\ size > old
    BY <1>1 DEF Writable
  <1>4. \/ place = off /\ off + size < max
        \/ place = off - more /\ IndexSize + more < off
        \/ place = FindSpace(size)
    BY DEF ResizedOffset
  <1>5. CASE place = off /\ off + size < max
    <2> HIDE DEF max, off, old, place
    <2>1. place \in Nat /\ place + size <= 2 * max + Slots
      BY <1>2, <1>3, <1>5
    <2> QED BY <1>5, <2>1 DEF Reaches, max, off, place
  <1>6. CASE place = off - more /\ IndexSize + more < off
    <2> HIDE DEF max, off, old, place
    <2>1. place \in Nat /\ place + size <= 2 * max + Slots /\ place >= IndexSize
      BY <1>2, <1>3, <1>6
    <2> QED BY <2>1 DEF Reaches, max, place
  <1>7. CASE place = FindSpace(size)
    <2>1. FindSpace(size) # None
      BY <1>7
    <2> QED BY <1>7, <2>1, FindSpaceIs
  <1> QED BY <1>4, <1>5, <1>6, <1>7

-----------------------------------------------------------------------------
(* A write.                                                                *)

\* The entry of a path becomes e, and the data dt: its bytes are in its place, and no other
\* entry's bytes change.
Rewrites(path, e, dt, content) ==
  /\ GetIndex(path) # None
  /\ e \in Entries /\ e.type = index[GetIndex(path)].type
  /\ e.parent_offset = index[GetIndex(path)].parent_offset
  /\ e.name = index[GetIndex(path)].name
  /\ e.type = "file" => e.offset >= IndexSize
  /\ \/ e.offset >= IndexSize
     \/ e.type = "directory" /\ e.offset = 0 /\ (e.size = 0 \/ e.size > IndexSize)
  /\ dt \in Seq(Byte) /\ Len(data) <= Len(dt)
  /\ \A t \in Taken(index) \ {GetIndex(path)} : Extent(e) \cap Extent(index[t]) = {}
  /\ \A t \in Taken(index) \ {GetIndex(path)} : \A b \in Extent(index[t]) :
       b + 1 - IndexSize \in 1..Len(data) => dt[b + 1 - IndexSize] = data[b + 1 - IndexSize]
  /\ path \in DOMAIN files => content \in Contents /\ Stored(e, dt, content)

FilesNow(path, content) ==
  IF path \in DOMAIN files THEN [files EXCEPT ![path] = content] ELSE files

\* The slot of a path that is found.
LEMMA FoundIs ==
  ASSUME IInv, ~torn, NEW path \in Paths, GetIndex(path) # None
  PROVE  /\ GetIndex(path) \in Taken(index) /\ GetIndex(path) \in 1..Slots
         /\ \E slot : /\ Named(index, dirs, DOMAIN files, slot)
                      /\ Holds(index, data, files, slot)
                      /\ path \in dirs \cup DOMAIN files /\ slot[path] = GetIndex(path)
         /\ path \in DOMAIN files => /\ index[GetIndex(path)].type = "file"
                                     /\ files[path] \in Contents
                                     /\ Stored(index[GetIndex(path)], data, files[path])
  <1>1. Typed /\ index \in Index
    BY InvNow
  <1>2. path \in Seq(Names) /\ Len(path) # 0
    BY PathIs
  <1>3. PICK slot : Named(index, dirs, DOMAIN files, slot) /\ Holds(index, data, files, slot)
    BY DEF IInv, Whole
  <1>4. /\ GetIndex(path) = IF path \in dirs \cup DOMAIN files THEN slot[path] ELSE None
        /\ path \in dirs \cup DOMAIN files => slot[path] \in Taken(index) /\ slot[path] \in 1..Slots
    BY <1>1, <1>2, <1>3, GetIndexIs
  <1>5. path \in DOMAIN files => index[slot[path]].type = "file"
    BY <1>3 DEF Named, NameOf
  <1>6. path \in DOMAIN files => files[path] \in Contents /\ Stored(index[slot[path]], data, files[path])
    BY <1>1, <1>3 DEF Typed, Holds
  <1> QED BY <1>3, <1>4, <1>5, <1>6

LEMMA EntryRewritten ==
  ASSUME IInv, ~torn, NEW path \in Paths, NEW e, NEW dt, NEW content,
         Rewrites(path, e, dt, content)
  PROVE  /\ Sound(Put(index, GetIndex(path), e), dirs, FilesNow(path, content), dt)
         /\ Taken(Put(index, GetIndex(path), e)) = Taken(index)
  <1> DEFINE s == GetIndex(path)
             idx == Put(index, s, e)
             fs == FilesNow(path, content)
  <1>1. /\ Typed /\ index \in Index /\ DOMAIN index = 1..Slots
        /\ data \in Seq(Byte) /\ Taken(index) \in SUBSET (1..Slots)
        /\ \A t \in 1..Slots : index[t].offset \in Nat /\ index[t].size \in Nat
    BY InvNow
  <1>2. /\ s # None /\ e \in Entries /\ e.type = index[s].type
        /\ e.parent_offset = index[s].parent_offset /\ e.name = index[s].name
        /\ e.type = "file" => e.offset >= IndexSize
        /\ \/ e.offset >= IndexSize
           \/ e.type = "directory" /\ e.offset = 0 /\ (e.size = 0 \/ e.size > IndexSize)
        /\ dt \in Seq(Byte) /\ Len(data) <= Len(dt)
        /\ path \in DOMAIN files => content \in Contents /\ Stored(e, dt, content)
    BY DEF Rewrites
  <1>3. \A t \in Taken(index) \ {s} : Extent(e) \cap Extent(index[t]) = {}
    BY DEF Rewrites
  <1>4. \A t \in Taken(index) \ {s} : \A b \in Extent(index[t]) :
          b + 1 - IndexSize \in 1..Len(data) => dt[b + 1 - IndexSize] = data[b + 1 - IndexSize]
    BY DEF Rewrites
  <1>5. s \in Taken(index) /\ s \in 1..Slots
    BY <1>2, FoundIs
  <1>6. PICK slot : /\ Named(index, dirs, DOMAIN files, slot)
                    /\ Holds(index, data, files, slot)
                    /\ path \in dirs \cup DOMAIN files /\ slot[path] = s
    BY <1>2, FoundIs
  <1>7. Tidy(index) /\ Placed(index) /\ Apart(index)
    BY DEF IInv, Whole
  <1> HIDE DEF s
  <1>8. /\ idx \in Index /\ idx[s] = e /\ DOMAIN idx = DOMAIN index
        /\ \A t \in 1..Slots : t # s => idx[t] = index[t]
    BY <1>1, <1>2, <1>5 DEF Index, Put
  <1> HIDE DEF idx
  <1>9. \A t \in DOMAIN index : /\ idx[t].type = index[t].type
                                /\ idx[t].parent_offset = index[t].parent_offset
                                /\ idx[t].name = index[t].name
    BY <1>1, <1>2, <1>8
  <1>10. Named(idx, dirs, DOMAIN files, slot) /\ Taken(idx) = Taken(index)
    BY <1>1, <1>6, <1>8, <1>9, SameNamed
  <1>11. Tidy(idx)
    BY <1>1, <1>7, <1>9 DEF Tidy
  <1>12. Placed(idx)
    <2> SUFFICES ASSUME NEW t \in Taken(index)
                 PROVE  \/ idx[t].offset >= IndexSize
                        \/ /\ idx[t].type = "directory" /\ idx[t].offset = 0
                           /\ idx[t].size = 0 \/ idx[t].size > IndexSize
      BY <1>10 DEF Placed
    <2>1. CASE t = s
      BY <1>2, <1>8, <2>1
    <2>2. CASE t # s
      BY <1>1, <1>7, <1>8, <2>2 DEF Placed
    <2> QED BY <2>1, <2>2
  <1>13. Apart(idx)
    <2> SUFFICES ASSUME NEW t \in Taken(index), NEW u \in Taken(index), t # u
                 PROVE  Extent(idx[t]) \cap Extent(idx[u]) = {}
      BY <1>10 DEF Apart
    <2>1. CASE t = s
      <3>1. idx[t] = e /\ idx[u] = index[u] /\ u \in Taken(index) \ {s}
        BY <1>1, <1>8, <2>1
      <3> QED BY <1>3, <3>1
    <2>2. CASE u = s
      <3>1. idx[u] = e /\ idx[t] = index[t] /\ t \in Taken(index) \ {s}
        BY <1>1, <1>8, <2>2
      <3>2. Extent(e) \cap Extent(index[t]) = {}
        BY <1>3, <3>1
      <3> QED BY <3>1, <3>2
    <2>3. CASE t # s /\ u # s
      <3>1. idx[u] = index[u] /\ idx[t] = index[t]
        BY <1>1, <1>8, <2>3
      <3> QED BY <1>7, <3>1 DEF Apart
    <2> QED BY <2>1, <2>2, <2>3
  <1>14. \A t \in 1..Slots : idx[t].type = "file" => idx[t].offset >= IndexSize
    BY <1>1, <1>2, <1>8 DEF Typed
  <1>15. /\ dirs \in SUBSET Paths /\ DOMAIN fs = DOMAIN files /\ DOMAIN fs \in SUBSET Paths
         /\ \A p \in DOMAIN files : p # path => fs[p] = files[p]
         /\ path \in DOMAIN files => fs[path] = content
    BY <1>1 DEF Typed, FilesNow
  <1>16. fs \in [DOMAIN fs -> Contents]
    <2>1. CASE path \in DOMAIN files
      <3>1. content \in Contents /\ files \in [DOMAIN files -> Contents]
        BY <1>1, <1>2, <2>1 DEF Typed
      <3>2. [files EXCEPT ![path] = content] \in [DOMAIN files -> Contents]
        BY <2>1, <3>1
      <3> QED BY <1>15, <2>1, <3>2 DEF FilesNow
    <2>2. CASE path \notin DOMAIN files
      BY <1>1, <2>2 DEF Typed, FilesNow
    <2> QED BY <2>1, <2>2
  <1> HIDE DEF fs
  <1>17. Holds(idx, dt, fs, slot)
    <2> SUFFICES ASSUME NEW p \in DOMAIN files PROVE Stored(idx[slot[p]], dt, fs[p])
      BY <1>15 DEF Holds
    <2>1. CASE p = path
      BY <1>2, <1>6, <1>8, <1>15, <2>1
    <2>2. CASE p # path
      <3>1. NameOf(index, dirs, DOMAIN files, slot, p) /\ p \notin dirs /\ slot[p] # slot[path]
        BY <1>6, <2>2 DEF Named
      <3>2. slot[p] \in Taken(index) \ {s} /\ index[slot[p]].type = "file" /\ slot[p] \in 1..Slots
        BY <1>1, <1>6, <3>1 DEF NameOf
      <3> DEFINE d == index[slot[p]]
      <3>3. d.offset \in Nat /\ d.size \in Nat /\ d.offset >= IndexSize
        BY <1>1, <3>2 DEF Typed
      <3>4. Stored(d, data, files[p]) /\ files[p] \in Contents
        BY <1>1, <1>6 DEF Holds, Typed
      <3>5. \A b \in Extent(d) : b + 1 - IndexSize \in 1..Len(data) =>
              dt[b + 1 - IndexSize] = data[b + 1 - IndexSize]
        BY <1>4, <3>2
      <3>6. idx[slot[p]] = d /\ fs[p] = files[p]
        BY <1>8, <1>15, <2>2, <3>2
      <3> HIDE DEF d
      <3>7. Stored(d, dt, files[p])
        BY <1>1, <1>2, <3>3, <3>4, <3>5, StoredElsewhere
      <3> QED BY <3>6, <3>7
    <2> QED BY <2>1, <2>2
  <1>18. Sound(idx, dirs, fs, dt)
    BY <1>2, <1>8, <1>10, <1>11, <1>12, <1>13, <1>14, <1>15, <1>16, <1>17 DEF Sound
  <1> QED BY <1>10, <1>18 DEF idx, fs, s

\* What a file should have after a write.
Grown(old, path, offset, size, written) ==
  [k \in 1..IF offset + size > Len(old) THEN offset + size ELSE Len(old) |->
     IF written /\ k \in (offset + 1)..(offset + size) THEN <<path, k, "kernel">>
     ELSE IF k <= Len(old) THEN old[k] ELSE Any]

LEMMA ExpectedIs ==
  ASSUME NEW path, NEW offset, NEW size, NEW written
  PROVE  Expected(path, offset, size, written) =
           FilesNow(path, Grown(files[path], path, offset, size, written))
  BY DEF Expected, FilesNow, Grown

GrowsTo(c, old, path, offset, size, written) ==
  /\ c \in Contents
  /\ Len(c) = IF offset + size > Len(old) THEN offset + size ELSE Len(old)
  /\ \A k \in 1..Len(c) :
       c[k] = IF written /\ k \in (offset + 1)..(offset + size) THEN <<path, k, "kernel">>
              ELSE IF k <= Len(old) THEN old[k] ELSE Any

LEMMA GrownIs ==
  ASSUME NEW old \in Contents, NEW path \in Paths, NEW offset \in Nat, NEW size \in Nat,
         NEW written \in BOOLEAN
  PROVE  GrowsTo(Grown(old, path, offset, size, written), old, path, offset, size, written)
  <1> DEFINE c == Grown(old, path, offset, size, written)
             n == IF offset + size > Len(old) THEN offset + size ELSE Len(old)
             At(k) == IF written /\ k \in (offset + 1)..(offset + size) THEN <<path, k, "kernel">>
                      ELSE IF k <= Len(old) THEN old[k] ELSE Any
  <1>1. Len(old) \in Nat /\ \A k \in 1..Len(old) : old[k] \in Bytes \cup {Any}
    BY DEF Contents
  <1>2. n \in Nat
    BY <1>1
  <1>3. c = [k \in 1..n |-> At(k)]
    BY DEF Grown
  <1>4. ASSUME NEW k \in 1..n PROVE At(k) \in Bytes \cup {Any}
    <2>1. k \in Nat /\ k >= 1
      BY <1>2
    <2>2. <<path, k, "kernel">> \in Bytes
      BY <2>1 DEF Bytes
    <2>3. k <= Len(old) => k \in 1..Len(old)
      BY <1>1, <2>1
    <2> QED BY <1>1, <2>2, <2>3
  <1> HIDE DEF At, n
  <1>5. c \in Contents /\ Len(c) = n /\ \A k \in 1..n : c[k] = At(k)
    BY <1>2, <1>3, <1>4 DEF Contents
  <1> QED BY <1>5 DEF c, n, At, GrowsTo

LEMMA GrownBoth ==
  ASSUME NEW old \in Contents, NEW path \in Paths, NEW offset \in Nat, NEW size \in Nat
  PROVE  /\ GrowsTo(Grown(old, path, offset, size, TRUE), old, path, offset, size, TRUE)
         /\ GrowsTo(Grown(old, path, offset, size, FALSE), old, path, offset, size, FALSE)
  BY GrownIs

LEMMA FilesTyped ==
  ASSUME Typed, NEW path \in Paths, NEW offset \in Nat, NEW size \in Nat,
         NEW written \in BOOLEAN
  PROVE  LET fs == Expected(path, offset, size, written)
         IN  DOMAIN fs \in SUBSET Paths /\ fs \in [DOMAIN fs -> Contents]
  <1>1. DOMAIN files \in SUBSET Paths /\ files \in [DOMAIN files -> Contents]
    BY DEF Typed
  <1> DEFINE content == Grown(files[path], path, offset, size, written)
  <1>2. path \in DOMAIN files => content \in Contents
    <2> SUFFICES ASSUME path \in DOMAIN files PROVE content \in Contents
      OBVIOUS
    <2>1. files[path] \in Contents
      BY <1>1
    <2>2. GrowsTo(content, files[path], path, offset, size, written)
      BY <2>1, GrownIs
    <2> HIDE DEF content
    <2> QED BY <2>2 DEF GrowsTo
  <1>3. Expected(path, offset, size, written) = FilesNow(path, content)
    BY ExpectedIs
  <1> HIDE DEF content
  <1>4. FilesNow(path, content) \in [DOMAIN files -> Contents]
    BY <1>1, <1>2 DEF FilesNow
  <1> QED BY <1>1, <1>3, <1>4

LEMMA WrapsWhole == ASSUME Width # 0 PROVE Wrapped(Width) = 0 /\ \A n \in Nat : Wrapped(n) \in Nat
  BY SizesAre DEF Wrapped

\* The bytes of a file are in their place, whatever the size of its entry is.
Kept(offset, dt, content) ==
  \A k \in 1..Len(content) :
    content[k] # Any => /\ offset + k <= IndexSize + Len(dt)
                        /\ dt[offset - IndexSize + k] = content[k]

LEMMA StoredIs ==
  ASSUME NEW e, NEW dt, NEW content
  PROVE  Stored(e, dt, content) <=> (Len(content) = e.size /\ Kept(e.offset, dt, content))
  BY DEF Stored, Kept

LEMMA KeptWritten ==
  ASSUME NEW off \in Nat, off >= IndexSize, NEW bytes \in Seq(Byte), NEW old \in Contents,
         Kept(off, bytes, old), NEW path \in Paths, NEW offset \in Nat, NEW size \in Nat,
         off + offset + size <= IndexSize + Len(bytes)
  PROVE  Kept(off, Copied(bytes, off + offset, Source(path, offset, size)),
              Grown(old, path, offset, size, TRUE))
  <1> DEFINE at == off + offset
             dt == Copied(bytes, at, Source(path, offset, size))
             c == Grown(old, path, offset, size, TRUE)
             len == Len(bytes)
  <1>1. len \in Nat /\ IndexSize \in Nat /\ IndexSize # 0 /\ at \in Nat
        /\ at + size <= IndexSize + len
    BY SizesAre
  <1>2. /\ Source(path, offset, size) \in [1..size -> Byte]
        /\ \A k \in 1..size : Source(path, offset, size)[k] = <<path, offset + k, "kernel">>
    BY SourceIs
  <1>3. /\ dt \in Seq(Byte) /\ Len(dt) = len
        /\ \A k \in 1..size : at - IndexSize + k \in 1..len
                                => dt[at - IndexSize + k] = Source(path, offset, size)[k]
        /\ \A b \in Nat :
             /\ b + 1 - IndexSize \in 1..len
             /\ b < at \/ b >= at + size
             => dt[b + 1 - IndexSize] = bytes[b + 1 - IndexSize]
    <2> DEFINE src == Source(path, offset, size)
    <2>1. src \in [1..size -> Byte] /\ bytes \in Seq(Byte) /\ size \in Nat /\ at \in Nat
      BY <1>1, <1>2
    <2> HIDE DEF at, src
    <2>2. CopyIn(Copied(bytes, at, src), bytes, at, size, src)
      BY ONLY <2>1, CopiedIs
    <2> QED BY <2>2 DEF CopyIn, src
  <1>4. /\ Len(c) \in Nat
        /\ \A k \in 1..Len(c) :
             c[k] = IF k \in (offset + 1)..(offset + size) THEN <<path, k, "kernel">>
                    ELSE IF k <= Len(old) THEN old[k] ELSE Any
    <2>1. Len(old) \in Nat
      BY DEF Contents
    <2>2. GrowsTo(c, old, path, offset, size, TRUE)
      BY GrownBoth
    <2> HIDE DEF c
    <2>3. Len(c) = IF offset + size > Len(old) THEN offset + size ELSE Len(old)
      BY <2>2 DEF GrowsTo
    <2> QED BY <2>1, <2>2, <2>3 DEF GrowsTo
  <1>5. Len(old) \in Nat
    BY DEF Contents
  <1> HIDE DEF at, dt, c, len
  <1>6. ASSUME NEW k \in 1..Len(c), c[k] # Any
        PROVE  off + k <= IndexSize + len /\ dt[off - IndexSize + k] = c[k]
    <2>1. k \in Nat /\ k >= 1
      BY <1>4
    <2>2. CASE k \in (offset + 1)..(offset + size)
      <3> DEFINE j == k - offset
      <3>1. j \in 1..size /\ offset + j = k
        BY <2>1, <2>2
      <3>2. at - IndexSize + j = off - IndexSize + k /\ off + k <= IndexSize + len
            /\ off - IndexSize + k \in 1..len
        BY <1>1, <2>1, <3>1 DEF at
      <3> HIDE DEF j
      <3>3. dt[at - IndexSize + j] = <<path, k, "kernel">>
        BY <1>2, <1>3, <3>1, <3>2
      <3> QED BY <1>4, <2>2, <3>2, <3>3
    <2>3. CASE k \notin (offset + 1)..(offset + size)
      <3>1. k <= Len(old) /\ c[k] = old[k]
        BY <1>4, <1>6, <2>3
      <3>2. k \in 1..Len(old)
        BY <1>5, <2>1, <3>1
      <3>3. off + k <= IndexSize + len /\ bytes[off - IndexSize + k] = old[k]
        BY <1>6, <3>1, <3>2 DEF Kept, len
      <3> DEFINE b == off + k - 1
      <3>4. /\ b \in Nat /\ b + 1 - IndexSize = off - IndexSize + k
            /\ b + 1 - IndexSize \in 1..len /\ (b < at \/ b >= at + size)
        BY <1>1, <2>1, <2>3, <3>3 DEF at
      <3> HIDE DEF b
      <3>5. dt[b + 1 - IndexSize] = bytes[b + 1 - IndexSize]
        BY <1>3, <3>4
      <3> QED BY <3>1, <3>3, <3>4, <3>5
    <2> QED BY <2>2, <2>3
  <1>7. Kept(off, dt, c)
    BY <1>3, <1>6 DEF Kept
  <1> QED BY <1>7 DEF dt, c, at

LEMMA KeptGrown ==
  ASSUME NEW off, NEW bytes, NEW old \in Contents, Kept(off, bytes, old),
         NEW path \in Paths, NEW offset \in Nat, NEW size \in Nat
  PROVE  Kept(off, bytes, Grown(old, path, offset, size, FALSE))
  <1> DEFINE c == Grown(old, path, offset, size, FALSE)
  <1>1. Len(old) \in Nat
    BY DEF Contents
  <1>2a. GrowsTo(c, old, path, offset, size, FALSE)
    BY GrownBoth
  <1> HIDE DEF c
  <1>2. /\ Len(c) = IF offset + size > Len(old) THEN offset + size ELSE Len(old)
        /\ \A k \in 1..Len(c) : c[k] = IF k <= Len(old) THEN old[k] ELSE Any
    BY <1>2a DEF GrowsTo
  <1>3. ASSUME NEW k \in 1..Len(c), c[k] # Any
        PROVE  off + k <= IndexSize + Len(bytes) /\ bytes[off - IndexSize + k] = c[k]
    <2>1. k <= Len(old) /\ c[k] = old[k] /\ k \in 1..Len(old)
      BY <1>1, <1>2, <1>3
    <2> QED BY <1>3, <2>1 DEF Kept
  <1> QED BY <1>3 DEF Kept, c

LEMMA KernelAgain ==
  ASSUME booted' = TRUE, torn' = FALSE, Sound(index', dirs', files', data'),
         Late(index', RootMax')
  PROVE  IInv'
  <1>1. Typed'
    BY DEF Typed, Sound
  <1>2. Whole'
    BY DEF Whole, Sound
  <1> QED BY <1>1, <1>2 DEF IInv

LEMMA KeptByWrite ==
  ASSUME IInv, NEW path \in Paths, NEW offset \in WriteOffsets, NEW size \in WriteSizes,
         FsWrite(path, offset, size)
  PROVE  IInv'
  <1> DEFINE s == GetIndex(path)
             d == index[s]
             at == d.offset + offset
             src == Source(path, offset, size)
             content == Grown(files[path], path, offset, size, TRUE)
  <1>1. /\ Typed /\ index \in Index /\ DOMAIN index = 1..Slots
        /\ data \in Seq(Byte) /\ Len(data) \in Nat
        /\ RootMax = IndexSize + Len(data) /\ IndexSize \in Nat
        /\ \A t \in 1..Slots : index[t].offset \in Nat /\ index[t].size \in Nat
    BY InvNow, SizesAre
  <1>2. offset \in Nat /\ size \in Nat /\ size # 0
    BY WriteAssumption
  <1>3. /\ booted = TRUE /\ ~torn /\ s # None /\ offset + size <= d.size
        /\ data' = Copied(data, at, src)
        /\ torn' = ~InData(at, size)
        /\ files' = Expected(path, offset, size, TRUE)
        /\ index' = index /\ dirs' = dirs /\ booted' = booted
    BY <1>1 DEF FsWrite, Typed
  <1>4. s \in Taken(index) /\ s \in 1..Slots
    BY <1>3, FoundIs
  <1>5. d.offset \in Nat /\ d.size \in Nat /\ at \in Nat
    BY <1>1, <1>2, <1>4
  <1>6. src \in [1..size -> Byte]
    BY <1>2, SourceIs
  <1> HIDE DEF src
  <1>7. /\ data' \in Seq(Byte) /\ Len(data') = Len(data)
        /\ \A b \in Nat :
             /\ b + 1 - IndexSize \in 1..Len(data)
             /\ b < at \/ b >= at + size
             => data'[b + 1 - IndexSize] = data[b + 1 - IndexSize]
    <2> HIDE DEF at
    <2>1. CopyIn(Copied(data, at, src), data, at, size, src)
      BY <1>1, <1>2, <1>5, <1>6, CopiedIs
    <2>2. CopyIn(data', data, at, size, src)
      BY ONLY <1>3, <2>1
    <2> QED BY <2>2 DEF CopyIn
  <1>8. CASE ~InData(at, size)
    <2>1. torn' = TRUE
      BY <1>3, <1>8
    <2>2. DOMAIN files' \in SUBSET Paths /\ files' \in [DOMAIN files' -> Contents]
      BY <1>1, <1>2, <1>3, FilesTyped
    <2>3. Typed'
      BY <1>1, <1>3, <1>7, <2>1, <2>2 DEF Typed
    <2> QED BY <1>3, <2>1, <2>3 DEF IInv
  <1>9. CASE InData(at, size)
    <2>1. at >= IndexSize /\ at + size <= IndexSize + Len(data)
      BY <1>1, <1>9 DEF InData
    <2>2. Placed(index) /\ Apart(index) /\ Late(index, RootMax)
      BY <1>3 DEF IInv, Whole
    <2>3. \A t \in Taken(index) \ {s} : Extent(d) \cap Extent(index[t]) = {}
      BY <1>4, <2>2 DEF Apart
    <2>4. ASSUME NEW t \in Taken(index) \ {s}, NEW b \in Extent(index[t]),
                 b + 1 - IndexSize \in 1..Len(data)
          PROVE  data'[b + 1 - IndexSize] = data[b + 1 - IndexSize]
      <3>1. t \in 1..Slots
        BY InvNow
      <3>2. index[t].offset \in Nat /\ index[t].size \in Nat
        BY <1>1, <3>1
      <3>3. b \in Nat
        BY <3>2 DEF Extent
      <3>4. b \notin Extent(d)
        BY <2>3
      <3>5. b < at \/ b >= at + size
        BY <1>2, <1>3, <1>5, <3>3, <3>4 DEF Extent
      <3> HIDE DEF at
      <3> QED BY <1>7, <2>4, <3>3, <3>5
    <2>5. path \in DOMAIN files => content \in Contents /\ Stored(d, data', content)
      <3> SUFFICES ASSUME path \in DOMAIN files
                   PROVE  content \in Contents /\ Stored(d, data', content)
        OBVIOUS
      <3>1. d.type = "file" /\ files[path] \in Contents /\ Stored(d, data, files[path])
        BY <1>3, FoundIs
      <3>2. d.offset >= IndexSize
        BY <1>1, <1>4, <3>1 DEF Typed
      <3> DEFINE old == files[path]
      <3>3. Len(old) = d.size /\ Kept(d.offset, data, old)
        BY <3>1, StoredIs
      <3>4. content \in Contents /\ Len(content) = d.size
        <4>1. ~(offset + size > Len(old))
          BY <1>2, <1>3, <1>5, <3>3
        <4>2. GrowsTo(content, old, path, offset, size, TRUE)
          BY <1>2, <3>1, GrownBoth
        <4> HIDE DEF content, d
        <4> QED BY <3>3, <4>1, <4>2 DEF GrowsTo
      <3>5. Kept(d.offset, data', content)
        <4> DEFINE off == d.offset
        <4>1. off \in Nat /\ off >= IndexSize /\ off + offset + size <= IndexSize + Len(data)
              /\ Kept(off, data, old)
          BY <1>5, <2>1, <3>2, <3>3
        <4>2. data' = Copied(data, off + offset, Source(path, offset, size))
          BY <1>3 DEF src
        <4> HIDE DEF off
        <4>3. Kept(off, data', content)
          BY <1>1, <1>2, <3>1, <4>1, <4>2, KeptWritten
        <4> QED BY <4>3 DEF off
      <3> HIDE DEF content
      <3> QED BY <3>4, <3>5, StoredIs
    <2>6. d \in Entries /\ (d.type = "file" => d.offset >= IndexSize)
      BY <1>1, <1>4, EntryIs DEF Typed
    <2>7. \/ d.offset >= IndexSize
          \/ d.type = "directory" /\ d.offset = 0 /\ (d.size = 0 \/ d.size > IndexSize)
      BY <1>4, <2>2 DEF Placed
    <2>8. Rewrites(path, d, data', content)
      <3>1. Len(data) <= Len(data')
        BY <1>1, <1>7
      <3> HIDE DEF content
      <3> QED BY <1>3, <1>7, <2>3, <2>4, <2>5, <2>6, <2>7, <3>1 DEF Rewrites
    <2>9. index' = Put(index, s, d)
      BY <1>1, <1>3, <1>4 DEF Put, Index
    <2>10. files' = FilesNow(path, content)
      BY <1>3, ExpectedIs
    <2> HIDE DEF content, d
    <2>11. Sound(Put(index, s, d), dirs, FilesNow(path, content), data')
      BY ONLY IInv, <1>3, path \in Paths, <2>8, EntryRewritten
    <2>12. Sound(index', dirs', files', data')
      BY ONLY <1>3, <2>9, <2>10, <2>11
    <2>13. Late(index', RootMax')
      BY <1>3, <1>7, <2>2 DEF RootMax
    <2>14. torn' = FALSE /\ booted' = TRUE
      BY <1>3, <1>9
    <2> QED BY <2>12, <2>13, <2>14, KernelAgain
  <1> QED BY <1>8, <1>9

-----------------------------------------------------------------------------
(* A write for which the entry has to grow.                                *)

Moves(s, place) == place # index[s].offset /\ index[s].size # 0

\* What MovedData leaves.
MovedTo(m, s, place) ==
  /\ m \in Seq(Byte) /\ Len(m) = Len(data)
  /\ \A b \in Nat :
       /\ b + 1 - IndexSize \in 1..Len(data)
       /\ b < place \/ b >= place + index[s].size
       => m[b + 1 - IndexSize] = data[b + 1 - IndexSize]
  /\ \A content \in Contents :
       /\ index[s].offset >= IndexSize /\ place >= IndexSize
       /\ Moves(s, place) => place + index[s].size <= RootMax
       /\ Stored(index[s], data, content)
       => Kept(place, m, content)

LEMMA MovedIs ==
  ASSUME IInv, booted, ~torn, NEW s \in Taken(index), NEW place \in Nat,
         Moves(s, place) => StorageFits(index[s].offset, index[s].size)
  PROVE  MovedTo(MovedData(s, place), s, place)
  <1> DEFINE off == index[s].offset
             old == index[s].size
             m == MovedData(s, place)
             len == Len(data)
  <1>1. /\ data \in Seq(Byte) /\ len \in Nat /\ IndexSize \in Nat /\ RootMax = IndexSize + len
        /\ off \in Nat /\ old \in Nat
    BY InvNow, SizesAre
  <1>2. CASE ~Moves(s, place)
    <2>1. m = data
      BY <1>2 DEF MovedData, Moves
    <2>2. ASSUME NEW content \in Contents, Stored(index[s], data, content)
          PROVE  Kept(place, data, content)
      <3>1. Len(content) = old /\ Kept(off, data, content)
        BY <2>2, StoredIs
      <3>2. CASE place = off
        BY <3>1, <3>2
      <3>3. CASE old = 0
        BY <3>1, <3>3 DEF Kept
      <3> QED BY <1>2, <3>2, <3>3 DEF Moves
    <2> QED BY <1>1, <2>1, <2>2 DEF MovedTo
  <1>3. CASE Moves(s, place)
    <2> DEFINE bytes == StorageRead(off, old)
    <2>1. m = Copied(data, place, bytes)
      BY <1>3 DEF MovedData, Moves
    <2>2. off + old <= IndexSize + len
      <3>1. off + old < Width
        <4>1. Writable(index, RootMax)
          BY KernelNow
        <4> DEFINE max == RootMax
        <4>2. off + old <= 2 * max + Slots /\ 3 * max + Slots <= Width /\ max \in Nat
              /\ max >= IndexSize /\ IndexSize # 0
          BY <4>1, SizesAre DEF Writable
        <4> HIDE DEF max, off, old
        <4> QED BY <1>1, <4>2, SizesAre
      <3>2. Wrapped(off + old) = off + old
        BY <1>1, <3>1, WrapsNot
      <3> QED BY <1>1, <1>3, <3>2 DEF StorageFits
    <2> HIDE DEF off, old, m
    <2>3. /\ Len(bytes) = old
          /\ \A k \in 1..old : bytes[k] = IF off + k > IndexSize THEN data[off + k - IndexSize]
                                          ELSE NoByte
      BY <1>1, <2>2, ReadIs
    <2>4. DOMAIN bytes = 1..old /\ \A k \in 1..old : bytes[k] \in Byte
      <3>1. ASSUME NEW k \in 1..old PROVE bytes[k] \in Byte
        <4>1. NoByte \in Byte
          BY DEF Byte
        <4>2. off + k > IndexSize => off + k - IndexSize \in 1..len
          BY <1>1, <2>2
        <4>3. off + k > IndexSize => data[off + k - IndexSize] \in Byte
          BY <1>1, <4>2
        <4> HIDE DEF bytes
        <4> QED BY <2>3, <4>1, <4>3
      <3>2. DOMAIN bytes = 1..old
        <4>1. bytes = [k \in 1..old |-> IF off + k > IndexSize THEN data[off + k - IndexSize]
                                        ELSE NoByte]
          BY <1>1, <2>2 DEF StorageRead
        <4> QED BY <4>1
      <3> QED BY <3>1, <3>2
    <2>5. bytes \in [1..old -> Byte]
      <3>1. bytes = [k \in 1..old |-> IF off + k > IndexSize THEN data[off + k - IndexSize]
                                      ELSE NoByte]
        BY <1>1, <2>2 DEF StorageRead
      <3>2. \A k \in 1..old : (IF off + k > IndexSize THEN data[off + k - IndexSize]
                                      ELSE NoByte) \in Byte
        BY <2>3, <2>4
      <3> HIDE DEF bytes
      <3> QED BY <3>1, <3>2
    <2> HIDE DEF bytes
    <2>6. CopyIn(m, data, place, old, bytes)
      <3>1. CopyIn(Copied(data, place, bytes), data, place, old, bytes)
        BY <1>1, <2>5, CopiedIs
      <3> QED BY ONLY <2>1, <3>1
    <2>7. /\ m \in Seq(Byte) /\ Len(m) = len
          /\ \A k \in 1..old : place - IndexSize + k \in 1..len
                                 => m[place - IndexSize + k] = bytes[k]
          /\ \A b \in Nat :
               /\ b + 1 - IndexSize \in 1..len
               /\ b < place \/ b >= place + old
               => m[b + 1 - IndexSize] = data[b + 1 - IndexSize]
      BY <2>6 DEF CopyIn
    <2>8. ASSUME NEW content \in Contents, off >= IndexSize, place >= IndexSize,
                 place + old <= RootMax, Stored(index[s], data, content)
          PROVE  Kept(place, m, content)
      <3>1. Len(content) = old /\ Kept(off, data, content)
        BY <2>8, StoredIs DEF off, old
      <3> SUFFICES ASSUME NEW k \in 1..old, content[k] # Any
                   PROVE  /\ place + k <= IndexSize + len
                          /\ m[place - IndexSize + k] = content[k]
        BY <2>7, <3>1 DEF Kept
      <3>2. data[off - IndexSize + k] = content[k]
        BY <3>1 DEF Kept
      <3>3. /\ k \in Nat /\ k >= 1 /\ off + k > IndexSize
            /\ off + k - IndexSize = off - IndexSize + k
            /\ place + k <= IndexSize + len /\ place - IndexSize + k \in 1..len
        BY <1>1, <2>8
      <3>4. bytes[k] = data[off - IndexSize + k]
        BY <2>3, <3>3
      <3> QED BY <2>7, <3>2, <3>3, <3>4
    <2> QED BY <1>3, <2>7, <2>8 DEF MovedTo, m, off, old
  <1> QED BY <1>2, <1>3

\* What the action does, with a name for each part.
LEMMA LargerIs ==
  ASSUME IInv, NEW path \in Paths, NEW offset \in WriteOffsets, NEW size \in WriteSizes,
         FsWriteLarger(path, offset, size)
  PROVE  LET s == GetIndex(path)
             place == ResizedOffset(s, offset + size)
             at == Wrapped(place + offset)
             fits == StorageFits(at, size)
         IN  /\ booted = TRUE /\ ~torn /\ s # None /\ place # None
             /\ offset + size > index[s].size
             /\ Moves(s, place) => StorageFits(index[s].offset, index[s].size)
             /\ index' = [index EXCEPT ![s].size = offset + size, ![s].offset = place]
             /\ data' = IF fits THEN Copied(MovedData(s, place), at, Source(path, offset, size))
                        ELSE MovedData(s, place)
             /\ torn' = \/ Overlapping
                        \/ Moves(s, place) /\ ~InData(place, index[s].size)
                        \/ fits /\ ~InData(at, size)
             /\ files' = Expected(path, offset, size, fits)
             /\ dirs' = dirs /\ booted' = booted
  <1>1. booted \in BOOLEAN
    BY DEF IInv, Typed
  <1> QED BY <1>1 DEF FsWriteLarger, Moves

\* The entry with its new size and place.
Larger(d, size, place) == [d EXCEPT !.size = size, !.offset = place]
LargerAt(idx, s, size, place) == [idx EXCEPT ![s].size = size, ![s].offset = place]

LEMMA EntryLarger ==
  ASSUME NEW d \in Entries, NEW size \in Nat, NEW place \in Nat
  PROVE  /\ Larger(d, size, place) \in Entries
         /\ Larger(d, size, place).size = size /\ Larger(d, size, place).offset = place
         /\ Larger(d, size, place).type = d.type
         /\ Larger(d, size, place).parent_offset = d.parent_offset
         /\ Larger(d, size, place).name = d.name
  BY DEF Entries, Larger

OneChanged(idx2, idx, s, e) ==
  /\ idx2 = Put(idx, s, e) /\ idx2 \in Index /\ idx2[s] = e
  /\ \A t \in 1..Slots : t # s => idx2[t] = idx[t]

LEMMA IndexLarger ==
  ASSUME NEW idx \in Index, NEW s \in 1..Slots, NEW size \in Nat, NEW place \in Nat
  PROVE  OneChanged(LargerAt(idx, s, size, place), idx, s, Larger(idx[s], size, place))
  <1> DEFINE e == Larger(idx[s], size, place)
  <1>1. idx[s] \in Entries /\ DOMAIN idx = 1..Slots
    BY EntryIs, SlotIs
  <1>2. e \in Entries
    BY <1>1, EntryLarger
  <1>3. LargerAt(idx, s, size, place) = Put(idx, s, e)
    BY <1>1 DEF Put, Larger, LargerAt
  <1> HIDE DEF e
  <1>4. /\ Put(idx, s, e) \in Index /\ Put(idx, s, e)[s] = e
        /\ \A t \in 1..Slots : t # s => Put(idx, s, e)[t] = idx[t]
    BY <1>2 DEF Put, Index
  <1> QED BY <1>3, <1>4 DEF e, OneChanged

LEMMA KeptByWriteLarger ==
  ASSUME IInv, NEW path \in Paths, NEW offset \in WriteOffsets, NEW size \in WriteSizes,
         FsWriteLarger(path, offset, size)
  PROVE  IInv'
  <1> DEFINE s == GetIndex(path)
             d == index[s]
             n == offset + size
             place == ResizedOffset(s, n)
             at == Wrapped(place + offset)
             fits == StorageFits(at, size)
             moved == MovedData(s, place)
             src == Source(path, offset, size)
             max == RootMax
             e == Larger(d, n, place)
             content == Grown(files[path], path, offset, size, fits)
  <1>1. /\ Typed /\ index \in Index /\ DOMAIN index = 1..Slots
        /\ data \in Seq(Byte) /\ Len(data) \in Nat
        /\ max = IndexSize + Len(data) /\ IndexSize \in Nat /\ IndexSize # 0
        /\ Taken(index) \in SUBSET (1..Slots)
        /\ \A t \in 1..Slots : index[t].offset \in Nat /\ index[t].size \in Nat
    BY InvNow, SizesAre
  <1>2. offset \in Nat /\ size \in Nat /\ size # 0 /\ n \in Nat /\ n < Width
    BY WriteAssumption
  <1>3. /\ booted = TRUE /\ ~torn /\ s # None /\ place # None
        /\ n > d.size
        /\ Moves(s, place) => StorageFits(d.offset, d.size)
        /\ index' = [index EXCEPT ![s].size = n, ![s].offset = place]
        /\ data' = IF fits THEN Copied(moved, at, src) ELSE moved
        /\ torn' = \/ Overlapping
                   \/ Moves(s, place) /\ ~InData(place, d.size)
                   \/ fits /\ ~InData(at, size)
        /\ files' = Expected(path, offset, size, fits)
        /\ dirs' = dirs /\ booted' = booted
    BY LargerIs
  <1>4. s \in Taken(index) /\ s \in 1..Slots
    BY <1>3, FoundIs
  <1>5. d.offset \in Nat /\ d.size \in Nat
    BY <1>1, <1>4
  <1>6. Reaches(place, n, max) /\ (place = d.offset \/ place >= IndexSize) /\ place \in Nat
    <2>1. Reaches(place, n, max) /\ (place = d.offset \/ place >= IndexSize)
      BY <1>2, <1>3, <1>4, ResizedIs
    <2> QED BY <2>1 DEF Reaches
  <1>7. /\ e \in Entries /\ e.size = n /\ e.offset = place
        /\ e.type = d.type /\ e.parent_offset = d.parent_offset /\ e.name = d.name
        /\ index' = Put(index, s, e)
        /\ index' \in Index /\ index'[s] = e
        /\ \A t \in 1..Slots : t # s => index'[t] = index[t]
    <2> HIDE DEF place, n, s
    <2>1. d \in Entries
      BY <1>1, <1>4, EntryIs
    <2>2. /\ e \in Entries /\ e.size = n /\ e.offset = place /\ e.type = d.type
          /\ e.parent_offset = d.parent_offset /\ e.name = d.name
      <3> HIDE DEF d
      <3> QED BY <1>2, <1>6, <2>1, EntryLarger
    <2>3. OneChanged(LargerAt(index, s, n, place), index, s, e)
      BY <1>1, <1>2, <1>4, <1>6, IndexLarger
    <2>4. index' = LargerAt(index, s, n, place)
      BY <1>3 DEF LargerAt
    <2> HIDE DEF e, d
    <2>5. OneChanged(index', index, s, e)
      BY ONLY <2>3, <2>4
    <2> QED BY <2>2, <2>5 DEF OneChanged
  <1>8. MovedTo(moved, s, place)
    BY <1>3, <1>4, <1>6, MovedIs
  <1>9. moved \in Seq(Byte) /\ Len(moved) = Len(data)
    BY <1>8 DEF MovedTo
  <1>10. src \in [1..size -> Byte]
    BY <1>2, SourceIs
  <1>11. Writable(index, max)
    BY <1>3, KernelNow
  <1>12. max \in Nat /\ max >= IndexSize /\ 3 * max + Slots <= Width /\ Slots \in Nat
         /\ Width \in Nat /\ Width # 0
    BY <1>1, <1>11, SizesAre DEF Writable
  <1>13. at \in Nat
    BY <1>2, <1>6, <1>12, WrapsWhole
  <1> HIDE DEF src, moved, e, place, at, max
  <1>14. fits => CopyIn(data', moved, at, size, src)
    <2>1. CopyIn(Copied(moved, at, src), moved, at, size, src)
      BY <1>2, <1>9, <1>10, <1>13, CopiedIs
    <2> HIDE DEF fits
    <2> QED BY ONLY <1>3, <2>1
  <1>15. data' \in Seq(Byte) /\ Len(data') = Len(data)
    <2>1. CASE fits
      BY <1>9, <1>14, <2>1 DEF CopyIn
    <2>2. CASE ~fits
      BY <1>3, <1>9, <2>2
    <2> QED BY <2>1, <2>2
  <1>16. \A t \in 1..Slots : index'[t].type = "file" => index'[t].offset >= IndexSize
    <2> SUFFICES ASSUME NEW t \in 1..Slots, index'[t].type = "file"
                 PROVE  index'[t].offset >= IndexSize
      OBVIOUS
    <2>1. CASE t = s
      <3>1. index'[t] = e
        BY <1>7, <2>1
      <3>2. d.type = "file"
        BY <1>7, <3>1
      <3>3. d.offset >= IndexSize
        BY <1>1, <1>4, <3>2 DEF Typed
      <3> QED BY <1>6, <1>7, <3>1, <3>3
    <2>2. CASE t # s
      <3>1. index'[t] = index[t]
        BY <1>7, <2>2
      <3> QED BY <1>1, <3>1 DEF Typed
    <2> QED BY <2>1, <2>2
  <1>17. fits \in BOOLEAN
    BY DEF StorageFits
  <1>18. CASE torn'
    <2>1. torn' = TRUE
      BY <1>3, <1>18
    <2>2. DOMAIN files' \in SUBSET Paths /\ files' \in [DOMAIN files' -> Contents]
      <3> HIDE DEF fits
      <3> QED BY <1>1, <1>2, <1>3, <1>17, FilesTyped
    <2>3. Typed'
      BY <1>1, <1>3, <1>7, <1>15, <1>16, <2>1, <2>2 DEF Typed
    <2> QED BY <1>3, <2>1, <2>3 DEF IInv
  <1>19. CASE ~torn'
    <2>1. /\ torn' = FALSE /\ ~Overlapping
          /\ Moves(s, place) => InData(place, d.size)
          /\ fits => InData(at, size)
      <3> HIDE DEF fits
      <3> QED BY ONLY <1>3, <1>17, <1>19
    <2>2. Placed(index) /\ Apart(index) /\ Late(index, max)
      BY <1>3 DEF IInv, Whole, max
    <2>3. place + n <= 2 * max + Slots
      <3> SUFFICES ASSUME n # 0, n <= Width, place = Width - n PROVE FALSE
        BY <1>6 DEF Reaches
      <3>1. place + offset \in Nat /\ place + offset < Width /\ place + offset + size = Width
        BY <1>2, <1>6, <1>12
      <3>2. at = place + offset
        BY <3>1, WrapsNot DEF at
      <3>3. at + size = Width
        BY <3>1, <3>2
      <3>4. fits
        BY <1>12, <3>3, WrapsWhole DEF StorageFits, max
      <3>5. at + size <= max
        BY <2>1, <3>4 DEF InData, max
      <3> HIDE DEF n
      <3> QED BY ONLY <1>12, <1>1, <3>3, <3>5
    <2>4. /\ at = place + offset /\ at + size = place + n
          /\ (fits <=> place + n <= max)
      <3>1. place + offset < Width /\ place + n < Width
        BY <1>1, <1>2, <1>6, <1>12, <2>3
      <3>2. at = place + offset
        BY <1>2, <1>6, <3>1, WrapsNot DEF at
      <3>3. at + size = place + n
        BY <1>2, <1>6, <3>2
      <3>4. Wrapped(at + size) = place + n
        BY <1>2, <1>6, <3>1, <3>3, WrapsNot
      <3> HIDE DEF n
      <3> QED BY <3>2, <3>3, <3>4 DEF StorageFits, max
    <2>5. fits => at >= IndexSize /\ place + n <= max
      BY <2>1, <2>4 DEF InData, max
    <2>6. \/ e.offset >= IndexSize
          \/ e.type = "directory" /\ e.offset = 0 /\ (e.size = 0 \/ e.size > IndexSize)
      <3> SUFFICES ASSUME ~(place >= IndexSize)
                   PROVE  d.type = "directory" /\ place = 0 /\ n > IndexSize
        BY <1>7
      <3>1. place = d.offset
        BY <1>6
      <3>2. d.type = "directory" /\ d.offset = 0
        BY <1>4, <2>2, <3>1 DEF Placed
      <3>3. CASE fits
        BY <1>1, <1>2, <2>4, <2>5, <3>1, <3>2, <3>3
      <3>4. CASE ~fits
        <4>1. place = 0 /\ ~(place + n <= max)
          BY <2>4, <3>1, <3>2, <3>4
        <4> HIDE DEF n
        <4>2. n > IndexSize
          BY ONLY <1>1, <1>2, <1>12, <4>1
        <4> QED BY <3>1, <3>2, <4>2
      <3> QED BY <3>3, <3>4
    <2>7. ASSUME NEW t \in Taken(index) \ {s} PROVE Extent(e) \cap Extent(index[t]) = {}
      <3>1. t \in 1..Slots /\ t # s /\ index'[t] = index[t] /\ index'[s] = e
        BY <1>1, <1>7
      <3>2. index[t].type # "empty" /\ d.type # "empty"
        BY <1>4 DEF Taken
      <3>3. DOMAIN index' = 1..Slots
        BY <1>7, SlotIs
      <3>4. s \in NonEmpty' /\ t \in NonEmpty'
        BY <1>4, <1>7, <3>1, <3>2, <3>3 DEF NonEmpty, EmptySlots
      <3>5. Extent(index'[s]) \cap Extent(index'[t]) = {}
        BY <2>1, <3>1, <3>4 DEF Overlapping
      <3> QED BY <3>1, <3>5
    <2>8. ASSUME NEW b \in Nat, b + 1 - IndexSize \in 1..Len(data), b < place \/ b >= place + n
          PROVE  data'[b + 1 - IndexSize] = data[b + 1 - IndexSize]
      <3>1. b < place \/ b >= place + d.size
        BY <1>2, <1>3, <1>5, <1>6, <2>8
      <3>2. moved[b + 1 - IndexSize] = data[b + 1 - IndexSize]
        BY <1>8, <2>8, <3>1 DEF MovedTo
      <3>3. CASE fits
        <4>1. b < at \/ b >= at + size
          BY <1>2, <1>6, <2>4, <2>8
        <4>2. CopyIn(data', moved, at, size, src)
          BY <1>14, <3>3
        <4>3. data'[b + 1 - IndexSize] = moved[b + 1 - IndexSize]
          BY <1>9, <2>8, <4>1, <4>2 DEF CopyIn
        <4> QED BY <3>2, <4>3
      <3>4. CASE ~fits
        BY <1>3, <3>2, <3>4
      <3> QED BY <3>3, <3>4
    <2>9. ASSUME NEW t \in Taken(index) \ {s}, NEW b \in Extent(index[t]),
                 b + 1 - IndexSize \in 1..Len(data)
          PROVE  data'[b + 1 - IndexSize] = data[b + 1 - IndexSize]
      <3>1. t \in 1..Slots
        BY <1>1
      <3>2. index[t].offset \in Nat /\ index[t].size \in Nat
        BY <1>1, <3>1
      <3>3. b \in Nat
        BY <3>2 DEF Extent
      <3>4. b \notin Extent(e)
        BY <2>7
      <3>5. b < place \/ b >= place + n
        BY <1>2, <1>6, <1>7, <3>3, <3>4 DEF Extent
      <3> QED BY <2>8, <2>9, <3>3, <3>5
    <2>10. path \in DOMAIN files => content \in Contents /\ Stored(e, data', content)
      <3> SUFFICES ASSUME path \in DOMAIN files
                   PROVE  content \in Contents /\ Stored(e, data', content)
        OBVIOUS
      <3> DEFINE old == files[path]
      <3>1. d.type = "file" /\ old \in Contents /\ Stored(d, data, old)
        BY <1>3, FoundIs
      <3>2. d.offset >= IndexSize /\ place >= IndexSize
        <4>1. d.offset >= IndexSize
          BY <1>1, <1>4, <3>1 DEF Typed
        <4> QED BY <1>6, <4>1
      <3>3. Len(old) = d.size
        BY <3>1 DEF Stored
      <3>4. Kept(place, moved, old)
        <4>1. Moves(s, place) => place + d.size <= RootMax
          BY <2>1 DEF InData
        <4> HIDE DEF old
        <4> QED BY <1>8, <3>1, <3>2, <4>1 DEF MovedTo
      <3>5. CASE fits
        <4>1. content = Grown(old, path, offset, size, TRUE)
          <5>1. fits = TRUE
            <6> HIDE DEF fits
            <6> QED BY <1>17, <3>5
          <5> QED BY <5>1
        <4>2. place + offset + size <= IndexSize + Len(moved)
          BY <1>1, <1>2, <1>6, <1>9, <2>5, <3>5
        <4>3. data' = Copied(moved, place + offset, Source(path, offset, size))
          BY <1>3, <2>4, <3>5 DEF src
        <4> HIDE DEF old, content, n
        <4>4. Kept(place, Copied(moved, place + offset, Source(path, offset, size)),
                   Grown(old, path, offset, size, TRUE))
          BY <1>2, <1>6, <1>9, <3>1, <3>2, <3>4, <4>2, KeptWritten
        <4>5. Kept(place, data', content)
          BY ONLY <4>1, <4>3, <4>4
        <4>6. GrowsTo(content, old, path, offset, size, TRUE)
          BY <1>2, <3>1, <4>1, GrownBoth
        <4>7. content \in Contents /\ Len(content) = n
          BY <1>3, <3>3, <4>6 DEF GrowsTo, n
        <4> QED BY <1>7, <4>5, <4>7, StoredIs
      <3>6. CASE ~fits
        <4>1. content = Grown(old, path, offset, size, FALSE)
          <5>1. fits = FALSE
            <6> HIDE DEF fits
            <6> QED BY <1>17, <3>6
          <5> QED BY <5>1
        <4>2. data' = moved
          BY <1>3, <3>6
        <4> HIDE DEF old, content, n
        <4>3. Kept(place, moved, Grown(old, path, offset, size, FALSE))
          BY <1>2, <3>1, <3>4, KeptGrown
        <4>4. Kept(place, data', content)
          BY ONLY <4>1, <4>2, <4>3
        <4>5. GrowsTo(content, old, path, offset, size, FALSE)
          BY <1>2, <3>1, <4>1, GrownBoth
        <4>6. content \in Contents /\ Len(content) = n
          BY <1>3, <3>3, <4>5 DEF GrowsTo, n
        <4> QED BY <1>7, <4>4, <4>6, StoredIs
      <3> QED BY <3>5, <3>6
    <2> HIDE DEF content, n, fits
    <2>11. e.type = "file" => e.offset >= IndexSize
      BY <1>4, <1>7, <1>16
    <2>12. Rewrites(path, e, data', content)
      <3>1. Len(data) <= Len(data')
        BY <1>1, <1>15
      <3> QED BY <1>3, <1>7, <1>15, <2>6, <2>7, <2>9, <2>10, <2>11, <3>1 DEF Rewrites
    <2>13. files' = FilesNow(path, content)
      BY <1>3, ExpectedIs DEF content
    <2>14. /\ Sound(Put(index, s, e), dirs, FilesNow(path, content), data')
           /\ Taken(Put(index, s, e)) = Taken(index)
      BY ONLY IInv, <1>3, path \in Paths, <2>12, EntryRewritten
    <2>15. Sound(index', dirs', files', data') /\ Taken(index') = Taken(index)
      BY ONLY <1>3, <1>7, <2>13, <2>14
    <2>16. Late(index', max)
      <3> SUFFICES ASSUME NEW t \in Taken(index) PROVE EndOf(index'[t]) <= 2 * max + Slots
        BY <1>12, <2>15 DEF Late
      <3>1. CASE t = s
        BY <1>7, <2>3, <3>1 DEF EndOf
      <3>2. CASE t # s
        <4>1. index'[t] = index[t]
          BY <1>1, <1>7, <3>2
        <4> QED BY <2>2, <4>1 DEF Late
      <3> QED BY <3>1, <3>2
    <2>17. RootMax' = max
      BY <1>15 DEF RootMax, max
    <2>18. Late(index', RootMax')
      BY ONLY <2>16, <2>17
    <2> QED BY <1>3, <2>1, <2>15, <2>18, KernelAgain
  <1> QED BY <1>18, <1>19

-----------------------------------------------------------------------------
(* A new entry, made by the kernel.                                        *)

LEMMA NewIndexIs ==
  ASSUME IInv, NEW path \in Paths, NEW type \in {"file", "directory"}, FsNewIndex(path, type)
  PROVE  /\ booted = TRUE /\ ~torn /\ torn' = FALSE /\ booted' = TRUE
         /\ GetIndex(path) = None /\ Len(path) = 1 /\ GetEmptyIndex # None /\ FindSpace(0) # None
         /\ index' = Put(index, GetEmptyIndex,
              [type |-> type, parent_offset |-> Root, size |-> 0, offset |-> FindSpace(0),
               name |-> path[Len(path)]])
         /\ files' = [p \in DOMAIN files \cup (IF type = "file" THEN {path} ELSE {}) |->
                       IF p = path THEN <<>> ELSE files[p]]
         /\ dirs' = IF type = "directory" THEN dirs \cup {path} ELSE dirs
         /\ data' = data
  <1>1. booted \in BOOLEAN
    BY DEF IInv, Typed
  <1>2. Len(path) = 1
    BY DEF FsNewIndex
  <1>3. index' = Put(index, GetEmptyIndex,
              [type |-> type, parent_offset |-> Root, size |-> 0, offset |-> FindSpace(0),
               name |-> path[Len(path)]])
    BY <1>2 DEF FsNewIndex, Put
  <1> QED BY <1>1, <1>3 DEF FsNewIndex

LEMMA KeptByNewIndex ==
  ASSUME IInv, NEW path \in Paths, NEW type \in {"file", "directory"}, FsNewIndex(path, type)
  PROVE  IInv'
  <1> DEFINE new == GetEmptyIndex
             place == FindSpace(0)
             e == [type |-> type, parent_offset |-> Root, size |-> 0, offset |-> place,
                   name |-> path[Len(path)]]
             max == RootMax
  <1>1. /\ booted = TRUE /\ ~torn /\ torn' = FALSE /\ booted' = TRUE
        /\ GetIndex(path) = None /\ Len(path) = 1 /\ new # None /\ place # None
        /\ index' = Put(index, new, e)
        /\ files' = [p \in DOMAIN files \cup (IF type = "file" THEN {path} ELSE {}) |->
                      IF p = path THEN <<>> ELSE files[p]]
        /\ dirs' = IF type = "directory" THEN dirs \cup {path} ELSE dirs
        /\ data' = data
    BY NewIndexIs
  <1>2. /\ Typed /\ index \in Index /\ data \in Seq(Byte) /\ Len(data) \in Nat
        /\ Taken(index) \in SUBSET (1..Slots)
    BY InvNow
  <1>3. place \in Nat /\ place >= IndexSize /\ place <= 2 * max + Slots
    <2>1. place >= IndexSize /\ Reaches(place, 0, max)
      BY <1>1, FindSpaceIs
    <2> HIDE DEF place, max
    <2>2. place \in Nat /\ place + 0 <= 2 * max + Slots
      BY <2>1 DEF Reaches
    <2> QED BY <2>1, <2>2
  <1>4. ParentOffset(Directory(path)) = Root
    <2>1. path \in Seq(Names) /\ Len(path) # 0
      BY PathIs
    <2>2. PICK slot : Named(index, dirs, DOMAIN files, slot)
      BY <1>1 DEF IInv, Whole
    <2>3. ParentOffset(Directory(path)) = DirSlot(slot, dirs, Directory(path))
      BY <1>2, <2>1, <2>2, GetIndexIs
    <2>4. Directory(path) \in Seq(Names) /\ Len(Directory(path)) = 0
      <3>1. Len(path) = 1
        BY <1>1
      <3>2. Directory(path) \in Seq(Names) /\ Len(Directory(path)) = Len(path) - 1
        BY ONLY <2>1, DirectoryIs
      <3> QED BY ONLY <3>1, <3>2
    <2>5. Directory(path) = <<>>
      BY <2>4
    <2> QED BY <2>3, <2>5 DEF DirSlot
  <1>5. /\ e \in Entries /\ e.type = type /\ e.name = path[Len(path)]
        /\ e.parent_offset = Root /\ e.offset = place /\ e.size = 0
    BY <1>2, <1>3, NewEntryIs
  <1> HIDE DEF e, place, max
  <1>6. Extent(e) = {}
    BY <1>3, <1>5 DEF Extent
  <1>7. <<>> \in Contents /\ Stored(e, data, <<>>) /\ Len(data) <= Len(data)
    BY <1>2, <1>5 DEF Contents, Stored
  <1>8. Enters(path, e, data, <<>>)
    <2>1. Root # None
      BY SlotNumbers
    <2> QED BY <1>1, <1>2, <1>3, <1>4, <1>5, <1>6, <1>7, <2>1 DEF Enters
  <1>9. path \notin DOMAIN files
    <2>1. path \in Seq(Names) /\ Len(path) # 0
      BY PathIs
    <2>2. PICK slot : Named(index, dirs, DOMAIN files, slot)
      BY <1>1 DEF IInv, Whole
    <2>3. /\ GetIndex(path) = IF path \in dirs \cup DOMAIN files THEN slot[path] ELSE None
          /\ path \in dirs \cup DOMAIN files => slot[path] \in 1..Slots
      BY <1>2, <2>1, <2>2, GetIndexIs
    <2> QED BY <1>1, <2>3, SlotNumbers
  <1>10. dirs' = With(dirs, path, e, "directory") /\ files' = FilesWith(path, e, <<>>)
    <2>1. dirs' = With(dirs, path, e, "directory")
      BY <1>1, <1>5 DEF With
    <2>2. CASE type = "file"
      BY <1>1, <1>5, <2>1, <2>2 DEF FilesWith
    <2>3. CASE type # "file"
      <3>1. FilesWith(path, e, <<>>) = files
        BY <1>5, <2>3 DEF FilesWith
      <3>2. files' = [p \in DOMAIN files |-> files[p]]
        BY <1>1, <1>9, <2>3
      <3>3. files = [p \in DOMAIN files |-> files[p]]
        BY <1>2 DEF Typed
      <3> QED BY <2>1, <3>1, <3>2, <3>3
    <2> QED BY <2>2, <2>3
  <1>11. Sound(index', dirs', files', data') /\ Entered(index', e)
    <2>1. Sound(Put(index, GetEmptyIndex, e), With(dirs, path, e, "directory"),
                FilesWith(path, e, <<>>), data)
          /\ Entered(Put(index, GetEmptyIndex, e), e)
      BY ONLY IInv, <1>1, <1>8, path \in Paths, EntryAdded
    <2> QED BY ONLY <1>1, <1>10, <2>1
  <1>12. /\ Taken(index') = Taken(index) \cup {new} /\ index'[new] = e
         /\ \A t \in Taken(index) : index'[t] = index[t]
    BY <1>11 DEF Entered
  <1>13. Late(index, max)
    BY <1>1 DEF IInv, Whole, max
  <1>14. EndOf(index'[new]) <= 2 * max + Slots
    <2>1. place + 0 = place
      BY <1>3
    <2> QED BY <1>3, <1>5, <1>12, <2>1 DEF EndOf
  <1>15. RootMax' = max
    BY <1>1 DEF RootMax, max
  <1> HIDE DEF new
  <1>16. Late(index', RootMax')
    <2>1. Late(index', max)
      BY <1>12, <1>13, <1>14 DEF Late
    <2> QED BY ONLY <1>15, <2>1
  <1> QED BY <1>1, <1>11, <1>16, KernelAgain

-----------------------------------------------------------------------------
(* The theorems.                                                           *)

LEMMA InvAtFirst == WriteInit => IInv
  <1> SUFFICES ASSUME WriteInit PROVE IInv
    OBVIOUS
  <1>1. /\ index = [s \in 1..Slots |-> Empty] /\ files = <<>> /\ dirs = {}
        /\ data = [o \in 1..(ImageSize - IndexSize) |-> NoByte]
        /\ booted = FALSE /\ torn = FALSE
    BY DEF WriteInit, Init
  <1>2. Empty \in Entries /\ Empty.type = "empty" /\ Empty.parent_offset = Root
    BY DEF Empty, Entries, Root
  <1>3. DOMAIN files = {}
    BY <1>1
  <1> HIDE DEF Empty
  <1>4. index \in Index /\ \A s \in 1..Slots : index[s].type = "empty" /\ index[s].parent_offset = Root
    BY <1>1, <1>2 DEF Index
  <1>5. Taken(index) = {}
    BY <1>4, SlotIs DEF Taken
  <1>6. data \in Seq(Byte)
    <2>1. ImageSize - IndexSize \in Nat
      BY ImageAssumption
    <2>2. NoByte \in Byte
      BY DEF Byte
    <2> QED BY <1>1, <2>1, <2>2
  <1>7. Typed
    <2>1. files \in [DOMAIN files -> Contents]
      BY <1>1, <1>3
    <2> QED BY <1>1, <1>3, <1>4, <1>6, <2>1 DEF Typed
  <1>8. Tidy(index) /\ Placed(index) /\ Apart(index) /\ Early(index, RootMax)
    BY <1>4, <1>5 DEF Tidy, Placed, Apart, Early
  <1>9. \A slot : Named(index, dirs, DOMAIN files, slot) /\ Holds(index, data, files, slot)
    BY <1>1, <1>3, <1>5 DEF Named, Holds
  <1> QED BY <1>1, <1>7, <1>8, <1>9 DEF IInv, Whole

LEMMA InvKept == IInv /\ [WriteNext]_writeVars => IInv'
  <1> SUFFICES ASSUME IInv, [WriteNext]_writeVars PROVE IInv'
    OBVIOUS
  <1>1. ASSUME ~booted, Next, UNCHANGED <<booted, torn>> PROVE IInv'
    <2>1. PICK path \in Paths :
            \/ Mkdir(path)
            \/ \E size \in Sizes : Add(path, size) \/ AddFails(path, size)
      BY <1>1 DEF Next
    <2>2. CASE Mkdir(path)
      BY <1>1, <2>2, KeptByMkdir
    <2>3. ASSUME NEW size \in Sizes, Add(path, size) PROVE IInv'
      BY <1>1, <2>3, KeptByAdd
    <2>4. ASSUME NEW size \in Sizes, AddFails(path, size) PROVE IInv'
      BY <1>1, <2>4, KeptByAddFails
    <2> QED BY <2>1, <2>2, <2>3, <2>4
  <1>2. CASE Boot
    BY <1>2, KeptByBoot
  <1>3. ASSUME NEW path \in Paths, NEW offset \in WriteOffsets, NEW size \in WriteSizes,
               FsWrite(path, offset, size)
        PROVE  IInv'
    BY <1>3, KeptByWrite
  <1>4. ASSUME NEW path \in Paths, NEW offset \in WriteOffsets, NEW size \in WriteSizes,
               FsWriteLarger(path, offset, size)
        PROVE  IInv'
    BY <1>4, KeptByWriteLarger
  <1>5. ASSUME NEW path \in Paths, NEW type \in {"file", "directory"}, FsNewIndex(path, type)
        PROVE  IInv'
    BY <1>5, KeptByNewIndex
  <1>6. CASE UNCHANGED writeVars
    <2>1. /\ index' = index /\ data' = data /\ files' = files /\ dirs' = dirs
          /\ booted' = booted /\ torn' = torn
      BY <1>6 DEF writeVars, vars
    <2>2. Typed'
      BY <2>1 DEF IInv, Typed
    <2>3. RootMax' = RootMax
      BY <2>1 DEF RootMax
    <2>4. Whole => Whole'
      BY <2>1, <2>3 DEF Whole
    <2> QED BY <2>1, <2>2, <2>4 DEF IInv
  <1> QED BY <1>1, <1>2, <1>3, <1>4, <1>5, <1>6 DEF WriteNext

\* Whatever the tools add, make and fail to add, and whatever the kernel writes and makes
\* after that, the invariant holds.
THEOREM ImageInvariant == WriteSpec => []IInv
  BY InvAtFirst, InvKept, PTL DEF WriteSpec

\* Slots keep their types, and the data of a file stay behind the index.
THEOREM ImageTypes == WriteSpec => []TypeOK
  BY ImageInvariant, InvTypes, PTL

\* Every file that was made is found by its path and reads back what was last written to
\* it, until the image is torn.
THEOREM FilesReadBack == WriteSpec => []ReadsBack
  BY ImageInvariant, InvReads, PTL

\* The list of a directory is exactly what was made in it, until the image is torn.
THEOREM ListsAreExact == WriteSpec => []ListExact
  BY ImageInvariant, InvLists, PTL

\* Resize leaves a file with room behind it where it is.
THEOREM RoomIsFound == WriteSpec => []RoomIsUsed
  BY ImageTypes, InvRoom, PTL

\* Both places that FindSpace takes have been compared with every entry, and neither is in
\* front of the index.
LEMMA FoundFree ==
  ASSUME IInv, booted, ~torn, NEW size \in Nat, FindSpace(size) # None
  PROVE  FindSpace(size) \in Nat /\ Free(FindSpace(size), NonEmpty, 0)
  <1> DEFINE place == FindSpace(size)
             S == {s \in NonEmpty : RoomBefore(s, size) \/ RoomAfter(s, size)}
             s == FirstOf(S)
  <1>1. place \in Nat
    BY FindSpaceIs DEF Reaches
  <1>2. CASE NonEmpty = {}
    BY <1>1, <1>2 DEF Free
  <1>3. CASE NonEmpty # {}
    <2>1. s # None /\ place = IF RoomBefore(s, size) THEN Wrapped(index[s].offset - size)
                              ELSE EntryEnd(s) + size
      BY <1>3 DEF FindSpace
    <2>2. S \in SUBSET Nat
      BY InvNow, SlotNumbers
    <2>3. s \in S
      <3>1. S # {}
        BY <2>1 DEF FirstOf
      <3> HIDE DEF S
      <3> QED BY <2>2, <3>1, FirstOfIs
    <2>4. RoomBefore(s, size) \/ RoomAfter(s, size)
      BY <2>3
    <2> HIDE DEF s, S, place
    <2>5. CASE RoomBefore(s, size)
      <3>1. place = Wrapped(index[s].offset - size) /\ Free(Wrapped(index[s].offset - size), NonEmpty, 0)
        BY <2>1, <2>5 DEF RoomBefore
      <3>2. Free(place, NonEmpty, 0)
        BY <3>1
      <3> QED BY <1>1, <3>2 DEF place
    <2>6. CASE ~RoomBefore(s, size)
      <3>1. place = EntryEnd(s) + size /\ Free(EntryEnd(s) + size, NonEmpty, 0)
        BY <2>1, <2>4, <2>6 DEF RoomAfter
      <3>2. Free(place, NonEmpty, 0)
        BY <3>1
      <3> QED BY <1>1, <3>2 DEF place
    <2> QED BY <2>5, <2>6
  <1> QED BY <1>2, <1>3

LEMMA InvFound == IInv => FoundPlaceIsFree
  <1> SUFFICES ASSUME IInv, booted, ~torn, NEW size \in 0..RootMax, FindSpace(size) # None
               PROVE  /\ FindSpace(size) >= IndexSize
                      /\ \A s \in NonEmpty : FindSpace(size) \notin Extent(index[s])
    BY DEF FoundPlaceIsFree
  <1> DEFINE place == FindSpace(size)
  <1>1. size \in Nat
    BY InvNow
  <1>2. place >= IndexSize /\ place \in Nat /\ Free(place, NonEmpty, 0)
    BY <1>1, FindSpaceIs, FoundFree
  <1> HIDE DEF place
  <1>3. ASSUME NEW s \in NonEmpty PROVE place \notin Extent(index[s])
    <2>1. index[s].offset \in Nat /\ index[s].size \in Nat
      BY InvNow
    <2>2. ~(index[s].offset = place
              \/ (index[s].offset < place /\ index[s].offset + index[s].size + 0 > place))
      BY <1>2 DEF Free, EntryEnd
    <2>3. ~(place >= index[s].offset /\ place <= index[s].offset + index[s].size - 1)
      BY <1>2, <2>1, <2>2
    <2> QED BY <1>2, <2>1, <2>3 DEF Extent
  <1> QED BY <1>2, <1>3 DEF place

\* The place that FindSpace finds for a directory or for a file that is moved is behind
\* the index and in the data of no entry, although it is the end of the space that was
\* looked for, and although offsets may wrap.
THEOREM FoundPlacesAreFree == WriteSpec => []FoundPlaceIsFree
  BY ImageInvariant, InvFound, PTL
=============================================================================
