------------------------------ MODULE Induction ------------------------------
(***************************************************************************)
(* Induction over the turns of a loop and the values of a recursive        *)
(* function, without an induction schema: the least turn at which          *)
(* something fails is looked at.                                           *)
(***************************************************************************)
EXTENDS Integers, WellFoundedInduction, TLAPS

-----------------------------------------------------------------------------
(* One operation after the other.                                          *)

\* What holds before the first and is kept by each holds after the last.
LEMMA KeptToTheEnd ==
  ASSUME NEW K, NEW len \in Nat, NEW f, f[0] \in K,
         \A n \in 1..len : f[n - 1] \in K => f[n] \in K
  PROVE  f[len] \in K
  <1> DEFINE Bad == {n \in 0..len : f[n] \notin K}
  <1> SUFFICES ASSUME Bad # {} PROVE FALSE
    OBVIOUS
  <1>1. Bad \in SUBSET Nat
    OBVIOUS
  <1>2. PICK j \in Bad : \A i \in Bad : <<i, j>> \notin OpToRel(<, Nat)
    BY <1>1, WFMin, NatLessThanWellFounded
  <1>3. \A i \in Bad : ~(i < j)
    BY <1>1, <1>2 DEF OpToRel
  <1>4. j \in 1..len /\ f[j] \notin K
    <2>1. j \in 0..len /\ f[j] \notin K
      OBVIOUS
    <2>2. j # 0
      BY <2>1
    <2> QED BY <2>1, <2>2
  <1>5. j - 1 \notin Bad
    BY <1>3, <1>4
  <1>6. f[j - 1] \in K
    BY <1>4, <1>5
  <1> QED BY <1>4, <1>6

\* A sequence of operations, each of which leads from K to K, can be run.
Runs(K, k, len, G) ==
  {f \in [0..len -> K] : f[0] = k /\ \A n \in 1..len : f[n] = G[n][f[n - 1]]}

LEMMA CanBeRun ==
  ASSUME NEW K, NEW k \in K, NEW len \in Nat, NEW G \in [1..len -> [K -> K]]
  PROVE  Runs(K, k, len, G) # {}
  <1> DEFINE First(m) == {f \in [0..len -> K] :
                            f[0] = k /\ \A n \in 1..m : f[n] = G[n][f[n - 1]]}
             Bad == {m \in 0..len : First(m) = {}}
  <1>1. Bad = {}
    <2> SUFFICES ASSUME Bad # {} PROVE FALSE
      OBVIOUS
    <2>1. Bad \in SUBSET Nat
      OBVIOUS
    <2>2. PICK j \in Bad : \A i \in Bad : <<i, j>> \notin OpToRel(<, Nat)
      BY <2>1, WFMin, NatLessThanWellFounded
    <2>3. \A i \in Bad : ~(i < j)
      BY <2>1, <2>2 DEF OpToRel
    <2>4. CASE j = 0
      <3>1. [n \in 0..len |-> k] \in First(0)
        OBVIOUS
      <3> QED BY <2>2, <2>4, <3>1
    <2>5. CASE j # 0
      <3>1. j \in 1..len /\ j - 1 \in 0..len /\ j - 1 < j
        <4>1. j \in 0..len
          OBVIOUS
        <4> QED BY <4>1, <2>5
      <3>2. PICK f \in [0..len -> K] : f[0] = k /\ \A n \in 1..(j - 1) : f[n] = G[n][f[n - 1]]
        BY <2>3, <3>1
      <3> DEFINE g == [f EXCEPT ![j] = G[j][f[j - 1]]]
      <3>3. G[j][f[j - 1]] \in K
        BY <3>1
      <3>4. g \in [0..len -> K] /\ g[0] = k /\ g[j] = G[j][f[j - 1]]
        BY <3>1, <3>2, <3>3
      <3>5. \A n \in 0..len : n # j => g[n] = f[n]
        BY <3>1, <3>2
      <3>6. \A n \in 1..j : g[n] = G[n][g[n - 1]]
        <4> TAKE n \in 1..j
        <4>1. g[n - 1] = f[n - 1]
          BY <3>1, <3>5
        <4>2. CASE n = j
          BY <3>4, <4>1, <4>2
        <4>3. CASE n # j
          BY <3>1, <3>2, <3>5, <4>1, <4>3
        <4> QED BY <4>2, <4>3
      <3>7. g \in First(j)
        BY <3>4, <3>6
      <3> QED BY <2>2, <3>7
    <2> QED BY <2>4, <2>5
  <1>2. First(len) # {}
    <2>1. len \in 0..len
      OBVIOUS
    <2> QED BY <1>1, <2>1
  <1> QED BY <1>2 DEF Runs

\* What holds of 0, and of each number if it holds of the one before.
LEMMA ReachesAll ==
  ASSUME NEW len \in Nat, NEW S, 0 \in S, \A n \in 1..len : n - 1 \in S => n \in S
  PROVE  \A n \in 0..len : n \in S
  <1> TAKE n \in 0..len
  <1> DEFINE h == [m \in 0..n |-> m]
  <1>1. n \in Nat /\ h[0] = 0 /\ h[n] = n /\ \A m \in 1..n : h[m - 1] = m - 1 /\ h[m] = m
    OBVIOUS
  <1>2. \A m \in 1..n : m - 1 \in S => m \in S
    OBVIOUS
  <1>3. h[0] \in S /\ \A m \in 1..n : h[m - 1] \in S => h[m] \in S
    BY <1>1, <1>2
  <1> HIDE DEF h
  <1>4. h[n] \in S
    BY <1>1, <1>3, KeptToTheEnd
  <1> QED BY <1>1, <1>4

\* Numbers have a least one among them, and a greatest one if they are bounded.
LEMMA LeastOf ==
  ASSUME NEW S \in SUBSET Nat, S # {}
  PROVE  \E j \in S : \A i \in S : j <= i
  <1>1. PICK j \in S : \A i \in S : <<i, j>> \notin OpToRel(<, Nat)
    BY WFMin, NatLessThanWellFounded
  <1>2. \A i \in S : ~(i < j)
    BY <1>1 DEF OpToRel
  <1>3. \A i \in S : j <= i
    BY <1>2
  <1> QED BY <1>3

LEMMA GreatestOf ==
  ASSUME NEW S \in SUBSET Nat, S # {}, NEW b \in Nat, \A i \in S : i <= b
  PROVE  \E j \in S : \A i \in S : i <= j
  <1> DEFINE Over == {c \in Nat : \A i \in S : i <= c}
  <1>1. b \in Over /\ Over \in SUBSET Nat
    OBVIOUS
  <1>2. PICK c \in Over : \A d \in Over : c <= d
    BY <1>1, LeastOf
  <1>3. c \in Nat /\ \A i \in S : i <= c
    BY <1>2
  <1>4. c \in S
    <2> SUFFICES ASSUME c \notin S PROVE FALSE
      OBVIOUS
    <2>1. \A i \in S : i \in Nat /\ i # c
      OBVIOUS
    <2>2. PICK s \in S : s \in Nat
      OBVIOUS
    <2>2a. c # 0
      BY <1>3, <2>1
    <2>3. c - 1 \in Nat /\ \A i \in S : i <= c - 1
      BY <1>3, <2>1, <2>2
    <2>4. c - 1 \in Over
      BY <2>3
    <2> QED BY <1>2, <1>3, <2>4
  <1> QED BY <1>3, <1>4
=============================================================================
