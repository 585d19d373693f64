------------------------------ MODULE NatSets ------------------------------
(***************************************************************************)
(* Facts about sets of natural numbers that the proofs of the design need, *)
(* from the counting theorems of the library: the principle of induction   *)
(* for a set, and the least and the greatest element.                      *)
(***************************************************************************)
EXTENDS Integers, FiniteSets, FiniteSetTheorems, TLAPS

(* A set of naturals with 0 and the successor of each element is all of Nat. *)
(* If t were missing, the successor would map the members below t one to one *)
(* to themselves without 0.                                                  *)
LEMMA SetInduction ==
  ASSUME NEW U \in SUBSET Nat, 0 \in U, \A n \in U : n + 1 \in U
  PROVE  U = Nat
<1> SUFFICES ASSUME NEW t \in Nat, t \notin U PROVE FALSE
  OBVIOUS
<1> DEFINE V == {n \in U : n < t}
           W == V \ {0}
           succ == [n \in V |-> n + 1]
<1>1. V \in SUBSET (0..t)
  <2>1. \A n \in V : n \in 0..t
    OBVIOUS
  <2> HIDE DEF V
  <2> QED BY <2>1
<1>2. IsFiniteSet(V)
  <2> HIDE DEF V
  <2>1. 0 \in Int /\ t \in Int
    OBVIOUS
  <2>2. IsFiniteSet(0..t)
    BY <2>1, FS_Interval
  <2> QED BY <1>1, <2>2, FS_Subset
<1>3. 0 \in V
  OBVIOUS
<1>4. IsFiniteSet(W) /\ Cardinality(W) = Cardinality(V) - 1
  <2> HIDE DEF V
  <2> QED BY <1>2, <1>3, FS_RemoveElement
<1>5. succ \in [V -> W]
  <2> SUFFICES ASSUME NEW n \in V PROVE n + 1 \in W
    OBVIOUS
  <2>1. n + 1 \in U /\ n + 1 <= t /\ n + 1 # 0
    OBVIOUS
  <2> QED BY <2>1
<1>6. Cardinality(W) < Cardinality(V)
  BY <1>2, <1>4, FS_CardinalityType
<1>7. PICK x, y \in V : x # y /\ succ[x] = succ[y]
  <2> HIDE DEF V, W, succ
  <2> QED BY <1>2, <1>4, <1>5, <1>6, FS_PigeonHole
<1> QED BY <1>7

(* A nonempty set of naturals has a least element.                           *)
LEMMA LeastElement ==
  ASSUME NEW s \in SUBSET Nat, s # {}
  PROVE  \E x \in s : \A y \in s : x <= y
<1> SUFFICES ASSUME \A x \in s : \E y \in s : ~(x <= y) PROVE FALSE
  OBVIOUS
<1> DEFINE Below == {n \in Nat : \A x \in s : n < x}
<1>1. 0 \in Below
  <2> SUFFICES ASSUME NEW x \in s PROVE 0 < x
    OBVIOUS
  <2>1. PICK y \in s : ~(x <= y)
    OBVIOUS
  <2> QED BY <2>1
<1>2. ASSUME NEW n \in Below PROVE n + 1 \in Below
  <2> SUFFICES ASSUME NEW x \in s PROVE n + 1 < x
    OBVIOUS
  <2>1. PICK y \in s : ~(x <= y)
    OBVIOUS
  <2>2. n < y /\ y < x
    BY <2>1
  <2> QED BY <2>2
<1>3. Below = Nat
  <2> HIDE DEF Below
  <2>1. Below \in SUBSET Nat
    BY DEF Below
  <2> QED BY <1>1, <1>2, <2>1, SetInduction
<1>4. PICK x \in s : TRUE
  OBVIOUS
<1> QED BY <1>3, <1>4

(* A finite nonempty set of naturals has a greatest element, by induction on *)
(* its cardinality.                                                          *)
LEMMA GreatestElement ==
  ASSUME NEW s \in SUBSET Nat, IsFiniteSet(s), s # {}
  PROVE  \E x \in s : \A y \in s : y <= x
<1> DEFINE Bounded(r) == \E x \in r : \A y \in r : y <= x
           Sized(n) == \A r \in SUBSET Nat :
                         IsFiniteSet(r) /\ r # {} /\ Cardinality(r) = n => Bounded(r)
           U == {n \in Nat : Sized(n)}
<1>1. 0 \in U
  BY FS_EmptySet
<1>2. ASSUME NEW n \in U PROVE n + 1 \in U
  <2> SUFFICES ASSUME NEW r \in SUBSET Nat, IsFiniteSet(r), r # {},
                      Cardinality(r) = n + 1
               PROVE  Bounded(r)
    OBVIOUS
  <2>1. PICK e \in r : TRUE
    OBVIOUS
  <2> DEFINE rest == r \ {e}
  <2>2. IsFiniteSet(rest) /\ Cardinality(rest) = n
    <3>1. n \in Nat /\ (n + 1) - 1 = n
      OBVIOUS
    <3>2. IsFiniteSet(rest) /\ Cardinality(rest) = Cardinality(r) - 1
      BY <2>1, FS_RemoveElement, Zenon
    <3> QED BY <3>1, <3>2, Zenon
  <2>3. CASE rest = {}
    <3>1. \A y \in r : y = e
      BY <2>3
    <3> QED BY <2>1, <3>1
  <2>4. CASE rest # {}
    <3>1. Bounded(rest)
      <4>1. Sized(n)
        OBVIOUS
      <4>2. rest \in SUBSET Nat
        OBVIOUS
      <4> HIDE DEF rest
      <4> QED BY <2>2, <2>4, <4>1, <4>2
    <3>2. PICK x \in rest : \A y \in rest : y <= x
      BY <3>1
    <3>3. CASE e <= x
      <4>1. \A y \in r : y <= x
        BY <3>2, <3>3
      <4> QED BY <3>2, <4>1
    <3>4. CASE ~(e <= x)
      <4>1. \A y \in r : y <= e
        BY <2>1, <3>2, <3>4
      <4> QED BY <2>1, <4>1
    <3> QED BY <3>3, <3>4
  <2> QED BY <2>3, <2>4
<1>3. U = Nat
  <2>1. U \in SUBSET Nat
    OBVIOUS
  <2> HIDE DEF U
  <2> QED BY <1>1, <1>2, <2>1, SetInduction
<1>4. Cardinality(s) \in U
  BY <1>3, FS_CardinalityType
<1> QED BY <1>4

=============================================================================
