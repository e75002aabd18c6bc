------------------------------ MODULE Weighted ------------------------------
(***************************************************************************)
(* The total weight of a set whose elements weigh w[x], without recursion: *)
(* each element is replaced by w[x] units and the units are counted.  What *)
(* the proofs about budgets and limits need to know of it is proved here,  *)
(* for every finite set and every natural weight.                          *)
(***************************************************************************)
EXTENDS Integers, FiniteSets, FiniteSetTheorems, TLAPS

Units(S, w) == UNION {{x} \X (1..w[x]) : x \in S}
Weight(S, w) == Cardinality(Units(S, w))

-----------------------------------------------------------------------------
(* A finite set of weights is a finite number of units.                    *)
LEMMA UnitsFinite ==
    ASSUME NEW S, IsFiniteSet(S), NEW w, \A x \in S : w[x] \in Nat
    PROVE  IsFiniteSet(Units(S, w))
<1> DEFINE f == [x \in S |-> {x} \X (1..w[x])]
           T == {{x} \X (1..w[x]) : x \in S}
<1>1. f \in Surjection(S, T)
  BY DEF Surjection
<1>2. IsFiniteSet(T)
  BY <1>1, FS_Surjection
<1>3. ASSUME NEW x \in S PROVE IsFiniteSet({x} \X (1..w[x]))
  <2>1. IsFiniteSet({x})
    BY FS_Singleton
  <2>2. IsFiniteSet(1..w[x])
    BY <1>3, FS_Interval
  <2>. QED  BY <2>1, <2>2, FS_Product
<1>4. \A U \in T : IsFiniteSet(U)
  BY <1>3
<1>5. IsFiniteSet(UNION T)
  BY <1>2, <1>4, FS_UNION
<1>. QED  BY <1>5 DEF Units

(* The weight is a natural number.                                         *)
LEMMA WeightNat ==
    ASSUME NEW S, IsFiniteSet(S), NEW w, \A x \in S : w[x] \in Nat
    PROVE  Weight(S, w) \in Nat
BY UnitsFinite, FS_CardinalityType DEF Weight

(* Nothing weighs nothing.                                                 *)
LEMMA WeightEmpty ==
    ASSUME NEW w
    PROVE  Weight({}, w) = 0
<1>1. Units({}, w) = {}
  BY DEF Units
<1>. QED  BY <1>1, FS_EmptySet DEF Weight

(* More elements weigh at least as much.                                   *)
LEMMA WeightMonotone ==
    ASSUME NEW A, NEW B, A \subseteq B, IsFiniteSet(B),
           NEW w, \A x \in B : w[x] \in Nat
    PROVE  Weight(A, w) <= Weight(B, w)
<1>1. Units(A, w) \in SUBSET Units(B, w)
  BY DEF Units
<1>. QED  BY <1>1, UnitsFinite, FS_Subset DEF Weight

(* A further element adds exactly its weight.                              *)
LEMMA WeightAdd ==
    ASSUME NEW S, IsFiniteSet(S), NEW y, y \notin S,
           NEW w, \A x \in S \cup {y} : w[x] \in Nat
    PROVE  Weight(S \cup {y}, w) = Weight(S, w) + w[y]
<1> DEFINE V == {y} \X (1..w[y])
<1>1. w[y] \in Nat /\ \A x \in S : w[x] \in Nat
  OBVIOUS
<1>2. IsFiniteSet(V) /\ Cardinality(V) = w[y]
  <2>1. IsFiniteSet({y}) /\ Cardinality({y}) = 1
    BY FS_Singleton
  <2>2. IsFiniteSet(1..w[y]) /\ Cardinality(1..w[y]) = w[y]
    <3> DEFINE n == w[y]
    <3>1. n \in Nat
      BY <1>1
    <3> HIDE DEF n
    <3>2. IsFiniteSet(1..n) /\ Cardinality(1..n) = IF 1 > n THEN 0 ELSE n - 1 + 1
      BY <3>1, FS_Interval
    <3>3. (IF 1 > n THEN 0 ELSE n - 1 + 1) = n
      BY <3>1
    <3>. QED  BY <3>2, <3>3 DEF n
  <2>3. IsFiniteSet(V) /\ Cardinality(V) = 1 * w[y]
    BY <2>1, <2>2, FS_Product
  <2>4. 1 * w[y] = w[y]
    BY <1>1
  <2>. QED  BY <2>1, <2>2, <2>3, <2>4
<1>3. Units(S \cup {y}, w) = Units(S, w) \cup V
  BY DEF Units
<1>4. Units(S, w) \cap V = {}
  BY DEF Units
<1>5. IsFiniteSet(Units(S, w)) /\ Cardinality(Units(S, w)) \in Nat
  BY <1>1, UnitsFinite, FS_CardinalityType
<1>6. Cardinality(Units(S, w) \cup V) = Cardinality(Units(S, w)) + Cardinality(V)
                                        - Cardinality(Units(S, w) \cap V)
  BY <1>2, <1>5, FS_Union
<1>7. Cardinality(Units(S, w) \cap V) = 0
  BY <1>4, FS_EmptySet
<1>8. Weight(S \cup {y}, w) = Cardinality(Units(S, w) \cup V)
  BY <1>3 DEF Weight
<1>9. Weight(S, w) = Cardinality(Units(S, w))
  BY DEF Weight
<1> HIDE DEF V
<1>. QED  BY <1>1, <1>2, <1>5, <1>6, <1>7, <1>8, <1>9

(* An element taken out takes exactly its weight.                          *)
LEMMA WeightRemove ==
    ASSUME NEW S, IsFiniteSet(S), NEW y \in S,
           NEW w, \A x \in S : w[x] \in Nat
    PROVE  Weight(S \ {y}, w) = Weight(S, w) - w[y]
<1> DEFINE R == S \ {y}
<1>1. R \cup {y} = S /\ y \notin R
  OBVIOUS
<1>2. IsFiniteSet(R)
  BY FS_Subset
<1>3. \A x \in R \cup {y} : w[x] \in Nat
  OBVIOUS
<1>4. Weight(R, w) \in Nat
  BY <1>2, <1>3, WeightNat
<1> HIDE DEF R
<1>5. Weight(R \cup {y}, w) = Weight(R, w) + w[y]
  BY <1>1, <1>2, <1>3, WeightAdd
<1>6. Weight(S, w) = Weight(R, w) + w[y]
  BY <1>1, <1>5, Zenon
<1>7. w[y] \in Nat
  BY <1>3
<1>8. Weight(R, w) = Weight(S, w) - w[y]
  BY <1>4, <1>6, <1>7
<1>. QED  BY <1>8 DEF R

(* The weight of all when one element comes to weigh something else.       *)
LEMMA WeightChange ==
    ASSUME NEW S, IsFiniteSet(S), NEW y \in S, NEW w \in [S -> Nat], NEW v \in Nat
    PROVE  Weight(S, [w EXCEPT ![y] = v]) = Weight(S, w) - w[y] + v
<1> PICK u : u = [w EXCEPT ![y] = v]
  OBVIOUS
<1> PICK R : R = S \ {y}
  OBVIOUS
<1>1. R \cup {y} = S /\ y \notin R /\ R \subseteq S /\ IsFiniteSet(R)
  BY FS_Subset
<1>2. u \in [S -> Nat] /\ u[y] = v /\ \A x \in R : u[x] = w[x]
  OBVIOUS
<1>3. Units(R, u) = Units(R, w)
  BY <1>2 DEF Units
<1>4. Weight(S, u) = Weight(R, u) + v
  <2>1. \A x \in R \cup {y} : u[x] \in Nat
    BY <1>1, <1>2
  <2>2. Weight(R \cup {y}, u) = Weight(R, u) + u[y]
    BY ONLY <1>1, <2>1, WeightAdd
  <2>. QED  BY <1>1, <1>2, <2>2
<1>5. Weight(R, w) = Weight(S, w) - w[y]
  BY WeightRemove
<1>6. Weight(R, u) = Weight(R, w)
  BY <1>3 DEF Weight
<1>. QED  BY <1>4, <1>5, <1>6

(* What weighs nothing each weighs nothing together.                       *)
LEMMA WeightOfNothing ==
    ASSUME NEW S, NEW w, \A x \in S : w[x] = 0
    PROVE  Weight(S, w) = 0
<1>1. \A x \in S : 1..w[x] = {}
  OBVIOUS
<1>2. Units(S, w) = {}
  BY <1>1 DEF Units
<1>. QED  BY <1>2, FS_EmptySet DEF Weight

=============================================================================
