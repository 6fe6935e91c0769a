---------------------------- MODULE TotalTheorems ----------------------------
(***************************************************************************)
(* What the proofs of the components need of totals and of the first       *)
(* member of an ordered set, which the code finds with sum(), sorted() and *)
(* by going through a list.                                                *)
(***************************************************************************)
EXTENDS Totals, Integers, FiniteSetTheorems, WellFoundedInduction, TLAPS

IsMeasure(f) ==
    /\ IsFiniteSet(DOMAIN f)
    /\ \A x \in DOMAIN f : f[x] \in Nat

LEMMA UnitsMember ==
    ASSUME NEW f, NEW x, NEW i
    PROVE  <<x, i>> \in Units(f) <=> x \in DOMAIN f /\ i \in 1..f[x]
  BY DEF Units

LEMMA UnitsArePairs ==
    ASSUME NEW f, NEW u \in Units(f)
    PROVE  \E x \in DOMAIN f : \E i \in 1..f[x] : u = <<x, i>>
  BY DEF Units

LEMMA RowSize ==
    ASSUME NEW x, NEW n \in Nat
    PROVE  IsFiniteSet({x} \X (1..n)) /\ Cardinality({x} \X (1..n)) = n
  <1>1. IsFiniteSet(1..n) /\ Cardinality(1..n) = n
    <2>1. 1 \in Int /\ n \in Int
      OBVIOUS
    <2>2. Cardinality(1..n) = IF 1 > n THEN 0 ELSE n - 1 + 1
      BY <2>1, FS_Interval
    <2> QED BY <2>1, <2>2, FS_Interval
  <1>2. IsFiniteSet({x}) /\ Cardinality({x}) = 1
    BY FS_Singleton
  <1>3. /\ IsFiniteSet({x} \X (1..n))
        /\ Cardinality({x} \X (1..n)) = Cardinality({x}) * Cardinality(1..n)
    BY <1>1, <1>2, FS_Product
  <1> QED BY <1>1, <1>2, <1>3

(* A finite set of numbers has a total.                                    *)
LEMMA TotalIsNat ==
    ASSUME NEW f, IsMeasure(f)
    PROVE  IsFiniteSet(Units(f)) /\ Total(f) \in Nat
  <1> DEFINE rows == {{x} \X (1..f[x]) : x \in DOMAIN f}
             row  == [x \in DOMAIN f |-> {x} \X (1..f[x])]
  <1>1. row \in Surjection(DOMAIN f, rows)
    BY DEF Surjection
  <1>2. IsFiniteSet(rows)
    BY <1>1, FS_Surjection DEF IsMeasure
  <1>3. ASSUME NEW x \in DOMAIN f
        PROVE  IsFiniteSet({x} \X (1..f[x]))
    BY RowSize DEF IsMeasure
  <1>4. IsFiniteSet(UNION rows)
    BY <1>2, <1>3, FS_UNION
  <1> QED BY <1>4, FS_CardinalityType DEF Units, Total

(* More terms and larger terms make no smaller total ...                   *)
LEMMA TotalMonotone ==
    ASSUME NEW f, NEW g, IsMeasure(f), IsMeasure(g), DOMAIN f \subseteq DOMAIN g,
           \A x \in DOMAIN f : f[x] =< g[x]
    PROVE  Units(f) \subseteq Units(g) /\ Total(f) =< Total(g)
  <1>1. ASSUME NEW u \in Units(f)
        PROVE  u \in Units(g)
    <2>1. PICK x \in DOMAIN f : \E i \in 1..f[x] : u = <<x, i>>
      BY UnitsArePairs
    <2>2. PICK i \in 1..f[x] : u = <<x, i>>
      BY <2>1
    <2>3. x \in DOMAIN g /\ i \in 1..g[x]
      BY <2>2 DEF IsMeasure
    <2> QED BY <2>2, <2>3, UnitsMember
  <1> QED BY <1>1, TotalIsNat, FS_Subset DEF Total

(* ... and a larger one if a term is larger or new and positive.           *)
LEMMA TotalStrict ==
    ASSUME NEW f, NEW g, IsMeasure(f), IsMeasure(g), DOMAIN f \subseteq DOMAIN g,
           \A x \in DOMAIN f : f[x] =< g[x],
           NEW x \in DOMAIN g, IF x \in DOMAIN f THEN f[x] < g[x] ELSE g[x] > 0
    PROVE  Total(f) < Total(g)
  <1>1. g[x] \in Nat /\ g[x] > 0 /\ (x \in DOMAIN f => f[x] \in Nat)
    BY DEF IsMeasure
  <1>2. <<x, g[x]>> \in Units(g) /\ <<x, g[x]>> \notin Units(f)
    BY <1>1, UnitsMember
  <1> QED BY <1>2, TotalMonotone, TotalIsNat, FS_Subset DEF Total

(* One more term adds itself.                                              *)
LEMMA TotalAddsTerm ==
    ASSUME NEW f, NEW g, IsMeasure(f), IsMeasure(g), NEW x, x \notin DOMAIN f,
           DOMAIN g = DOMAIN f \union {x}, \A y \in DOMAIN f : g[y] = f[y]
    PROVE  Total(g) = Total(f) + g[x]
  <1> DEFINE own == {x} \X (1..g[x])
  <1>1. g[x] \in Nat
    BY DEF IsMeasure
  <1>2. IsFiniteSet(own) /\ Cardinality(own) = g[x]
    BY <1>1, RowSize
  <1>3. Units(g) = Units(f) \union own
    BY DEF Units
  <1>4. Units(f) \cap own = {}
    BY DEF Units
  <1>5. IsFiniteSet(Units(f)) /\ Cardinality(Units(f)) \in Nat
    BY TotalIsNat DEF Total
  <1>6. Cardinality(Units(f) \cap own) = 0
    BY <1>4, FS_EmptySet
  <1>7. Cardinality(Units(f) \union own)
           = Cardinality(Units(f)) + Cardinality(own) - Cardinality(Units(f) \cap own)
    BY <1>2, <1>5, FS_Union
  <1> QED BY <1>1, <1>2, <1>3, <1>5, <1>6, <1>7 DEF Total

LEMMA EmptyTotal ==
    ASSUME NEW f, DOMAIN f = {}
    PROVE  Total(f) = 0
  BY FS_EmptySet DEF Total, Units

-----------------------------------------------------------------------------
StrictlyOrders(R, S) ==
    /\ \A x \in S : <<x, x>> \notin R
    /\ \A x, y, z \in S : <<x, y>> \in R /\ <<y, z>> \in R => <<x, z>> \in R

(* In a finite set that is not empty, under any strict order, there is a   *)
(* member that no other precedes.                                          *)
LEMMA FiniteHasFirst ==
    ASSUME NEW S, IsFiniteSet(S), S # {}, NEW R, StrictlyOrders(R, S)
    PROVE  \E x \in S : \A y \in S : <<y, x>> \notin R
  <1> DEFINE before(x) == {y \in S : <<y, x>> \in R}
             size      == [x \in S |-> Cardinality(before(x))]
             sizes     == {size[x] : x \in S}
  <1>1. ASSUME NEW x \in S
        PROVE  IsFiniteSet(before(x)) /\ Cardinality(before(x)) \in Nat
    BY FS_Subset, FS_CardinalityType
  <1>2. \A x \in S : size[x] = Cardinality(before(x)) /\ size[x] \in Nat
    BY <1>1
  <1> HIDE DEF size
  <1>3. PICK n \in sizes : \A m \in sizes : <<m, n>> \notin OpToRel(<, Nat)
    <2>1. sizes \subseteq Nat
      BY <1>2
    <2>2. sizes # {}
      <3>1. PICK x : x \in S
        OBVIOUS
      <3>2. size[x] \in sizes
        BY <3>1
      <3> QED BY <3>2
    <2> QED BY <2>1, <2>2, NatLessThanWellFounded, WFMin
  <1>4. PICK x \in S : n = Cardinality(before(x))
    BY <1>2
  <1>5. ASSUME NEW y \in S, <<y, x>> \in R
        PROVE  FALSE
    <2>1. before(y) \subseteq before(x) /\ y \in before(x) /\ y \notin before(y)
      BY <1>5 DEF StrictlyOrders
    <2>2. Cardinality(before(y)) < Cardinality(before(x))
      <3>1. before(y) \in SUBSET before(x) /\ before(x) # before(y) /\ IsFiniteSet(before(x))
        BY <1>1, <2>1
      <3>2. /\ Cardinality(before(x)) \in Nat /\ Cardinality(before(y)) \in Nat
            /\ Cardinality(before(y)) <= Cardinality(before(x))
            /\ Cardinality(before(x)) # Cardinality(before(y))
        BY <1>1, <3>1, FS_Subset
      <3> QED BY <3>2
    <2>3. <<Cardinality(before(y)), n>> \in OpToRel(<, Nat)
      BY <1>1, <1>4, <2>2 DEF OpToRel
    <2>4. Cardinality(before(y)) \in sizes
      BY <1>2
    <2> QED BY <1>3, <2>3, <2>4
  <1> QED BY <1>5
=============================================================================
