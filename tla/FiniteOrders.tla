---------------------------- MODULE FiniteOrders ----------------------------
(***************************************************************************)
(* Numbering the elements of a finite ordered set: the lists that are      *)
(* sorted by the code (fused results, pages of events) are sets with an    *)
(* order here, and an entry's position is the number of what precedes it.  *)
(***************************************************************************)
EXTENDS Naturals, FiniteSets, FiniteSetTheorems, TLAPS

\* R is a strict total order of S.
Orders(R, S) ==
    /\ \A x, y \in S : <<x, y>> \in R => <<y, x>> \notin R
    /\ \A x, y, z \in S : <<x, y>> \in R /\ <<y, z>> \in R => <<x, z>> \in R
    /\ \A x, y \in S : x = y \/ <<x, y>> \in R \/ <<y, x>> \in R

Place(R, S, x) == 1 + Cardinality({y \in S : <<y, x>> \in R})

Numbered(R, S) ==
    /\ Cardinality(S) \in Nat
    /\ \A x \in S : Place(R, S, x) \in 1..Cardinality(S)
    /\ \A x, y \in S : <<x, y>> \in R => Place(R, S, x) < Place(R, S, y)
    /\ \A n \in 1..Cardinality(S) : \E x \in S : Place(R, S, x) = n

(* In a finite set that is ordered, the number of what stands before an    *)
(* element numbers the elements: each place is taken, and by one.          *)
LEMMA Numbering ==
    ASSUME NEW S, IsFiniteSet(S), NEW R, Orders(R, S)
    PROVE  Numbered(R, S)
<1> DEFINE Before(x) == {y \in S : <<y, x>> \in R}
           k == Cardinality(S)
<1>1. k \in Nat
  BY FS_CardinalityType
<1>2. ASSUME NEW x \in S
      PROVE  IsFiniteSet(Before(x)) /\ Cardinality(Before(x)) \in 0..k - 1
  <2>1. Before(x) \in SUBSET S /\ Before(x) # S
    BY DEF Orders
  <2>2. IsFiniteSet(Before(x)) /\ Cardinality(Before(x)) <= k /\ Cardinality(Before(x)) # k
    BY <2>1, FS_Subset
  <2>3. Cardinality(Before(x)) \in Nat
    BY <2>2, FS_CardinalityType
  <2>4. QED
    BY <1>1, <2>2, <2>3
<1>3. ASSUME NEW x \in S, NEW y \in S, <<x, y>> \in R
      PROVE  Cardinality(Before(x)) < Cardinality(Before(y))
  <2>1. Before(x) \cup {x} \in SUBSET Before(y) /\ x \notin Before(x)
    BY <1>3 DEF Orders
  <2>2. IsFiniteSet(Before(x)) /\ IsFiniteSet(Before(y))
        /\ Cardinality(Before(x)) \in Nat /\ Cardinality(Before(y)) \in Nat
    BY <1>2, <1>1
  <2>3. Cardinality(Before(x) \cup {x}) = Cardinality(Before(x)) + 1
    BY <2>1, <2>2, FS_AddElement
  <2>4. Cardinality(Before(x) \cup {x}) <= Cardinality(Before(y))
    BY <2>1, <2>2, FS_Subset
  <2>5. QED
    BY <2>2, <2>3, <2>4
<1>4. \A x \in S : Place(R, S, x) = 1 + Cardinality(Before(x))
  BY DEF Place
<1> HIDE DEF Before
<1>5. \A x \in S : Place(R, S, x) \in 1..k
  BY <1>1, <1>2, <1>4
<1>6. \A x, y \in S : <<x, y>> \in R => Place(R, S, x) < Place(R, S, y)
  <2>1. ASSUME NEW x \in S, NEW y \in S, <<x, y>> \in R
        PROVE  Place(R, S, x) < Place(R, S, y)
    BY <1>1, <1>2, <1>3, <1>4, <2>1
  <2>2. QED
    BY <2>1
<1> DEFINE F == [x \in S |-> Place(R, S, x)]
<1>7. F \in Injection(S, 1..k)
  <2>1. F \in [S -> 1..k]
    BY <1>5
  <2>2. ASSUME NEW x \in S, NEW y \in S, F[x] = F[y] PROVE x = y
    <3>1. Place(R, S, x) = Place(R, S, y) /\ Place(R, S, x) \in 1..k
      BY <1>5, <2>2
    <3>2. <<x, y>> \notin R /\ <<y, x>> \notin R
      BY <1>6, <3>1
    <3>3. QED
      BY <3>2 DEF Orders
  <2> HIDE DEF F
  <2>3. QED
    BY <2>1, <2>2 DEF Injection, IsInjective
<1>8. IsFiniteSet(1..k) /\ Cardinality(1..k) = k
  BY <1>1, FS_Interval
<1>9. F \in Surjection(S, 1..k)
  BY <1>7, <1>8, FS_Injection
<1>10. \A n \in 1..k : \E x \in S : F[x] = n
  <2> HIDE DEF F
  <2>1. QED
    BY <1>9 DEF Surjection
<1>11. QED
  BY <1>1, <1>5, <1>6, <1>10 DEF Numbered
=============================================================================
