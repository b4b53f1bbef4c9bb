-------------------------- MODULE RetrievalProofs --------------------------
(***************************************************************************)
(* The order of fused lists, for every smoothing constant and every pair   *)
(* of lists; what a fusion takes from each document and each group; and    *)
(* whose evidence, of which version of a document and from which search,   *)
(* an answer holds when searches, restarts and edits interleave.           *)
(***************************************************************************)
EXTENDS Retrieval, FiniteOrders, WellFoundedInduction

\* A result list: of any length, no chunk twice.
IsList(list) ==
    \E n \in Nat : /\ DOMAIN list = 1..n
                   /\ \A i, j \in 1..n : list[i] = list[j] => i = j

-----------------------------------------------------------------------------
(* A rank is a position at which the chunk stands (fuse_backend_results).  *)
LEMMA RankIsPosition ==
    ASSUME NEW list, IsList(list), NEW c \in Elements(list)
    PROVE  Rank(list, c) \in DOMAIN list /\ Rank(list, c) \in Nat \ {0}
  <1>1. PICK i \in DOMAIN list : list[i] = c
    BY DEF Elements
  <1>2. Rank(list, c) \in DOMAIN list
    BY <1>1 DEF Rank
  <1>3. QED
    BY <1>2 DEF IsList

(* Two contributions, both of ranks up to the smoothing constant, outweigh *)
(* one of any rank.                                                        *)
LEMMA TwoOutweighOne ==
    ASSUME NEW p \in 1..RrfK, NEW q \in 1..RrfK, NEW r \in Nat \ {0}
    PROVE  Exceeds(Double(p, q), Single(r)) /\ ~Exceeds(Single(r), Double(p, q))
  <1> DEFINE k == RrfK
  <1>0. k \in Nat \ {0}
    BY RrfAssumption
  <1> HIDE DEF k
  <1> DEFINE a == k + p
             b == k + q
             d == k + r
  <1>1. a \in Nat /\ b \in Nat /\ d \in Nat /\ 0 < a /\ 0 < b
    BY <1>0 DEF k
  <1>2. d >= k + 1 /\ a <= k + k /\ b <= k + k
    BY <1>0 DEF k
  <1> HIDE DEF a, b, d
  <1>3. (a + b) * d > a * b
    <2>1. (a + b) * d >= (a + b) * (k + 1)
      BY <1>0, <1>1, <1>2
    <2>2. a * (k + 1) + b * (k + 1) = (a + b) * (k + 1)
      BY <1>0, <1>1
    <2>3. a * (2 * k) >= a * b /\ b * (2 * k) >= a * b
      BY <1>0, <1>1, <1>2
    <2>4. 2 * ((a + b) * (k + 1)) = a * (2 * k) + b * (2 * k) + 2 * a + 2 * b
      BY <1>0, <1>1
    <2>5. (a + b) * (k + 1) \in Nat /\ a * b \in Nat /\ (a + b) * d \in Nat
          /\ a * (2 * k) \in Nat /\ b * (2 * k) \in Nat
      BY <1>0, <1>1
    <2>6. 2 * ((a + b) * (k + 1)) > 2 * (a * b)
      BY <2>3, <2>4, <2>5, <1>1
    <2>7. QED
      BY <2>1, <2>5, <2>6
  <1>4. (a + b) * d \in Nat /\ a * b \in Nat
    BY <1>1
  <1>5. Double(p, q) = <<a + b, a * b>> /\ Single(r) = <<1, d>>
    BY DEF Double, Single, Denominator, a, b, d, k
  <1>6. QED
    BY <1>3, <1>4, <1>5 DEF Exceeds

(* Whatever both backends found among their first rrf_k results stands     *)
(* before whatever only one of them found, in every fused list: the        *)
(* consensus the fusion is there for.                                      *)
THEOREM ConsensusFirst ==
    ASSUME NEW found, DOMAIN found = Backend,
           \A b \in Backend : IsList(found[b]) /\ DOMAIN found[b] \subseteq 1..RrfK,
           NEW c \in Candidates(found), NEW d \in Candidates(found),
           FoundBy(found, c) = Backend, FoundBy(found, d) # Backend
    PROVE  Precedes(found, c, d) /\ ~Precedes(found, d, c)
  <1> DEFINE p == Rank(found["milvus"], c)
             q == Rank(found["neo4j"], c)
  <1>1. p \in 1..RrfK /\ q \in 1..RrfK
    <2>1. \A b \in Backend : c \in Elements(found[b])
      BY DEF FoundBy
    <2>2. \A b \in Backend : Rank(found[b], c) \in DOMAIN found[b]
      BY <2>1, RankIsPosition
    <2>3. QED
      BY <2>2 DEF Backend
  <1>2. PICK b \in FoundBy(found, d) : b = CHOOSE x \in FoundBy(found, d) : TRUE
    BY DEF Candidates, FoundBy
  <1> DEFINE r == Rank(found[b], d)
  <1>3. r \in Nat \ {0}
    <2>1. b \in Backend /\ d \in Elements(found[b])
      BY DEF FoundBy
    <2>2. QED
      BY <2>1, RankIsPosition
  <1>4. FusionScore(found, c) = Double(p, q)
    BY DEF FusionScore
  <1>5. FusionScore(found, d) = Single(r)
    BY <1>2 DEF FusionScore
  <1> HIDE DEF p, q, r
  <1>6. /\ Exceeds(FusionScore(found, c), FusionScore(found, d))
        /\ ~Exceeds(FusionScore(found, d), FusionScore(found, c))
    BY <1>1, <1>3, <1>4, <1>5, TwoOutweighOne
  <1>7. QED
    BY <1>6, Zenon DEF Precedes

-----------------------------------------------------------------------------
(* Of two chunks of the same backends, the one that each of them ranks     *)
(* higher stands first.                                                    *)
THEOREM BetterFirst ==
    ASSUME NEW found, \A b \in DOMAIN found : IsList(found[b]),
           NEW c \in Candidates(found), NEW d \in Candidates(found),
           FoundBy(found, c) = FoundBy(found, d),
           \A b \in FoundBy(found, d) : Rank(found[b], c) < Rank(found[b], d)
    PROVE  Precedes(found, c, d) /\ ~Precedes(found, d, c)
  <1>0. RrfK \in Nat \ {0}
    BY RrfAssumption
  <1>1. \A b \in FoundBy(found, d) :
          Rank(found[b], c) \in Nat \ {0} /\ Rank(found[b], d) \in Nat \ {0}
    <2>1. \A b \in FoundBy(found, d) :
            b \in DOMAIN found /\ c \in Elements(found[b]) /\ d \in Elements(found[b])
      BY DEF FoundBy
    <2>2. QED
      BY <2>1, RankIsPosition
  <1>2. /\ Exceeds(FusionScore(found, c), FusionScore(found, d))
        /\ ~Exceeds(FusionScore(found, d), FusionScore(found, c))
    <2>1. CASE FoundBy(found, d) = Backend
      <3> DEFINE a == Denominator(Rank(found["milvus"], c))
                 b == Denominator(Rank(found["neo4j"], c))
                 x == Denominator(Rank(found["milvus"], d))
                 y == Denominator(Rank(found["neo4j"], d))
      <3>1. a \in Nat /\ b \in Nat /\ x \in Nat /\ y \in Nat
            /\ 0 < a /\ 0 < b /\ a < x /\ b < y
        BY <2>1, <1>0, <1>1 DEF Denominator, Backend
      <3>2. FusionScore(found, c) = <<a + b, a * b>> /\ FusionScore(found, d) = <<x + y, x * y>>
        BY <2>1 DEF FusionScore, Double
      <3> HIDE DEF a, b, x, y
      <3>3. (a + b) * (x * y) > (x + y) * (a * b)
        <4>1. (a + b) * (x * y) = (a * x) * y + (b * y) * x
              /\ (x + y) * (a * b) = (a * x) * b + (b * y) * a
          BY <3>1
        <4>2. a * x \in Nat /\ b * y \in Nat /\ 0 < a * x /\ 0 < b * y
          BY <3>1
        <4>3. (a * x) * y > (a * x) * b
          BY <4>2, <3>1
        <4>4. (b * y) * x > (b * y) * a
          BY <4>2, <3>1
        <4>5. /\ (a * x) * y \in Nat /\ (a * x) * b \in Nat
              /\ (b * y) * x \in Nat /\ (b * y) * a \in Nat
          BY <4>2, <3>1
        <4>6. QED
          BY <4>1, <4>3, <4>4, <4>5
      <3>4. (a + b) * (x * y) \in Nat /\ (x + y) * (a * b) \in Nat
        BY <3>1
      <3>5. QED
        BY <3>2, <3>3, <3>4 DEF Exceeds
    <2>2. CASE FoundBy(found, d) # Backend
      <3>1. PICK b \in FoundBy(found, d) : b = CHOOSE z \in FoundBy(found, d) : TRUE
        BY DEF Candidates, FoundBy
      <3> DEFINE a == Denominator(Rank(found[b], c))
                 x == Denominator(Rank(found[b], d))
      <3>2. a \in Nat /\ x \in Nat /\ a < x
        BY <1>0, <1>1 DEF Denominator
      <3>3. FusionScore(found, c) = <<1, a>> /\ FusionScore(found, d) = <<1, x>>
        BY <2>2, <3>1 DEF FusionScore, Single
      <3> HIDE DEF a, x
      <3>4. QED
        BY <3>2, <3>3 DEF Exceeds
    <2>3. QED
      BY <2>1, <2>2
  <1>3. QED
    BY <1>2, Zenon DEF Precedes
-----------------------------------------------------------------------------
(* Positions.                                                              *)

\* The list's entries at some positions are those at increasing positions.
Among(S, i) == Cardinality({j \in S : j <= i})

(* The numbers of a finite set of positions.                               *)
LEMMA PositionsNumbered ==
    ASSUME NEW S \in SUBSET Nat, IsFiniteSet(S)
    PROVE  /\ Cardinality(S) \in Nat
           /\ \A i \in S : Among(S, i) \in 1..Cardinality(S)
           /\ \A i, j \in S : i < j => Among(S, i) < Among(S, j)
           /\ \A n \in 1..Cardinality(S) : \E i \in S : Among(S, i) = n
<1> DEFINE R == {p \in S \X S : p[1] < p[2]}
<1>1. \A x, y \in S : <<x, y>> \in R <=> x < y
  OBVIOUS
<1> HIDE DEF R
<1>2. Orders(R, S)
  BY <1>1 DEF Orders
<1>3. ASSUME NEW i \in S PROVE Among(S, i) = Place(R, S, i)
  <2> DEFINE Before == {j \in S : <<j, i>> \in R}
  <2>0. \A j \in S : j <= i <=> <<j, i>> \in R \/ j = i
    <3>1. \A j \in S : j \in Nat /\ i \in Nat
      OBVIOUS
    <3>2. QED
      BY <1>1, <3>1
  <2>1. {j \in S : j <= i} = Before \cup {i} /\ i \notin Before /\ Before \in SUBSET S
    <3>1. <<i, i>> \notin R
      BY <1>1
    <3>2. QED
      BY <2>0, <3>1, Zenon
  <2>2. IsFiniteSet(Before)
    BY <2>1, FS_Subset
  <2>3. Cardinality(Before) \in Nat
    BY <2>2, FS_CardinalityType
  <2>4. Cardinality(Before \cup {i}) = Cardinality(Before) + 1
    BY <2>1, <2>2, FS_AddElement
  <2>5. Place(R, S, i) = 1 + Cardinality(Before)
    BY DEF Place
  <2> HIDE DEF Before
  <2>6. QED
    BY <2>1, <2>3, <2>4, <2>5 DEF Among
<1>4. Numbered(R, S)
  BY <1>2, Numbering
<1>5. \A i, j \in S : i < j => Among(S, i) < Among(S, j)
  <2>1. ASSUME NEW i \in S, NEW j \in S, i < j PROVE Among(S, i) < Among(S, j)
    <3>1. <<i, j>> \in R
      BY <1>1, <2>1
    <3>2. Place(R, S, i) < Place(R, S, j)
      BY <1>4, <3>1 DEF Numbered
    <3>3. QED
      BY <1>3, <3>2
  <2>2. QED
    BY <2>1
<1>6. \A i \in S : Among(S, i) \in 1..Cardinality(S)
  BY <1>3, <1>4 DEF Numbered
<1>7. \A n \in 1..Cardinality(S) : \E i \in S : Among(S, i) = n
  BY <1>3, <1>4 DEF Numbered
<1>8. QED
  BY <1>4, <1>5, <1>6, <1>7 DEF Numbered

(* What AtPositions gives: the entries at those positions, each once and in *)
(* their order.                                                            *)
LEMMA PositionsTaken ==
    ASSUME NEW list, NEW S \in SUBSET Nat, IsFiniteSet(S)
    PROVE  LET new == AtPositions(list, S)
           IN /\ Cardinality(S) \in Nat /\ DOMAIN new = 1..Cardinality(S)
              /\ \A n \in DOMAIN new : \E i \in S : Among(S, i) = n /\ new[n] = list[i]
              /\ \A i \in S : Among(S, i) \in DOMAIN new /\ new[Among(S, i)] = list[i]
<1> DEFINE new == AtPositions(list, S)
<1>1. Cardinality(S) \in Nat /\ DOMAIN new = 1..Cardinality(S)
  BY PositionsNumbered DEF AtPositions
<1>2. ASSUME NEW n \in DOMAIN new
      PROVE  \E i \in S : Among(S, i) = n /\ new[n] = list[i]
  <2> DEFINE i == CHOOSE i \in S : Cardinality({j \in S : j <= i}) = n
  <2>1. \E x \in S : Cardinality({j \in S : j <= x}) = n
    BY <1>1, PositionsNumbered DEF Among
  <2>2. i \in S /\ Among(S, i) = n
    BY <2>1 DEF Among
  <2>3. new[n] = list[i]
    BY <1>1 DEF AtPositions
  <2> HIDE DEF i
  <2>4. QED
    BY <2>2, <2>3
<1>3. ASSUME NEW i \in S
      PROVE  Among(S, i) \in DOMAIN new /\ new[Among(S, i)] = list[i]
  <2>1. Among(S, i) \in DOMAIN new
    BY <1>1, PositionsNumbered
  <2>2. PICK x \in S : Among(S, x) = Among(S, i) /\ new[Among(S, i)] = list[x]
    BY <1>2, <2>1
  <2>3. x = i
    <3>1. ~(x < i) /\ ~(i < x)
      BY <2>2, PositionsNumbered
    <3>2. x \in Nat /\ i \in Nat
      OBVIOUS
    <3>3. QED
      BY <3>1, <3>2
  <2>4. QED
    BY <2>1, <2>2, <2>3
<1> HIDE DEF new
<1>4. QED
  BY <1>1, <1>2, <1>3 DEF new
-----------------------------------------------------------------------------
(* The smallest and the largest of some numbers.                           *)
LEMMA FirstOfSome ==
    ASSUME NEW T \in SUBSET Nat, T # {}
    PROVE  \E x \in T : \A y \in T : x <= y
<1> DEFINE less == OpToRel(<, Nat)
<1>1. IsWellFoundedOn(less, Nat)
  BY NatLessThanWellFounded
<1>2. less = {ss \in Nat \X Nat : ss[1] < ss[2]}
  BY DEF OpToRel
<1> HIDE DEF less
<1>3. PICK x \in T : \A y \in T : ~ (<<y, x>> \in less)
  BY <1>1, WFMin
<1>4. ASSUME NEW y \in T PROVE x <= y
  <2>1. x \in Nat /\ y \in Nat /\ ~(<<y, x>> \in less)
    BY <1>3
  <2>2. <<y, x>> \in less <=> y < x
    BY <1>2, <2>1
  <2>3. QED
    BY <2>1, <2>2
<1>5. QED
  BY <1>4

LEMMA LastOfSome ==
    ASSUME NEW n \in Nat, NEW S \in SUBSET (1..n), S # {}
    PROVE  \E i \in S : \A j \in S : j <= i
<1> DEFINE T == {n - i : i \in S}
<1>1. T \in SUBSET Nat /\ T # {}
  <2>1. \A i \in S : i \in Nat /\ n - i \in Nat
    OBVIOUS
  <2>2. PICK i \in S : TRUE
    OBVIOUS
  <2>3. n - i \in T
    BY <2>2
  <2>4. QED
    BY <2>1, <2>3
<1> HIDE DEF T
<1>2. PICK x \in T : \A y \in T : x <= y
  BY <1>1, FirstOfSome
<1>3. PICK i \in S : x = n - i
  BY DEF T
<1>4. \A j \in S : n - j \in T
  BY DEF T
<1>5. \A j \in S : j <= i
  BY <1>2, <1>3, <1>4
<1>6. QED
  BY <1>5

-----------------------------------------------------------------------------
(* The context.                                                            *)

Chunks(list, S) == {list[j] : j \in S}

\* Whether a position joins others in the context.
Room(list, S, i) ==
    /\ Cardinality({c \in Chunks(list, S) : c[1] = list[i][1]}) < MaxPerDocument
    /\ Cardinality(Characters(Chunks(list, S \cup {i}))) <= MaxChars

Takes(list, S, n) == \A i \in 1..n : i \in S <=> Room(list, {j \in S : j < i}, i)

(* There are positions that are taken one after the other                  *)
(* (format_fused_context).                                                 *)
LEMMA SomeTaken ==
    ASSUME NEW list, NEW n \in Nat
    PROVE  \E S \in SUBSET (1..n) : Takes(list, S, n)
<1> DEFINE T == {m \in Nat : ~ \E S \in SUBSET (1..m) : Takes(list, S, m)}
<1>1. SUFFICES ASSUME T # {} PROVE FALSE
  OBVIOUS
<1>2. PICK m \in T : \A k \in T : m <= k
  BY <1>1, FirstOfSome
<1>3. m \in Nat /\ m # 0
  <2>1. {} \in SUBSET (1..0) /\ Takes(list, {}, 0)
    BY DEF Takes
  <2>2. QED
    BY <2>1
<1>4. PICK p \in Nat : m = p + 1
  BY <1>3
<1>5. PICK S \in SUBSET (1..p) : Takes(list, S, p)
  <2>1. p \notin T
    <3>1. ~(m <= p)
      BY <1>4
    <3>2. QED
      BY <1>2, <3>1
  <2>2. QED
    BY <2>1
<1> DEFINE new == IF Room(list, S, m) THEN S \cup {m} ELSE S
<1>6. new \in SUBSET (1..m)
  BY <1>4
<1>7. ASSUME NEW i \in 1..m PROVE i \in new <=> Room(list, {j \in new : j < i}, i)
  <2>1. {j \in new : j < i} = {j \in S : j < i}
    BY <1>4
  <2>2. CASE i = m
    <3>0. \A j \in S : j < i
      BY <1>4, <2>2
    <3>1. {j \in S : j < i} = S /\ m \notin S
      <4>1. ~(m < m)
        BY <1>3
      <4>2. QED
        BY <2>2, <3>0, <4>1, Zenon
    <3>2. QED
      BY <2>1, <2>2, <3>1
  <2>3. CASE i # m
    <3>1. i \in 1..p
      BY <1>4, <2>3
    <3>2. i \in new <=> i \in S
      BY <2>3
    <3>3. i \in S <=> Room(list, {j \in S : j < i}, i)
      BY <1>5, <3>1 DEF Takes
    <3>4. QED
      BY <2>1, <3>2, <3>3
  <2>4. QED
    BY <2>2, <2>3
<1>8. Takes(list, new, m)
  <2> HIDE DEF new
  <2>1. QED
    BY <1>7 DEF Takes
<1>9. QED
  BY <1>2, <1>6, <1>8

LEMMA SelectedTaken ==
    ASSUME NEW list, NEW n \in Nat, DOMAIN list = 1..n
    PROVE  Selected(list) \in SUBSET (1..n) /\ Takes(list, Selected(list), n)
<1>1. Selected(list) = CHOOSE S \in SUBSET (1..n) : Takes(list, S, n)
  BY DEF Selected, Takes, Room, Chunks
<1>2. QED
  BY <1>1, SomeTaken
(* A list of different chunks has as many as it has positions.             *)
LEMMA ListCounts ==
    ASSUME NEW list, IsList(list), NEW S \in SUBSET DOMAIN list
    PROVE  /\ IsFiniteSet(S) /\ S \in SUBSET Nat
           /\ IsFiniteSet(Chunks(list, S))
           /\ Cardinality(Chunks(list, S)) = Cardinality(S) /\ Cardinality(S) \in Nat
<1>1. PICK n \in Nat : DOMAIN list = 1..n /\ \A i, j \in 1..n : list[i] = list[j] => i = j
  BY DEF IsList
<1>2. IsFiniteSet(S) /\ S \in SUBSET Nat
  <2>1. IsFiniteSet(1..n)
    BY <1>1, FS_Interval
  <2>2. S \in SUBSET (1..n)
    BY <1>1
  <2>3. QED
    BY <2>1, <2>2, FS_Subset
<1> DEFINE f == [i \in S |-> list[i]]
<1>3. f \in Surjection(S, Chunks(list, S))
  BY DEF Surjection, Chunks
<1>4. f \in Injection(S, Chunks(list, S))
  BY <1>1 DEF Injection, IsInjective, Chunks
<1> HIDE DEF f
<1>5. QED
  BY <1>2, <1>3, <1>4, FS_Surjection, FS_CardinalityType

(* A part of a list is a list, of just the chunks at those positions.      *)
LEMMA PartOfList ==
    ASSUME NEW list, IsList(list), NEW S \in SUBSET DOMAIN list
    PROVE  LET new == AtPositions(list, S)
           IN IsList(new) /\ Elements(new) = Chunks(list, S) /\ new \in Seq(Elements(list))
<1> DEFINE new == AtPositions(list, S)
<1>1. IsFiniteSet(S) /\ S \in SUBSET Nat
  BY ListCounts
<1>2. /\ Cardinality(S) \in Nat /\ DOMAIN new = 1..Cardinality(S)
      /\ \A n \in DOMAIN new : \E i \in S : Among(S, i) = n /\ new[n] = list[i]
      /\ \A i \in S : Among(S, i) \in DOMAIN new /\ new[Among(S, i)] = list[i]
  BY <1>1, PositionsTaken
<1>3. \A i, j \in DOMAIN list : list[i] = list[j] => i = j
  BY DEF IsList
<1>4. new = [n \in DOMAIN new |-> new[n]]
  BY DEF AtPositions
<1> HIDE DEF new
<1>5. \A m, n \in DOMAIN new : new[m] = new[n] => m = n
  <2>1. ASSUME NEW m \in DOMAIN new, NEW n \in DOMAIN new, new[m] = new[n] PROVE m = n
    <3>1. PICK i \in S : Among(S, i) = m /\ new[m] = list[i]
      BY <1>2
    <3>2. PICK j \in S : Among(S, j) = n /\ new[n] = list[j]
      BY <1>2
    <3>3. QED
      BY <1>3, <2>1, <3>1, <3>2
  <2>2. QED
    BY <2>1
<1>6. IsList(new)
  BY <1>2, <1>5 DEF IsList
<1>7. Elements(new) = Chunks(list, S)
  BY <1>2 DEF Elements, Chunks
<1>8. new \in Seq(Elements(list))
  <2>1. \A n \in DOMAIN new : new[n] \in Elements(list)
    BY <1>2 DEF Elements
  <2>2. PICK k \in Nat : DOMAIN new = 1..k
    BY <1>2
  <2>3. new \in [1..k -> Elements(list)]
    BY <1>4, <2>1, <2>2
  <2>4. QED
    BY <2>3
<1>9. QED
  BY <1>6, <1>7, <1>8 DEF new

LEMMA OnlyOfList ==
    ASSUME NEW list, IsList(list), NEW T
    PROVE  LET new == Only(list, T)
           IN IsList(new) /\ Elements(new) = Elements(list) \cap T /\ new \in Seq(Elements(list))
<1> DEFINE S == {i \in DOMAIN list : list[i] \in T}
<1>1. S \in SUBSET DOMAIN list
  OBVIOUS
<1>2. Chunks(list, S) = Elements(list) \cap T
  BY DEF Chunks, Elements
<1>3. Only(list, T) = AtPositions(list, S)
  BY DEF Only
<1> HIDE DEF S
<1>4. QED
  BY <1>1, <1>2, <1>3, PartOfList

(* Two lists without a chunk in common make one.                           *)
LEMMA JoinedLists ==
    ASSUME NEW X, NEW a \in Seq(X), NEW b \in Seq(X), IsList(a), IsList(b),
           Elements(a) \cap Elements(b) = {}
    PROVE  /\ IsList(a \o b) /\ Elements(a \o b) = Elements(a) \cup Elements(b)
           /\ a \o b \in Seq(X)
<1> DEFINE k == Len(a)
           m == Len(b)
           c == a \o b
<1>1. k \in Nat /\ m \in Nat /\ c \in Seq(X) /\ DOMAIN a = 1..k /\ DOMAIN b = 1..m
      /\ DOMAIN c = 1..(k + m) /\ k + m \in Nat
  OBVIOUS
<1>2. /\ \A i \in 1..k : i \in DOMAIN c /\ c[i] = a[i]
      /\ \A i \in 1..m : k + i \in DOMAIN c /\ c[k + i] = b[i]
      /\ \A i \in DOMAIN c : i \in 1..k \/ \E j \in 1..m : i = k + j
  <2>1. \A i \in 1..k : i \in DOMAIN c /\ c[i] = a[i]
    BY <1>1
  <2>2. \A i \in 1..m : k + i \in DOMAIN c /\ c[k + i] = b[i]
    BY <1>1
  <2>3. ASSUME NEW i \in DOMAIN c, i \notin 1..k PROVE \E j \in 1..m : i = k + j
    <3>1. i - k \in 1..m /\ i = k + (i - k)
      BY <1>1, <2>3
    <3>2. QED
      BY <3>1
  <2>4. QED
    BY <2>1, <2>2, <2>3
<1>3. \A i \in 1..k, j \in 1..m : a[i] # b[j]
  BY <1>1 DEF Elements
<1>4. /\ \A i, j \in 1..k : a[i] = a[j] => i = j
      /\ \A i, j \in 1..m : b[i] = b[j] => i = j
  <2>1. \A i, j \in DOMAIN a : a[i] = a[j] => i = j
    BY DEF IsList
  <2>2. \A i, j \in DOMAIN b : b[i] = b[j] => i = j
    BY DEF IsList
  <2>3. QED
    BY <1>1, <2>1, <2>2
<1> HIDE DEF k, m, c
<1>5. ASSUME NEW i \in DOMAIN c, NEW j \in DOMAIN c, c[i] = c[j] PROVE i = j
  BY <1>2, <1>3, <1>4, <1>5
<1>6. IsList(c)
  BY <1>1, <1>5 DEF IsList
<1>7. Elements(c) = Elements(a) \cup Elements(b)
  <2>1. ASSUME NEW x \in Elements(c) PROVE x \in Elements(a) \cup Elements(b)
    <3>1. PICK i \in DOMAIN c : c[i] = x
      BY DEF Elements
    <3>2. CASE i \in 1..k
      BY <1>1, <1>2, <3>1, <3>2 DEF Elements
    <3>3. CASE i \notin 1..k
      <4>1. PICK j \in 1..m : i = k + j
        BY <1>2, <3>3
      <4>2. x = b[j] /\ j \in DOMAIN b
        BY <1>1, <1>2, <3>1, <4>1
      <4>3. QED
        BY <4>2 DEF Elements
    <3>4. QED
      BY <3>2, <3>3
  <2>2. ASSUME NEW x \in Elements(a) PROVE x \in Elements(c)
    <3>1. PICK i \in 1..k : a[i] = x
      BY <1>1 DEF Elements
    <3>2. i \in DOMAIN c /\ c[i] = x
      BY <1>2, <3>1
    <3>3. QED
      BY <3>2 DEF Elements
  <2>3. ASSUME NEW x \in Elements(b) PROVE x \in Elements(c)
    <3>1. PICK i \in 1..m : b[i] = x
      BY <1>1 DEF Elements
    <3>2. k + i \in DOMAIN c /\ c[k + i] = x
      BY <1>2, <3>1
    <3>3. QED
      BY <3>2 DEF Elements
  <2>4. QED
    BY <2>1, <2>2, <2>3
<1>8. QED
  BY <1>1, <1>6, <1>7 DEF c
-----------------------------------------------------------------------------
(* The order of the candidates.                                            *)

ResultLists(found) ==
    /\ DOMAIN found \subseteq Backend
    /\ \A b \in DOMAIN found : IsList(found[b]) /\ Elements(found[b]) \subseteq Chunk

IsScore(x) == \E a, b \in Nat \ {0} : x = <<a, b>>

(* A score is a fraction (FusedRetrievalResult).                           *)
LEMMA ScoreIsFraction ==
    ASSUME NEW found, ResultLists(found), NEW c \in Candidates(found)
    PROVE  IsScore(FusionScore(found, c))
<1>0. RrfK \in Nat \ {0}
  BY RrfAssumption
<1>1. \A b \in FoundBy(found, c) : Rank(found[b], c) \in Nat \ {0}
  BY RankIsPosition DEF FoundBy, ResultLists
<1>2. CASE FoundBy(found, c) = Backend
  <2> DEFINE a == Denominator(Rank(found["milvus"], c))
             b == Denominator(Rank(found["neo4j"], c))
  <2>1. a \in Nat \ {0} /\ b \in Nat \ {0}
    BY <1>0, <1>1, <1>2 DEF Denominator, Backend
  <2>2. FusionScore(found, c) = <<a + b, a * b>>
    BY <1>2 DEF FusionScore, Double
  <2> HIDE DEF a, b
  <2>3. a + b \in Nat \ {0} /\ a * b \in Nat \ {0}
    BY <2>1
  <2>4. QED
    BY <2>2, <2>3 DEF IsScore
<1>3. CASE FoundBy(found, c) # Backend
  <2>1. PICK b \in FoundBy(found, c) : b = CHOOSE z \in FoundBy(found, c) : TRUE
    BY DEF Candidates, FoundBy
  <2> DEFINE a == Denominator(Rank(found[b], c))
  <2>2. a \in Nat \ {0}
    BY <1>0, <1>1 DEF Denominator
  <2>3. FusionScore(found, c) = <<1, a>>
    BY <1>3, <2>1 DEF FusionScore, Single
  <2> HIDE DEF a
  <2>4. QED
    BY <2>2, <2>3 DEF IsScore
<1>4. QED
  BY <1>2, <1>3

(* Fractions compare as they should: exceeding is asymmetric, and not      *)
(* being exceeded is transitive.                                           *)
LEMMA FractionsCompare ==
    ASSUME NEW x, NEW y, NEW z, IsScore(x), IsScore(y), IsScore(z)
    PROVE  /\ Exceeds(x, y) => ~Exceeds(y, x)
           /\ ~Exceeds(y, x) /\ ~Exceeds(z, y) => ~Exceeds(z, x)
<1>1. PICK a \in Nat \ {0}, b \in Nat \ {0} : x = <<a, b>>
  BY DEF IsScore
<1>2. PICK c \in Nat \ {0}, d \in Nat \ {0} : y = <<c, d>>
  BY DEF IsScore
<1>3. PICK e \in Nat \ {0}, f \in Nat \ {0} : z = <<e, f>>
  BY DEF IsScore
<1>4. /\ a * d \in Nat /\ c * b \in Nat /\ c * f \in Nat
      /\ e * d \in Nat /\ e * b \in Nat /\ a * f \in Nat
  OBVIOUS
<1>5. Exceeds(x, y) => ~Exceeds(y, x)
  BY <1>1, <1>2, <1>4 DEF Exceeds
<1>6. ASSUME ~Exceeds(y, x), ~Exceeds(z, y) PROVE ~Exceeds(z, x)
  <2>1. c * b <= a * d /\ e * d <= c * f
    BY <1>1, <1>2, <1>3, <1>4, <1>6 DEF Exceeds
  <2>2. (c * b) * f <= (a * d) * f
    <3> DEFINE p == c * b
               q == a * d
    <3>1. p \in Nat /\ q \in Nat /\ p <= q
      BY <1>4, <2>1
    <3> HIDE DEF p, q
    <3>2. p * f <= q * f
      BY <3>1
    <3>3. QED
      BY <3>2 DEF p, q
  <2>3. (e * d) * b <= (c * f) * b
    <3> DEFINE p == e * d
               q == c * f
    <3>1. p \in Nat /\ q \in Nat /\ p <= q
      BY <1>4, <2>1
    <3> HIDE DEF p, q
    <3>2. p * b <= q * b
      BY <3>1
    <3>3. QED
      BY <3>2 DEF p, q
  <2>4. /\ (c * b) * f = (c * f) * b
        /\ (e * d) * b = (e * b) * d
        /\ (a * d) * f = (a * f) * d
    OBVIOUS
  <2>5. (e * b) * d <= (a * f) * d
    <3>1. (e * b) * d \in Nat /\ (a * f) * d \in Nat /\ (c * f) * b \in Nat
      OBVIOUS
    <3>2. QED
      BY <2>2, <2>3, <2>4, <3>1
  <2>6. e * b <= a * f
    <3> DEFINE p == e * b
               q == a * f
    <3>1. p \in Nat /\ q \in Nat /\ p * d <= q * d
      BY <1>4, <2>5
    <3> HIDE DEF p, q
    <3>2. SUFFICES ASSUME p > q PROVE FALSE
      BY <3>1 DEF p, q
    <3>3. p >= q + 1
      BY <3>1, <3>2
    <3>4. p * d >= (q + 1) * d
      BY <3>1, <3>3
    <3>5. (q + 1) * d = q * d + d
      BY <3>1
    <3>6. p * d \in Nat /\ q * d \in Nat
      BY <3>1
    <3>7. QED
      BY <3>1, <3>4, <3>5, <3>6
  <2>7. QED
    BY <1>1, <1>3, <1>4, <2>6 DEF Exceeds
<1>7. QED
  BY <1>5, <1>6
\* Before(found): who stands before whom.
Before(found) ==
    {p \in Candidates(found) \X Candidates(found) : Precedes(found, p[1], p[2])}

(* The sort key orders the candidates: of two different ones one stands    *)
(* before the other (fuse_backend_results).                                *)
LEMMA PrecedesOrders ==
    ASSUME NEW found, ResultLists(found)
    PROVE  Orders(Before(found), Candidates(found)) /\ IsFiniteSet(Candidates(found))
<1> DEFINE all == Candidates(found)
           x(c) == FusionScore(found, c)
           m(c) == Cardinality(FoundBy(found, c))
<1>1. all \subseteq Chunk
  BY DEF Candidates, ResultLists
<1>2. IsFiniteSet(all)
  BY <1>1, RetrievalAssumption, FS_Subset
<1>3. \A c \in all : c[1] \in Nat /\ c[2] \in Nat /\ c = <<c[1], c[2]>>
  BY <1>1, RetrievalAssumption
<1>4. \A c \in all : m(c) \in Nat
  <2>1. IsFiniteSet(Backend)
    <3>1. IsFiniteSet({"milvus"})
      BY FS_Singleton
    <3>2. IsFiniteSet({"milvus"} \cup {"neo4j"})
      BY <3>1, FS_AddElement
    <3>3. Backend = {"milvus"} \cup {"neo4j"}
      BY DEF Backend
    <3>4. QED
      BY <3>2, <3>3
  <2>2. ASSUME NEW c \in all PROVE m(c) \in Nat
    <3>1. FoundBy(found, c) \in SUBSET Backend
      BY DEF FoundBy, ResultLists
    <3>2. QED
      BY <2>1, <3>1, FS_Subset, FS_CardinalityType
  <2>3. QED
    BY <2>2
<1>5. \A c \in all : IsScore(x(c))
  BY ScoreIsFraction
<1>6. \A c, d, e \in all : ~Exceeds(x(d), x(c)) /\ ~Exceeds(x(e), x(d)) => ~Exceeds(x(e), x(c))
  BY <1>5, FractionsCompare
<1>7. \A c, d \in all : Exceeds(x(c), x(d)) => ~Exceeds(x(d), x(c))
  BY <1>5, FractionsCompare
<1>8. /\ \A c, d \in all : IdentityExceeds(c, d) => ~IdentityExceeds(d, c)
      /\ \A c, d \in all : c = d \/ IdentityExceeds(c, d) \/ IdentityExceeds(d, c)
      /\ \A c, d, e \in all : IdentityExceeds(c, d) /\ IdentityExceeds(d, e) => IdentityExceeds(c, e)
  <2>1. \A c, d \in all : IdentityExceeds(c, d) => ~IdentityExceeds(d, c)
    BY <1>3 DEF IdentityExceeds
  <2>2. \A c, d \in all : c = d \/ IdentityExceeds(c, d) \/ IdentityExceeds(d, c)
    <3>1. ASSUME NEW c \in all, NEW d \in all, ~IdentityExceeds(c, d), ~IdentityExceeds(d, c) PROVE c = d
      <4>1. c[1] = d[1] /\ c[2] = d[2]
        BY <1>3, <3>1 DEF IdentityExceeds
      <4>2. QED
        BY <1>3, <4>1
    <3>2. QED
      BY <3>1
  <2>3. \A c, d, e \in all : IdentityExceeds(c, d) /\ IdentityExceeds(d, e) => IdentityExceeds(c, e)
    BY <1>3 DEF IdentityExceeds
  <2>4. QED
    BY <2>1, <2>2, <2>3
<1>9. \A c, d \in all :
        <<c, d>> \in Before(found) <=>
           \/ Exceeds(x(c), x(d))
           \/ ~Exceeds(x(d), x(c)) /\ (m(c) > m(d) \/ (m(c) = m(d) /\ IdentityExceeds(c, d)))
  BY Zenon DEF Before, Precedes
<1> HIDE DEF x, m, all
<1>10. \A c, d \in all : <<c, d>> \in Before(found) => <<d, c>> \notin Before(found)
  BY <1>4, <1>7, <1>8, <1>9
<1>11. \A c, d \in all : c = d \/ <<c, d>> \in Before(found) \/ <<d, c>> \in Before(found)
  <2>1. ASSUME NEW c \in all, NEW d \in all,
               <<c, d>> \notin Before(found), <<d, c>> \notin Before(found)
        PROVE  c = d
    <3>1. ~Exceeds(x(c), x(d)) /\ ~Exceeds(x(d), x(c))
      BY <1>9, <2>1
    <3>2. ~(m(c) > m(d)) /\ ~(m(d) > m(c))
      BY <1>9, <2>1, <3>1
    <3>3. m(c) = m(d)
      BY <1>4, <3>2
    <3>4. ~IdentityExceeds(c, d) /\ ~IdentityExceeds(d, c)
      BY <1>9, <2>1, <3>1, <3>3
    <3>5. QED
      BY <1>8, <3>4
  <2>2. QED
    BY <2>1
<1>12. ASSUME NEW c \in all, NEW d \in all, NEW e \in all,
              <<c, d>> \in Before(found), <<d, e>> \in Before(found)
       PROVE  <<c, e>> \in Before(found)
  <2>1. ~Exceeds(x(d), x(c)) /\ ~Exceeds(x(e), x(d))
    BY <1>7, <1>9, <1>12
  <2>2. ~Exceeds(x(e), x(c))
    BY <1>6, <2>1
  <2>3. CASE Exceeds(x(c), x(e))
    BY <1>9, <2>3
  <2>4. CASE ~Exceeds(x(c), x(e))
    <3>1. ~Exceeds(x(c), x(d)) /\ ~Exceeds(x(d), x(e))
      BY <1>6, <2>1, <2>4
    <3>2. /\ m(c) > m(d) \/ (m(c) = m(d) /\ IdentityExceeds(c, d))
          /\ m(d) > m(e) \/ (m(d) = m(e) /\ IdentityExceeds(d, e))
      BY <1>9, <1>12, <3>1
    <3>3. m(c) > m(e) \/ (m(c) = m(e) /\ IdentityExceeds(c, e))
      BY <1>4, <1>8, <3>2
    <3>4. QED
      BY <1>9, <2>2, <3>3
  <2>5. QED
    BY <2>3, <2>4
<1>13. QED
  BY <1>2, <1>10, <1>11, <1>12 DEF Orders, all

(* The fused list holds the candidates at their places, up to the limit.   *)
LEMMA FusedPlaces ==
    ASSUME NEW found, ResultLists(found), NEW limit \in Nat
    PROVE  LET all == Candidates(found)
               list == Fuse(found, limit)
               place(c) == Place(Before(found), all, c)
           IN /\ IsList(list) /\ Elements(list) \subseteq all /\ Cardinality(all) \in Nat
              /\ \A i : i \in DOMAIN list <=> i \in 1..limit /\ i <= Cardinality(all)
              /\ \A c \in all : place(c) \in 1..Cardinality(all)
              /\ \A c \in all : c \in Elements(list) <=> place(c) <= limit
              /\ \A c \in Elements(list) : Rank(list, c) = place(c)
              /\ \A c, d \in all : Precedes(found, c, d) => place(c) < place(d)
<1> DEFINE all == Candidates(found)
           list == Fuse(found, limit)
           n == Cardinality(all)
           place(c) == Place(Before(found), all, c)
<1>1. /\ n \in Nat
      /\ \A c \in all : place(c) \in 1..n
      /\ \A c, d \in all : <<c, d>> \in Before(found) => place(c) < place(d)
      /\ \A i \in 1..n : \E c \in all : place(c) = i
  <2>1. Numbered(Before(found), all)
    BY PrecedesOrders, Numbering
  <2>2. QED
    BY <2>1 DEF Numbered
<1>2. \A c, d \in all : place(c) = place(d) => c = d
  <2>1. ASSUME NEW c \in all, NEW d \in all, place(c) = place(d) PROVE c = d
    <3>1. place(c) \in Nat
      BY <1>1
    <3>2. <<c, d>> \notin Before(found) /\ <<d, c>> \notin Before(found)
      BY <1>1, <2>1, <3>1
    <3>3. QED
      BY <3>2, PrecedesOrders DEF Orders
  <2>2. QED
    BY <2>1
<1>3. \A c \in all : place(c) = 1 + Cardinality({d \in all : Precedes(found, d, c)})
  <2>1. ASSUME NEW c \in all PROVE place(c) = 1 + Cardinality({d \in all : Precedes(found, d, c)})
    <3>1. {d \in all : <<d, c>> \in Before(found)} = {d \in all : Precedes(found, d, c)}
      BY DEF Before
    <3>2. QED
      BY <3>1, Zenon DEF Place
  <2>2. QED
    BY <2>1
<1>4. \A i : i \in DOMAIN list <=> i \in 1..limit /\ i <= n
  BY DEF Fuse
<1>5. ASSUME NEW i \in DOMAIN list PROVE list[i] \in all /\ place(list[i]) = i
  <2>1. list[i] = CHOOSE c \in all : [d \in all |-> 1 + Cardinality({e \in all : Precedes(found, e, d)})][c] = i
    BY <1>4, Zenon DEF Fuse
  <2>2. \E c \in all : [d \in all |-> 1 + Cardinality({e \in all : Precedes(found, e, d)})][c] = i
    <3>1. i \in 1..n
      BY <1>1, <1>4
    <3>2. QED
      BY <1>1, <1>3, <3>1
  <2>3. list[i] \in all /\ [d \in all |-> 1 + Cardinality({e \in all : Precedes(found, e, d)})][list[i]] = i
    BY <2>1, <2>2, Zenon
  <2>4. QED
    BY <1>3, <2>3
<1>6. \A c, d \in all : Precedes(found, c, d) => place(c) < place(d)
  BY <1>1 DEF Before
<1> HIDE DEF all, list, place, n
<1>7. IsList(list)
  <2>1. \A i, j \in DOMAIN list : list[i] = list[j] => i = j
    BY <1>5
  <2>2. CASE n <= limit
    <3>1. DOMAIN list = 1..n
      <4>1. \A i : i \in DOMAIN list <=> i \in 1..n
        BY <1>1, <1>4, <2>2
      <4>2. QED
        BY <4>1 DEF list, Fuse
    <3>2. QED
      BY <1>1, <2>1, <3>1 DEF IsList
  <2>3. CASE ~(n <= limit)
    <3>1. DOMAIN list = 1..limit
      <4>1. \A i : i \in DOMAIN list <=> i \in 1..limit
        BY <1>1, <1>4, <2>3
      <4>2. QED
        BY <4>1 DEF list, Fuse
    <3>2. QED
      BY <2>1, <3>1 DEF IsList
  <2>4. QED
    BY <2>2, <2>3
<1>8. Elements(list) \subseteq all
  BY <1>5 DEF Elements
<1>9. ASSUME NEW c \in all PROVE c \in Elements(list) <=> place(c) <= limit
  <2>1. ASSUME c \in Elements(list) PROVE place(c) <= limit
    <3>1. PICK i \in DOMAIN list : list[i] = c
      BY <2>1 DEF Elements
    <3>2. QED
      BY <1>4, <1>5, <3>1
  <2>2. ASSUME place(c) <= limit PROVE c \in Elements(list)
    <3>1. PICK i \in 1..n : place(c) = i
      BY <1>1
    <3>2. i \in DOMAIN list
      BY <1>1, <1>4, <2>2, <3>1
    <3>3. list[i] = c
      BY <1>2, <1>5, <3>1, <3>2
    <3>4. QED
      BY <3>2, <3>3 DEF Elements
  <2>3. QED
    BY <2>1, <2>2
<1>10. ASSUME NEW c \in Elements(list) PROVE Rank(list, c) = place(c)
  <2>1. PICK i \in DOMAIN list : list[i] = c
    BY DEF Elements
  <2>2. Rank(list, c) \in DOMAIN list /\ list[Rank(list, c)] = c
    BY <2>1 DEF Rank
  <2>3. QED
    BY <1>5, <2>2
<1>11. QED
  BY <1>1, <1>4, <1>6, <1>7, <1>8, <1>9, <1>10 DEF all, list, place, n
\* Why d must stand before c.
IsBetter(found, d, c) ==
    \/ FoundBy(found, d) = Backend /\ FoundBy(found, c) # Backend
    \/ /\ FoundBy(found, c) \subseteq FoundBy(found, d)
       /\ \A b \in FoundBy(found, c) : Rank(found[b], d) < Rank(found[b], c)

(* The better of two candidates precedes the other.                        *)
LEMMA BetterPrecedes ==
    ASSUME NEW found, ResultLists(found),
           \A b \in DOMAIN found : DOMAIN found[b] \subseteq 1..RrfK,
           NEW c \in Candidates(found), NEW d \in Candidates(found), IsBetter(found, d, c)
    PROVE  Precedes(found, d, c)
<1>1. /\ FoundBy(found, c) \subseteq DOMAIN found /\ FoundBy(found, d) \subseteq DOMAIN found
      /\ FoundBy(found, c) # {} /\ DOMAIN found \subseteq Backend
  BY DEF FoundBy, ResultLists, Candidates
<1>2. CASE FoundBy(found, d) = Backend /\ FoundBy(found, c) # Backend
  <2>1. DOMAIN found = Backend
    BY <1>1, <1>2
  <2>2. \A b \in Backend : IsList(found[b]) /\ DOMAIN found[b] \subseteq 1..RrfK
    BY <2>1 DEF ResultLists
  <2>3. QED
    BY <1>2, <2>1, <2>2, ConsensusFirst
<1>3. CASE /\ FoundBy(found, c) \subseteq FoundBy(found, d)
           /\ \A b \in FoundBy(found, c) : Rank(found[b], d) < Rank(found[b], c)
  <2>1. CASE FoundBy(found, c) = FoundBy(found, d)
    <3>1. \A b \in DOMAIN found : IsList(found[b])
      BY DEF ResultLists
    <3>2. QED
      BY <1>3, <2>1, <3>1, BetterFirst
  <2>2. CASE FoundBy(found, c) # FoundBy(found, d)
    <3>1. FoundBy(found, d) = Backend /\ FoundBy(found, c) # Backend
      BY <1>1, <1>3, <2>2 DEF Backend
    <3>2. QED
      BY <1>2, <3>1
  <2>3. QED
    BY <2>1, <2>2
<1>4. QED
  BY <1>2, <1>3 DEF IsBetter

\* What FusionIsFair says of a list.
Fair(found, list) ==
    /\ \A c \in Elements(list), d \in Candidates(found) :
          IsBetter(found, d, c) => d \in Elements(list) /\ Rank(list, d) < Rank(list, c)
    /\ Elements(list) # Candidates(found) => Cardinality(Elements(list)) = FusionLimit

(* Fusing lists no longer than the smoothing constant is fair.             *)
LEMMA FusedFairly ==
    ASSUME NEW found, ResultLists(found),
           \A b \in DOMAIN found : DOMAIN found[b] \subseteq 1..RrfK
    PROVE  Fair(found, Fuse(found, FusionLimit))
<1> DEFINE all == Candidates(found)
           list == Fuse(found, FusionLimit)
           place(c) == Place(Before(found), all, c)
<1>0. FusionLimit \in Nat
  BY RetrievalAssumption
<1>1. /\ IsList(list) /\ Elements(list) \subseteq all /\ Cardinality(all) \in Nat
      /\ \A i : i \in DOMAIN list <=> i \in 1..FusionLimit /\ i <= Cardinality(all)
      /\ \A c \in all : place(c) \in 1..Cardinality(all)
      /\ \A c \in all : c \in Elements(list) <=> place(c) <= FusionLimit
      /\ \A c \in Elements(list) : Rank(list, c) = place(c)
      /\ \A c, d \in all : Precedes(found, c, d) => place(c) < place(d)
  BY <1>0, FusedPlaces
<1> HIDE DEF list, place
<1>2. ASSUME NEW c \in Elements(list), NEW d \in all, IsBetter(found, d, c)
      PROVE  d \in Elements(list) /\ Rank(list, d) < Rank(list, c)
  <2>1. c \in all
    BY <1>1
  <2>2. Precedes(found, d, c)
    BY <1>2, <2>1, BetterPrecedes
  <2>3. place(d) < place(c)
    BY <1>1, <2>1, <2>2
  <2>4. place(c) <= FusionLimit /\ place(c) \in Nat /\ place(d) \in Nat
    BY <1>1, <2>1
  <2>5. d \in Elements(list)
    BY <1>0, <1>1, <2>3, <2>4
  <2>6. QED
    BY <1>1, <2>3, <2>5
<1>3. ASSUME Elements(list) # all PROVE Cardinality(Elements(list)) = FusionLimit
  <2>1. PICK c \in all : c \notin Elements(list)
    BY <1>1, <1>3
  <2>2. FusionLimit < Cardinality(all)
    <3>1. ~(place(c) <= FusionLimit) /\ place(c) \in 1..Cardinality(all)
      BY <1>1, <2>1
    <3>2. QED
      BY <1>0, <1>1, <3>1
  <2>3. \A i : i \in DOMAIN list <=> i \in 1..FusionLimit
    BY <1>0, <1>1, <2>2
  <2>4. DOMAIN list = 1..FusionLimit
    BY <2>3 DEF list, Fuse
  <2>5. Elements(list) = Chunks(list, DOMAIN list)
    BY DEF Elements, Chunks
  <2>6. Cardinality(Chunks(list, DOMAIN list)) = Cardinality(DOMAIN list)
    BY <1>1, ListCounts
  <2>7. Cardinality(1..FusionLimit) = FusionLimit
    BY <1>0, FS_Interval
  <2>8. QED
    BY <2>4, <2>5, <2>6, <2>7
<1>4. QED
  BY <1>2, <1>3 DEF Fair, list

-----------------------------------------------------------------------------
(* The context a list is cut to.                                           *)

\* What of a user's chunks a context of some of a list shows.
Cut(u, ranked, shown) ==
    LET Of(d) == Cardinality({c \in shown : c[1] = d})
    IN /\ IsFiniteSet(shown) /\ shown \subseteq Elements(ranked)
       /\ \A c \in shown : Authorized(c[1], u) /\ Of(c[1]) <= MaxPerDocument
       /\ Cardinality(Characters(shown)) <= MaxChars
       /\ \A c \in Elements(ranked) \ shown :
             Authorized(c[1], u) =>
             ~(Of(c[1]) < MaxPerDocument /\ Cardinality(Characters(shown \cup {c})) <= MaxChars)

(* The sections of finitely many chunks have finitely many characters.     *)
LEMMA CharactersFinite ==
    ASSUME NEW S \in SUBSET Chunk
    PROVE  /\ IsFiniteSet(S) /\ IsFiniteSet(Characters(S)) /\ Cardinality(Characters(S)) \in Nat
           /\ \A T \in SUBSET S : Cardinality(Characters(T)) \in Nat
                                  /\ Cardinality(Characters(T)) <= Cardinality(Characters(S))
<1> DEFINE f == [c \in S |-> {c} \X (1..Length[c])]
           all == {{c} \X (1..Length[c]) : c \in S}
<1>1. IsFiniteSet(S)
  BY RetrievalAssumption, FS_Subset
<1>2. f \in Surjection(S, all)
  BY DEF Surjection
<1>3. IsFiniteSet(all)
  <2> HIDE DEF f, all
  <2>1. QED
    BY <1>1, <1>2, FS_Surjection
<1>4. ASSUME NEW T \in all PROVE IsFiniteSet(T)
  <2>1. PICK c \in S : T = {c} \X (1..Length[c])
    OBVIOUS
  <2>2. Length[c] \in Nat
    BY RetrievalAssumption
  <2>3. IsFiniteSet({c}) /\ IsFiniteSet(1..Length[c])
    <3>1. IsFiniteSet({c})
      BY FS_Singleton
    <3>2. IsFiniteSet(1..Length[c])
      BY <2>2, FS_Interval
    <3>3. QED
      BY <3>1, <3>2
  <2>4. QED
    BY <2>1, <2>3, FS_Product
<1>5. IsFiniteSet(Characters(S))
  <2>1. Characters(S) = UNION all
    BY DEF Characters
  <2> HIDE DEF all
  <2>2. QED
    BY <1>3, <1>4, <2>1, FS_UNION
<1>6. ASSUME NEW T \in SUBSET S
      PROVE  Cardinality(Characters(T)) \in Nat
             /\ Cardinality(Characters(T)) <= Cardinality(Characters(S))
  <2>1. Characters(T) \in SUBSET Characters(S)
    BY DEF Characters
  <2>2. QED
    BY <1>5, <2>1, FS_Subset, FS_CardinalityType
<1>7. QED
  BY <1>1, <1>5, <1>6, FS_CardinalityType
(* The chunks that are selected keep to the share of a document and to the *)
(* length of a context, and none is left out that would have fitted        *)
(* (format_fused_context).                                                 *)
LEMMA SelectedKeepsTo ==
    ASSUME NEW list, IsList(list), Elements(list) \subseteq Chunk
    PROVE  LET shown == Chunks(list, Selected(list))
               Of(d) == Cardinality({c \in shown : c[1] = d})
           IN /\ IsFiniteSet(shown) /\ shown \subseteq Elements(list)
              /\ \A c \in shown : Of(c[1]) <= MaxPerDocument
              /\ Cardinality(Characters(shown)) <= MaxChars
              /\ \A c \in Elements(list) \ shown :
                    ~(Of(c[1]) < MaxPerDocument /\ Cardinality(Characters(shown \cup {c})) <= MaxChars)
<1>1. PICK n \in Nat : DOMAIN list = 1..n /\ \A i, j \in 1..n : list[i] = list[j] => i = j
  BY DEF IsList
<1>2. PICK S \in SUBSET (1..n) : S = Selected(list) /\ Takes(list, S, n)
  BY <1>1, SelectedTaken
<1> DEFINE shown == Chunks(list, S)
           Of(d) == Cardinality({c \in shown : c[1] = d})
           T(i) == {j \in S : j < i}
<1>3. IsFiniteSet(shown) /\ shown \in SUBSET Elements(list) /\ shown \in SUBSET Chunk
  <2>1. IsFiniteSet(shown)
    BY <1>1, ListCounts
  <2>2. shown \in SUBSET Elements(list)
    BY <1>1 DEF Chunks, Elements
  <2>3. QED
    BY <2>1, <2>2
<1>4. MaxPerDocument \in Nat /\ MaxChars \in Nat
  BY RrfAssumption
<1>5. \A i \in 1..n : i \in S <=> Room(list, T(i), i)
  BY <1>2 DEF Takes
<1>6. \A d : IsFiniteSet({x \in shown : x[1] = d}) /\ Of(d) \in Nat
  <2>1. ASSUME NEW d PROVE IsFiniteSet({x \in shown : x[1] = d}) /\ Of(d) \in Nat
    <3>1. {x \in shown : x[1] = d} \in SUBSET shown
      OBVIOUS
    <3>2. QED
      BY <1>3, <3>1, FS_Subset, FS_CardinalityType
  <2>2. QED
    BY <2>1
<1>7. ASSUME NEW i \in 1..n
      PROVE  LET before == {x \in Chunks(list, T(i)) : x[1] = list[i][1]}
             IN IsFiniteSet(before) /\ Cardinality(before) \in Nat
                /\ Cardinality(before) <= Of(list[i][1])
  <2> DEFINE before == {x \in Chunks(list, T(i)) : x[1] = list[i][1]}
  <2>1. before \in SUBSET {x \in shown : x[1] = list[i][1]}
    BY DEF Chunks
  <2> HIDE DEF before
  <2>2. QED
    BY <1>6, <2>1, FS_Subset, FS_CardinalityType DEF before
<1>8. ASSUME NEW c \in shown PROVE Of(c[1]) <= MaxPerDocument
  <2> DEFINE D == {i \in S : list[i][1] = c[1]}
  <2>1. D \in SUBSET (1..n) /\ D # {}
    BY DEF Chunks
  <2>2. PICK l \in D : \A j \in D : j <= l
    BY <2>1, LastOfSome
  <2> DEFINE before == {x \in Chunks(list, T(l)) : x[1] = list[l][1]}
  <2>3. {x \in shown : x[1] = c[1]} = before \cup {list[l]}
    <3>1. \A i \in D : i < l \/ i = l
      BY <2>1, <2>2
    <3>2. ASSUME NEW x \in shown, x[1] = c[1] PROVE x \in before \cup {list[l]}
      <4>1. PICK i \in S : x = list[i]
        BY DEF Chunks
      <4>2. i \in D
        BY <3>2, <4>1
      <4>3. i < l \/ i = l
        BY <3>1, <4>2
      <4>4. list[l][1] = c[1]
        BY <2>2
      <4>5. QED
        BY <3>2, <4>1, <4>3, <4>4 DEF Chunks
    <3>3. ASSUME NEW x \in before \cup {list[l]} PROVE x \in shown /\ x[1] = c[1]
      BY DEF Chunks
    <3>4. QED
      BY <3>2, <3>3
  <2>4. Cardinality(before) < MaxPerDocument
    BY <1>5, <2>1, <2>2 DEF Room
  <2>5. IsFiniteSet(before) /\ Cardinality(before) \in Nat
    BY <1>7, <2>1, <2>2
  <2>6. Cardinality(before \cup {list[l]}) <= Cardinality(before) + 1
    <3> HIDE DEF before
    <3>1. CASE list[l] \in before
      <4>1. before \cup {list[l]} = before
        BY <3>1
      <4>2. QED
        BY <2>5, <4>1
    <3>2. CASE list[l] \notin before
      <4>1. Cardinality(before \cup {list[l]}) = Cardinality(before) + 1
        BY <2>5, <3>2, FS_AddElement
      <4>2. QED
        BY <2>5, <4>1
    <3>3. QED
      BY <3>1, <3>2
  <2> HIDE DEF before
  <2>7. Of(c[1]) = Cardinality(before \cup {list[l]})
    BY <2>3
  <2>8. Of(c[1]) \in Nat
    BY <1>6
  <2> HIDE DEF Of
  <2>9. QED
    BY <1>4, <2>4, <2>5, <2>6, <2>7, <2>8
<1>9. Cardinality(Characters(shown)) <= MaxChars
  <2>1. CASE S = {}
    <3>1. Characters(shown) = {}
      BY <2>1 DEF Characters, Chunks
    <3>2. QED
      BY <1>4, <3>1, FS_EmptySet
  <2>2. CASE S # {}
    <3>1. PICK l \in S : \A j \in S : j <= l
      BY <2>2, LastOfSome
    <3>2. S = T(l) \cup {l}
      <4>1. \A j \in S : j < l \/ j = l
        BY <3>1
      <4>2. QED
        BY <4>1, Zenon
    <3>3. Room(list, T(l), l)
      BY <1>5
    <3>4. QED
      BY <3>2, <3>3 DEF Room
  <2>3. QED
    BY <2>1, <2>2
<1>10. ASSUME NEW c \in Elements(list) \ shown,
              Of(c[1]) < MaxPerDocument, Cardinality(Characters(shown \cup {c})) <= MaxChars
       PROVE  FALSE
  <2>1. PICK i \in 1..n : c = list[i]
    BY <1>1 DEF Elements
  <2>2. i \notin S
    BY <2>1 DEF Chunks
  <2>3. Cardinality({x \in Chunks(list, T(i)) : x[1] = list[i][1]}) < MaxPerDocument
    <3>1. Of(list[i][1]) \in Nat /\ Of(list[i][1]) < MaxPerDocument
      BY <1>6, <1>10, <2>1
    <3> DEFINE k == Cardinality({x \in Chunks(list, T(i)) : x[1] = list[i][1]})
    <3>2. k \in Nat /\ k <= Of(list[i][1])
      BY <1>7
    <3> HIDE DEF k, Of
    <3>3. k < MaxPerDocument
      BY <1>4, <3>1, <3>2
    <3>4. QED
      BY <3>3 DEF k
  <2>4. Cardinality(Characters(Chunks(list, T(i) \cup {i}))) <= MaxChars
    <3> DEFINE A == Chunks(list, T(i) \cup {i})
               B == shown \cup {c}
    <3>1. A \in SUBSET B
      BY <2>1 DEF Chunks
    <3>2. B \in SUBSET Chunk
      BY <1>3
    <3> HIDE DEF A, B
    <3>3. /\ Cardinality(Characters(A)) \in Nat /\ Cardinality(Characters(B)) \in Nat
          /\ Cardinality(Characters(A)) <= Cardinality(Characters(B))
      BY <3>1, <3>2, CharactersFinite
    <3>4. Cardinality(Characters(B)) <= MaxChars
      BY <1>10 DEF B
    <3>5. QED
      BY <1>4, <3>3, <3>4 DEF A
  <2>5. Room(list, T(i), i)
    BY <2>3, <2>4 DEF Room
  <2>6. QED
    BY <1>5, <2>2, <2>5
<1>11. QED
  BY <1>2, <1>3, <1>8, <1>9, <1>10
(* Since the list that is stored with a document names no group, only who  *)
(* uploaded it may read it (is_metadata_authorized).                       *)
LEMMA AuthorizedOwns ==
    ASSUME NEW d, NEW u \in User, Authorized(d, u)
    PROVE  Owner[d] = u
<1>1. \A x \in StoredAcl(d) : x \notin Groups[u]
  BY RetrievalAssumption, Zenon DEF StoredAcl
<1>2. QED
  BY <1>1 DEF Authorized

(* The sections of a context are one each of the selected chunks.          *)
LEMMA SectionsCut ==
    ASSUME NEW s \in Search, NEW ranked, IsList(ranked), Elements(ranked) \subseteq Chunk
    PROVE  LET list == Sections(s, ranked)
           IN IsList(list) /\ Cut(Reader[s], ranked, Elements(list))
              /\ list \in Seq(Elements(list))
<1> DEFINE nodes == Only(ranked, {c \in Elements(ranked) : Authorized(c[1], Reader[s])})
           chosen == AtPositions(nodes, Selected(nodes))
           list == Sections(s, ranked)
<1>1. IsList(nodes) /\ Elements(nodes) = {c \in Elements(ranked) : Authorized(c[1], Reader[s])}
  <2>1. Elements(ranked) \cap {c \in Elements(ranked) : Authorized(c[1], Reader[s])}
        = {c \in Elements(ranked) : Authorized(c[1], Reader[s])}
    OBVIOUS
  <2>2. QED
    BY <2>1, OnlyOfList
<1>2. Elements(nodes) \subseteq Chunk
  BY <1>1
<1> HIDE DEF nodes
<1>3. Selected(nodes) \in SUBSET DOMAIN nodes
  BY <1>1, SelectedTaken DEF IsList
<1>4. IsList(chosen) /\ Elements(chosen) = Chunks(nodes, Selected(nodes))
      /\ chosen \in Seq(Elements(nodes))
  BY <1>1, <1>3, PartOfList
<1>5. Cut(Reader[s], ranked, Elements(chosen))
  <2> DEFINE shown == Elements(chosen)
             Of(d) == Cardinality({c \in shown : c[1] = d})
  <2>1. /\ IsFiniteSet(shown) /\ shown \subseteq Elements(nodes)
        /\ \A c \in shown : Of(c[1]) <= MaxPerDocument
        /\ Cardinality(Characters(shown)) <= MaxChars
        /\ \A c \in Elements(nodes) \ shown :
              ~(Of(c[1]) < MaxPerDocument /\ Cardinality(Characters(shown \cup {c})) <= MaxChars)
    <3> HIDE DEF chosen
    <3>1. QED
      BY <1>1, <1>2, <1>4, SelectedKeepsTo
  <2> HIDE DEF shown, chosen
  <2>2. shown \subseteq Elements(ranked)
    BY <1>1, <2>1
  <2>3. \A c \in shown : Authorized(c[1], Reader[s])
    BY <1>1, <2>1
  <2>4. \A c \in Elements(ranked) \ shown : Authorized(c[1], Reader[s]) => c \in Elements(nodes) \ shown
    BY <1>1
  <2>5. QED
    BY <2>1, <2>2, <2>3, <2>4 DEF Cut, shown
<1> HIDE DEF chosen
<1>6. IsList(list) /\ Elements(list) = Elements(chosen) /\ list \in Seq(Elements(nodes))
  <2> DEFINE a == Only(chosen, Facts)
             b == Only(chosen, Elements(chosen) \ Facts)
  <2>1. CASE search[s].mode = "graph"
    <3>1. IsList(a) /\ Elements(a) = Elements(chosen) \cap Facts /\ a \in Seq(Elements(chosen))
      BY <1>4, OnlyOfList
    <3>2. IsList(b) /\ Elements(b) = Elements(chosen) \cap (Elements(chosen) \ Facts)
          /\ b \in Seq(Elements(chosen))
      BY <1>4, OnlyOfList
    <3>3. list = a \o b
      BY <2>1 DEF Sections, nodes, chosen
    <3> HIDE DEF a, b, list
    <3>4. Elements(a) \cap Elements(b) = {} /\ Elements(a) \cup Elements(b) = Elements(chosen)
      BY <3>1, <3>2
    <3>5. IsList(list) /\ Elements(list) = Elements(chosen) /\ list \in Seq(Elements(chosen))
      <4>1. PICK X : X = Elements(chosen)
        OBVIOUS
      <4>2. a \in Seq(X) /\ b \in Seq(X) /\ IsList(a) /\ IsList(b) /\ Elements(a) \cap Elements(b) = {}
        BY <3>1, <3>2, <3>4, <4>1
      <4>3. /\ IsList(a \o b) /\ Elements(a \o b) = Elements(a) \cup Elements(b)
            /\ a \o b \in Seq(X)
        BY <4>2, JoinedLists
      <4>4. QED
        BY <3>3, <3>4, <4>1, <4>3
    <3>6. Elements(chosen) \subseteq Elements(nodes)
      BY <1>3, <1>4 DEF Chunks, Elements
    <3>7. list \in Seq(Elements(nodes))
      BY <3>5, <3>6
    <3>8. QED
      BY <3>5, <3>7
  <2>2. CASE search[s].mode # "graph"
    <3>1. list = chosen
      BY <2>2 DEF Sections, nodes, chosen
    <3> HIDE DEF list
    <3>2. QED
      BY <1>4, <3>1
  <2>3. QED
    BY <2>1, <2>2
<1> HIDE DEF list
<1>7. list \in Seq(Elements(list))
  <2>1. PICK k \in Nat : k = Len(list) /\ DOMAIN list = 1..k /\ list = [i \in 1..k |-> list[i]]
    BY <1>6
  <2>2. \A i \in 1..k : list[i] \in Elements(list)
    BY <2>1 DEF Elements
  <2>3. list \in [1..k -> Elements(list)]
    BY <2>1, <2>2
  <2>4. QED
    BY <2>3
<1>8. QED
  BY <1>5, <1>6, <1>7 DEF list

\* An answer shows what its context does, piece by piece.
Sound(u, ranked, answer) ==
    LET shown == {answer[i].chunk : i \in DOMAIN answer}
    IN /\ answer \in Seq(Elements(answer))
       /\ Cardinality(shown) = Len(answer)
       /\ Cut(u, ranked, shown)

LEMMA PiecesSound ==
    ASSUME NEW s \in Search, NEW ranked, IsList(ranked), Elements(ranked) \subseteq Chunk
    PROVE  Sound(Reader[s], ranked, Pieces(s, ranked))
<1> DEFINE list == Sections(s, ranked)
           answer == Pieces(s, ranked)
           shown == {answer[i].chunk : i \in DOMAIN answer}
<1>1. IsList(list) /\ Cut(Reader[s], ranked, Elements(list)) /\ list \in Seq(Elements(list))
  BY SectionsCut
<1>2. DOMAIN answer = DOMAIN list /\ answer = [i \in DOMAIN list |-> answer[i]]
  BY DEF Pieces
<1>3. \A i \in DOMAIN answer : answer[i].chunk = list[i]
  BY DEF Pieces
<1> HIDE DEF list, answer
<1>4. PICK n \in Nat : n = Len(list) /\ DOMAIN list = 1..n
  BY <1>1
<1>5. answer \in Seq(Elements(answer)) /\ Len(answer) = n
  <2>1. \A i \in 1..n : answer[i] \in Elements(answer)
    BY <1>2, <1>4 DEF Elements
  <2>2. answer \in [1..n -> Elements(answer)]
    BY <1>2, <1>4, <2>1
  <2>3. QED
    BY <2>2
<1>6. shown = Elements(list)
  BY <1>2, <1>3 DEF Elements
<1>7. Cardinality(Elements(list)) = n
  <2>1. Elements(list) = Chunks(list, DOMAIN list)
    BY DEF Elements, Chunks
  <2>2. Cardinality(Elements(list)) = Cardinality(1..n)
    BY <1>1, <1>4, <2>1, ListCounts
  <2>3. Cardinality(1..n) = n
    BY FS_Interval
  <2>4. QED
    BY <2>2, <2>3
<1>8. QED
  BY <1>1, <1>5, <1>6, <1>7 DEF Sound, answer
-----------------------------------------------------------------------------
(* The searches.                                                           *)

Shown == {"caching", "auditing", "answered"}
Ended == {"failing", "raised", "unavailable"}

Readable(s, list) == \A c \in Elements(list) : c \in Chunk /\ Authorized(c[1], Reader[s])

\* A search that has begun: the lists of the backends are its reader's, the
\* list that waits for the reranker is their fusion, and what it shows is the
\* context of the reranked list.
RowInv(s, r) ==
    \/ r = [pc |-> "unsent"]
    \/ /\ r = [pc |-> r.pc, mode |-> r.mode, asked |-> r.asked, found |-> r.found,
               ranked |-> r.ranked, answer |-> r.answer, cause |-> r.cause]
       /\ r.pc \in {"retrieving", "reranking"} \cup Shown \cup Ended
       /\ r.asked \subseteq Backend /\ DOMAIN r.found \subseteq r.asked
       /\ \A b \in DOMAIN r.found :
             IsList(r.found[b]) /\ Readable(s, r.found[b]) /\ DOMAIN r.found[b] \subseteq 1..CandidateTopK
       /\ r.pc \in {"retrieving", "reranking"} => r.answer = <<>>
       /\ r.pc = "reranking" => r.ranked = Fuse(r.found, FusionLimit)
       /\ r.pc \in Shown => Sound(Reader[s], r.ranked, r.answer) /\ Readable(s, r.ranked)
       /\ r.answer \in Seq(Elements(r.answer))
       /\ \A i \in DOMAIN r.answer : Owner[r.answer[i].chunk[1]] = Reader[s]

SearchesInv ==
    /\ held \in [Backend -> SUBSET Chunk]
    /\ search = [s \in Search |-> search[s]]
    /\ thread \in Search \cup {None} /\ queue \in Seq(Search)
    /\ \A s \in Search : RowInv(s, search[s])

(* What the backends and the reranker return.                              *)
LEMMA ListsAreLists ==
    ASSUME NEW S \in SUBSET Chunk, NEW n \in Nat, NEW list \in Lists(S, n)
    PROVE  IsList(list) /\ Elements(list) \subseteq S /\ DOMAIN list \subseteq 1..n
<1>1. IsFiniteSet(S) /\ Cardinality(S) \in Nat
  BY RetrievalAssumption, FS_Subset, FS_CardinalityType
<1> DEFINE k == IF Cardinality(S) < n THEN Cardinality(S) ELSE n
<1>2. k \in Nat /\ k <= n
  BY <1>1
<1>3. list \in [1..k -> S] /\ \A i, j \in 1..k : list[i] = list[j] => i = j
  BY DEF Lists
<1> HIDE DEF k
<1>4. DOMAIN list = 1..k
  BY <1>3
<1>5. IsList(list)
  BY <1>2, <1>3, <1>4 DEF IsList
<1>6. Elements(list) \subseteq S
  BY <1>3, <1>4 DEF Elements
<1>7. DOMAIN list \subseteq 1..n
  BY <1>2, <1>4
<1>8. QED
  BY <1>5, <1>6, <1>7

(* A context of nothing shows nothing.                                     *)
LEMMA NothingSound ==
    ASSUME NEW u
    PROVE  Sound(u, <<>>, <<>>)
<1>1. Elements(<<>>) = {}
  BY DEF Elements
<1>2. Characters({}) = {}
  BY DEF Characters
<1>3. Cut(u, <<>>, {})
  <2>1. MaxChars \in Nat
    BY RrfAssumption
  <2>2. Cardinality(Characters({})) <= MaxChars
    BY <1>2, <2>1, FS_EmptySet
  <2>3. QED
    BY <1>1, <2>2, FS_EmptySet DEF Cut
<1>4. {(<<>>)[i].chunk : i \in DOMAIN <<>>} = {}
  OBVIOUS
<1>5. <<>> \in Seq(Elements(<<>>)) /\ Len(<<>>) = 0
  OBVIOUS
<1>6. QED
  BY <1>3, <1>4, <1>5, FS_EmptySet DEF Sound

(* Raising, auditing and answering change no list.                         *)
LEMMA RowMoves ==
    ASSUME NEW s \in Search, NEW r, RowInv(s, r), r # [pc |-> "unsent"], NEW q, NEW p, NEW z,
           q = [pc |-> p, mode |-> r.mode, asked |-> r.asked, found |-> r.found,
                ranked |-> r.ranked, answer |-> r.answer, cause |-> z],
           p \in Ended \/ (p \in {"auditing", "answered"} /\ r.pc \in Shown)
    PROVE  RowInv(s, q)
<1>1. q.pc = p /\ q.mode = r.mode /\ q.asked = r.asked /\ q.found = r.found
      /\ q.ranked = r.ranked /\ q.answer = r.answer /\ q.cause = z
  OBVIOUS
<1>2. q.pc \in {"retrieving", "reranking"} \cup Shown \cup Ended /\ q.pc \notin {"retrieving", "reranking"}
  BY <1>1 DEF Shown, Ended
<1>3. q.pc \in Shown => r.pc \in Shown
  BY <1>1 DEF Shown, Ended
<1>4. q = [pc |-> q.pc, mode |-> q.mode, asked |-> q.asked, found |-> q.found,
           ranked |-> q.ranked, answer |-> q.answer, cause |-> q.cause]
  BY <1>1
<1>5. QED
  BY <1>1, <1>2, <1>3, <1>4 DEF RowInv

(* A search begins with nothing found.                                     *)
LEMMA RowBegins ==
    ASSUME NEW s \in Search, NEW mode \in Modes, NEW q,
           q = [pc |-> "retrieving", mode |-> mode, asked |-> Asked(mode),
                found |-> [b \in {} |-> <<>>], ranked |-> <<>>, answer |-> <<>>, cause |-> "none"]
    PROVE  RowInv(s, q)
<1>1. Asked(mode) \subseteq Backend
  <2>1. mode = "milvus" \/ mode = "graph" \/ mode = "mg"
    BY RetrievalAssumption
  <2>2. QED
    BY <2>1, Zenon DEF Asked, Backend
<1>2. DOMAIN q.found = {} /\ q.answer = <<>> /\ q.pc = "retrieving" /\ q.asked = Asked(mode)
  OBVIOUS
<1>3. q.answer \in Seq(Elements(q.answer)) /\ DOMAIN q.answer = {}
  BY <1>2
<1>4. q = [pc |-> q.pc, mode |-> q.mode, asked |-> q.asked, found |-> q.found,
           ranked |-> q.ranked, answer |-> q.answer, cause |-> q.cause]
  OBVIOUS
<1>5. q.pc \notin Shown /\ q.pc # "reranking"
  BY <1>2 DEF Shown
<1>6. QED
  BY <1>1, <1>2, <1>3, <1>4, <1>5 DEF RowInv
(* What a backend returned joins the lists, and the last one has them fused. *)
LEMMA RowFinds ==
    ASSUME NEW s \in Search, NEW r, RowInv(s, r), r # [pc |-> "unsent"], r.pc = "retrieving",
           NEW b, b \in r.asked \ DOMAIN r.found,
           NEW list, IsList(list), Readable(s, list), DOMAIN list \subseteq 1..CandidateTopK,
           NEW found, found = [a \in DOMAIN r.found \cup {b} |-> IF a = b THEN list ELSE r.found[a]],
           NEW p, NEW ranked, NEW q,
           q = [pc |-> p, mode |-> r.mode, asked |-> r.asked, found |-> found,
                ranked |-> ranked, answer |-> r.answer, cause |-> r.cause],
           \/ p = "retrieving"
           \/ /\ ranked = Fuse(found, FusionLimit)
              /\ p = IF ranked = <<>> THEN "caching" ELSE "reranking"
    PROVE  RowInv(s, q)
<1>1. /\ r.asked \subseteq Backend /\ DOMAIN r.found \subseteq r.asked /\ r.answer = <<>>
      /\ \A a \in DOMAIN r.found :
            IsList(r.found[a]) /\ Readable(s, r.found[a]) /\ DOMAIN r.found[a] \subseteq 1..CandidateTopK
  BY DEF RowInv
<1>2. DOMAIN found \subseteq r.asked
  BY <1>1
<1>3. \A a \in DOMAIN found :
         IsList(found[a]) /\ Readable(s, found[a]) /\ DOMAIN found[a] \subseteq 1..CandidateTopK
  <2>1. ASSUME NEW a \in DOMAIN found
        PROVE  IsList(found[a]) /\ Readable(s, found[a]) /\ DOMAIN found[a] \subseteq 1..CandidateTopK
    <3>1. CASE a = b
      <4>1. found[a] = list
        BY <3>1
      <4>2. QED
        BY <4>1
    <3>2. CASE a # b
      <4>1. a \in DOMAIN r.found /\ found[a] = r.found[a]
        BY <3>2
      <4>2. QED
        BY <1>1, <4>1
    <3>3. QED
      BY <3>1, <3>2
  <2>2. QED
    BY <2>1
<1>4. Readable(s, Fuse(found, FusionLimit))
  <2>1. ResultLists(found)
    BY <1>1, <1>2, <1>3 DEF ResultLists, Readable
  <2>2. FusionLimit \in Nat
    BY RetrievalAssumption
  <2>3. Elements(Fuse(found, FusionLimit)) \subseteq Candidates(found)
    BY <2>1, <2>2, FusedPlaces
  <2>4. \A c \in Candidates(found) : c \in Chunk /\ Authorized(c[1], Reader[s])
    BY <1>3 DEF Candidates, Readable
  <2>5. QED
    BY <2>3, <2>4 DEF Readable
<1>5. q.pc = p /\ q.mode = r.mode /\ q.asked = r.asked /\ q.found = found
      /\ q.ranked = ranked /\ q.answer = <<>> /\ q.cause = r.cause
  BY <1>1
<1>6. q = [pc |-> q.pc, mode |-> q.mode, asked |-> q.asked, found |-> q.found,
           ranked |-> q.ranked, answer |-> q.answer, cause |-> q.cause]
  BY <1>5
<1>7. q.answer \in Seq(Elements(q.answer)) /\ DOMAIN q.answer = {}
  <2>1. <<>> \in Seq(Elements(<<>>)) /\ DOMAIN <<>> = {}
    OBVIOUS
  <2>2. QED
    BY <1>5, <2>1
<1>8. q.pc \in {"retrieving", "reranking"} \cup Shown
  BY <1>5 DEF Shown
<1>9. q.pc = "reranking" => q.ranked = Fuse(q.found, FusionLimit)
  BY <1>5
<1>10. q.pc \in Shown => Sound(Reader[s], q.ranked, q.answer) /\ Readable(s, q.ranked)
  <2>1. ASSUME q.pc \in Shown PROVE q.ranked = <<>> /\ q.ranked = Fuse(found, FusionLimit)
    BY <1>5, <2>1 DEF Shown
  <2>2. QED
    BY <1>4, <1>5, <2>1, NothingSound
<1>11. QED
  BY <1>1, <1>2, <1>3, <1>5, <1>6, <1>7, <1>8, <1>9, <1>10 DEF RowInv

(* The context of the list that the reranker returns is the reader's.      *)
LEMMA RowReranks ==
    ASSUME NEW s \in Search, NEW r, r = search[s], RowInv(s, r), r # [pc |-> "unsent"],
           r.pc = "reranking", NEW list \in Lists(Elements(r.ranked), TopN), NEW q,
           q = [pc |-> "caching", mode |-> r.mode, asked |-> r.asked, found |-> r.found,
                ranked |-> list, answer |-> Pieces(s, list), cause |-> r.cause]
    PROVE  RowInv(s, q)
<1>1. Readable(s, r.ranked)
  <2>1. ResultLists(r.found)
    BY DEF RowInv, ResultLists, Readable
  <2>2. FusionLimit \in Nat
    BY RetrievalAssumption
  <2>3. Elements(r.ranked) \subseteq Candidates(r.found)
    BY <2>1, <2>2, FusedPlaces DEF RowInv
  <2>4. \A c \in Candidates(r.found) : c \in Chunk /\ Authorized(c[1], Reader[s])
    BY DEF Candidates, Readable, RowInv
  <2>5. QED
    BY <2>3, <2>4 DEF Readable
<1>2. IsList(list) /\ Elements(list) \subseteq Elements(r.ranked) /\ Elements(r.ranked) \subseteq Chunk
  <2>1. Elements(r.ranked) \in SUBSET Chunk /\ TopN \in Nat
    BY <1>1, RetrievalAssumption DEF Readable
  <2>2. QED
    BY <2>1, ListsAreLists
<1>3. Readable(s, list)
  BY <1>1, <1>2 DEF Readable
<1>4. PICK answer : answer = Pieces(s, list)
  OBVIOUS
<1>5. Sound(Reader[s], list, answer)
  BY <1>2, <1>4, PiecesSound
<1>6. \A i \in DOMAIN answer : Owner[answer[i].chunk[1]] = Reader[s]
  <2>1. ASSUME NEW i \in DOMAIN answer PROVE Owner[answer[i].chunk[1]] = Reader[s]
    <3>1. Authorized(answer[i].chunk[1], Reader[s])
      BY <1>5 DEF Sound, Cut
    <3>2. Reader[s] \in User
      BY RetrievalAssumption
    <3>3. QED
      BY <3>1, <3>2, AuthorizedOwns
  <2>2. QED
    BY <2>1
<1>7. q.pc = "caching" /\ q.mode = r.mode /\ q.asked = r.asked /\ q.found = r.found
      /\ q.ranked = list /\ q.answer = answer /\ q.cause = r.cause
  BY <1>4
<1>8. q = [pc |-> q.pc, mode |-> q.mode, asked |-> q.asked, found |-> q.found,
           ranked |-> q.ranked, answer |-> q.answer, cause |-> q.cause]
  BY <1>4, <1>7
<1>9. q.pc \in Shown /\ q.pc # "reranking" /\ q.pc # "retrieving"
  BY <1>7 DEF Shown
<1>10. answer \in Seq(Elements(answer))
  BY <1>5 DEF Sound
<1>11. QED
  BY <1>3, <1>5, <1>6, <1>7, <1>8, <1>9, <1>10 DEF RowInv
\* A step of a search, which keeps what an answer shows.
RowsKept ==
    /\ search' = [t \in Search |-> search'[t]]
    /\ \A t \in Search : RowInv(t, search'[t])
    /\ \A t \in Search : search[t] # [pc |-> "unsent"] =>
          /\ search'[t] # [pc |-> "unsent"]
          /\ \A piece \in Elements(search[t].answer) : piece \in Elements(search'[t].answer)

(* Every step of a search keeps what holds of the searches.                *)
LEMMA OneRowKept ==
    ASSUME SearchesInv, NEW s \in Search, NEW q,
           search' = [t \in Search |-> IF t = s THEN q ELSE search[t]],
           RowInv(s, q), search[s] # [pc |-> "unsent"] => q # [pc |-> "unsent"],
           search[s] # [pc |-> "unsent"] =>
              (q.answer = search[s].answer \/ search[s].answer = <<>>)
    PROVE  RowsKept
<1>1. \A t \in Search : RowInv(t, search[t])
  BY DEF SearchesInv
<1>2. Elements(<<>>) = {}
  BY DEF Elements
<1>3. ASSUME NEW t \in Search, search[t] # [pc |-> "unsent"]
      PROVE  /\ search'[t] # [pc |-> "unsent"]
             /\ \A piece \in Elements(search[t].answer) : piece \in Elements(search'[t].answer)
  <2>1. CASE t # s
    BY <1>3, <2>1
  <2>2. CASE t = s
    <3>1. search'[t] = q
      BY <2>2
    <3>2. CASE q.answer = search[s].answer
      BY <1>3, <2>2, <3>1, <3>2
    <3>3. CASE search[s].answer = <<>>
      BY <1>2, <1>3, <2>2, <3>1, <3>3
    <3>4. QED
      BY <1>3, <2>2, <3>2, <3>3
  <2>3. QED
    BY <2>1, <2>2
<1>4. search' = [t \in Search |-> search'[t]]
  OBVIOUS
<1>5. \A t \in Search : RowInv(t, search'[t])
  BY <1>1
<1>6. QED
  BY <1>3, <1>4, <1>5 DEF RowsKept

(* What an assignment to fields of a search leaves.                        *)
LEMMA RowsWritten ==
    ASSUME NEW r, r = [pc |-> r.pc, mode |-> r.mode, asked |-> r.asked, found |-> r.found,
                       ranked |-> r.ranked, answer |-> r.answer, cause |-> r.cause],
           NEW p, NEW z
    PROVE  /\ [r EXCEPT !.cause = z, !.pc = p] =
             [pc |-> p, mode |-> r.mode, asked |-> r.asked, found |-> r.found,
             ranked |-> r.ranked, answer |-> r.answer, cause |-> z]
           /\ [r EXCEPT !.pc = p, !.cause = z] =
             [pc |-> p, mode |-> r.mode, asked |-> r.asked, found |-> r.found,
             ranked |-> r.ranked, answer |-> r.answer, cause |-> z]
           /\ [r EXCEPT !.pc = p] =
             [pc |-> p, mode |-> r.mode, asked |-> r.asked, found |-> r.found,
             ranked |-> r.ranked, answer |-> r.answer, cause |-> r.cause]
<1>0. DOMAIN r = {"pc", "mode", "asked", "found", "ranked", "answer", "cause"}
  OBVIOUS
<1>1. ASSUME NEW q, q = [r EXCEPT !.cause = z, !.pc = p]
      PROVE  q = [pc |-> p, mode |-> r.mode, asked |-> r.asked, found |-> r.found,
             ranked |-> r.ranked, answer |-> r.answer, cause |-> z]
  <2>1. DOMAIN q = DOMAIN r /\ q = [f \in DOMAIN r |-> q[f]]
    BY <1>1
  <2>2. q.pc = p /\ q.mode = r.mode /\ q.asked = r.asked /\ q.found = r.found
        /\ q.ranked = r.ranked /\ q.answer = r.answer /\ q.cause = z
    BY <1>1
  <2>3. QED
    BY <1>0, <2>1, <2>2
<1>2. ASSUME NEW q, q = [r EXCEPT !.pc = p, !.cause = z]
      PROVE  q = [pc |-> p, mode |-> r.mode, asked |-> r.asked, found |-> r.found,
             ranked |-> r.ranked, answer |-> r.answer, cause |-> z]
  <2>1. DOMAIN q = DOMAIN r /\ q = [f \in DOMAIN r |-> q[f]]
    BY <1>2
  <2>2. q.pc = p /\ q.mode = r.mode /\ q.asked = r.asked /\ q.found = r.found
        /\ q.ranked = r.ranked /\ q.answer = r.answer /\ q.cause = z
    BY <1>2
  <2>3. QED
    BY <1>0, <2>1, <2>2
<1>3. ASSUME NEW q, q = [r EXCEPT !.pc = p]
      PROVE  q = [pc |-> p, mode |-> r.mode, asked |-> r.asked, found |-> r.found,
             ranked |-> r.ranked, answer |-> r.answer, cause |-> r.cause]
  <2>1. DOMAIN q = DOMAIN r /\ q = [f \in DOMAIN r |-> q[f]]
    BY <1>3
  <2>2. q.pc = p /\ q.mode = r.mode /\ q.asked = r.asked /\ q.found = r.found
        /\ q.ranked = r.ranked /\ q.answer = r.answer /\ q.cause = r.cause
    BY <1>3
  <2>3. QED
    BY <1>0, <2>1, <2>2
<1>4. QED
  BY <1>1, <1>2, <1>3

LEMMA RaisesKeeps ==
    ASSUME SearchesInv, NEW s \in Search, search[s] # [pc |-> "unsent"], NEW z, Raises(s, z)
    PROVE  RowsKept
<1> DEFINE r == search[s]
<1>1. PICK p \in Ended : search' = [search EXCEPT ![s].cause = z, ![s].pc = p]
  BY DEF Raises, Ended
<1> DEFINE q == [pc |-> p, mode |-> r.mode, asked |-> r.asked, found |-> r.found,
                 ranked |-> r.ranked, answer |-> r.answer, cause |-> z]
<1>2. r = [pc |-> r.pc, mode |-> r.mode, asked |-> r.asked, found |-> r.found,
           ranked |-> r.ranked, answer |-> r.answer, cause |-> r.cause]
      /\ RowInv(s, r)
  BY DEF SearchesInv, RowInv
<1>3. search' = [t \in Search |-> IF t = s THEN q ELSE search[t]]
  <2>1. search' = [t \in Search |-> IF t = s THEN [r EXCEPT !.cause = z, !.pc = p] ELSE search[t]]
    BY <1>1 DEF SearchesInv
  <2>2. [r EXCEPT !.cause = z, !.pc = p] = q
    BY <1>2, RowsWritten
  <2>3. QED
    BY <2>1, <2>2
<1>4. RowInv(s, q)
  BY <1>2, RowMoves
<1>5. q.answer = r.answer /\ q # [pc |-> "unsent"]
  OBVIOUS
<1> HIDE DEF q
<1>6. QED
  BY <1>3, <1>4, <1>5, OneRowKept

LEMMA BeginKeeps ==
    ASSUME SearchesInv, NEW s \in Search, Begin(s)
    PROVE  RowsKept
<1>1. PICK mode \in Modes :
        search' = [search EXCEPT ![s] =
             [pc |-> "retrieving", mode |-> mode, asked |-> Asked(mode),
              found |-> [b \in {} |-> <<>>], ranked |-> <<>>, answer |-> <<>>,
              cause |-> "none"]]
  BY DEF Begin
<1>2. PICK q : q = [pc |-> "retrieving", mode |-> mode, asked |-> Asked(mode),
              found |-> [b \in {} |-> <<>>], ranked |-> <<>>, answer |-> <<>>,
              cause |-> "none"]
  OBVIOUS
<1>3. RowInv(s, q)
  BY <1>2, RowBegins
<1>4. search' = [t \in Search |-> IF t = s THEN q ELSE search[t]]
  BY <1>1, <1>2 DEF SearchesInv
<1>5. q # [pc |-> "unsent"]
  <2>1. q.pc = "retrieving"
    BY <1>2
  <2>2. QED
    BY <2>1
<1>6. search[s] = [pc |-> "unsent"]
  BY DEF Begin, SearchesInv, RowInv, Shown, Ended
<1>7. QED
  BY <1>3, <1>4, <1>5, <1>6, OneRowKept

LEMMA BackendAnswersKeeps ==
    ASSUME SearchesInv, NEW s \in Search, NEW b \in Backend, BackendAnswers(s, b)
    PROVE  RowsKept
<1>0. PICK r : r = search[s]
  OBVIOUS
<1>1. r # [pc |-> "unsent"] /\ r.pc = "retrieving" /\ b \in r.asked \ DOMAIN r.found
  <2>1. r.pc = "retrieving" /\ b \in r.asked \ DOMAIN r.found
    BY <1>0 DEF BackendAnswers
  <2>2. QED
    BY <2>1
<1>2. r = [pc |-> r.pc, mode |-> r.mode, asked |-> r.asked, found |-> r.found,
           ranked |-> r.ranked, answer |-> r.answer, cause |-> r.cause]
      /\ RowInv(s, r) /\ r.answer = <<>>
  BY <1>0, <1>1 DEF SearchesInv, RowInv
<1>3. PICK list \in Lists(AuthorizedChunks(b, Reader[s]), CandidateTopK) :
         LET old == search[s].found
             found == [a \in DOMAIN old \cup {b} |-> IF a = b THEN list ELSE old[a]]
             fused == Fuse(found, FusionLimit)
         IN IF DOMAIN found # search[s].asked
            THEN search' = [search EXCEPT ![s].found = found]
            ELSE search' = [search EXCEPT ![s].found = found, ![s].ranked = fused,
                      ![s].pc = IF fused = <<>> THEN "caching" ELSE "reranking"]
  BY DEF BackendAnswers
<1>4. PICK found : found = [a \in DOMAIN r.found \cup {b} |-> IF a = b THEN list ELSE r.found[a]]
  OBVIOUS
<1>5. PICK fused : fused = Fuse(found, FusionLimit)
  OBVIOUS
<1>6. \/ search' = [search EXCEPT ![s].found = found]
      \/ search' = [search EXCEPT ![s].found = found, ![s].ranked = fused,
                      ![s].pc = IF fused = <<>> THEN "caching" ELSE "reranking"]
  <2>1. IF DOMAIN found # search[s].asked
        THEN search' = [search EXCEPT ![s].found = found]
        ELSE search' = [search EXCEPT ![s].found = found, ![s].ranked = fused,
                      ![s].pc = IF fused = <<>> THEN "caching" ELSE "reranking"]
    BY <1>0, <1>3, <1>4, <1>5, Zenon
  <2>2. QED
    BY <2>1, Zenon
<1>7. PICK p, ranked :
        /\ search' = [search EXCEPT ![s].found = found, ![s].ranked = ranked, ![s].pc = p]
        /\ \/ p = "retrieving"
           \/ /\ ranked = Fuse(found, FusionLimit)
              /\ p = IF ranked = <<>> THEN "caching" ELSE "reranking"
  <2>1. CASE search' = [search EXCEPT ![s].found = found]
    <3>1. search' = [search EXCEPT ![s].found = found, ![s].ranked = r.ranked, ![s].pc = "retrieving"]
      <4>1. search' = [t \in Search |-> IF t = s THEN [r EXCEPT !.found = found] ELSE search[t]]
        BY <1>0, <2>1 DEF SearchesInv
      <4>2. [r EXCEPT !.found = found] = [r EXCEPT !.found = found, !.ranked = r.ranked, !.pc = "retrieving"]
        BY <1>1, <1>2
      <4>3. QED
        BY <1>0, <4>1, <4>2 DEF SearchesInv
    <3>2. QED
      BY <3>1
  <2>2. CASE search' = [search EXCEPT ![s].found = found, ![s].ranked = fused,
                      ![s].pc = IF fused = <<>> THEN "caching" ELSE "reranking"]
    BY <1>5, <2>2
  <2>3. QED
    BY <1>6, <2>1, <2>2
<1>8. PICK q : q = [pc |-> p, mode |-> r.mode, asked |-> r.asked, found |-> found,
                ranked |-> ranked, answer |-> r.answer, cause |-> r.cause]
  OBVIOUS
<1>9. search' = [t \in Search |-> IF t = s THEN q ELSE search[t]]
  <2>1. search' = [t \in Search |-> IF t = s THEN [r EXCEPT !.found = found, !.ranked = ranked, !.pc = p]
                                   ELSE search[t]]
    BY <1>0, <1>7 DEF SearchesInv
  <2>2. [r EXCEPT !.found = found, !.ranked = ranked, !.pc = p] = q
    <3>1. [r EXCEPT !.found = found, !.ranked = ranked, !.pc = p] =
            [pc |-> p, mode |-> r.mode, asked |-> r.asked, found |-> found,
             ranked |-> ranked, answer |-> r.answer, cause |-> r.cause]
      <4>1. PICK w : w = [r EXCEPT !.found = found, !.ranked = ranked, !.pc = p]
        OBVIOUS
      <4>2. DOMAIN w = DOMAIN r /\ w = [f \in DOMAIN r |-> w[f]]
        BY <4>1
      <4>3. DOMAIN r = {"pc", "mode", "asked", "found", "ranked", "answer", "cause"}
        BY <1>2
      <4>4. w.pc = p /\ w.mode = r.mode /\ w.asked = r.asked /\ w.found = found
            /\ w.ranked = ranked /\ w.answer = r.answer /\ w.cause = r.cause
        BY <4>1, <4>3
      <4>5. QED
        BY <4>1, <4>2, <4>3, <4>4
    <3>2. QED
      BY <1>8, <3>1
  <2>3. QED
    BY <2>1, <2>2
<1>10. IsList(list) /\ Readable(s, list) /\ DOMAIN list \subseteq 1..CandidateTopK
  <2>1. AuthorizedChunks(b, Reader[s]) \in SUBSET Chunk
    BY DEF AuthorizedChunks, SearchesInv
  <2>2. CandidateTopK \in Nat
    BY RetrievalAssumption
  <2>3. /\ IsList(list) /\ Elements(list) \subseteq AuthorizedChunks(b, Reader[s])
        /\ DOMAIN list \subseteq 1..CandidateTopK
    BY <2>1, <2>2, ListsAreLists
  <2>4. QED
    BY <2>1, <2>3 DEF Readable, AuthorizedChunks
<1>11. RowInv(s, q)
  <2>1. \/ p = "retrieving"
        \/ ranked = Fuse(found, FusionLimit) /\ p = IF ranked = <<>> THEN "caching" ELSE "reranking"
    BY <1>7
  <2>2. RowInv(s, r)
    BY <1>2
  <2>3. QED
    BY <1>1, <1>4, <1>8, <1>10, <2>1, <2>2, RowFinds
<1>12. q.answer = r.answer /\ q # [pc |-> "unsent"]
  <2>1. q.answer = r.answer /\ DOMAIN q # {"pc"}
    BY <1>8
  <2>2. DOMAIN [pc |-> "unsent"] = {"pc"}
    OBVIOUS
  <2>3. QED
    BY <2>1, <2>2
<1>13. QED
  BY <1>0, <1>9, <1>11, <1>12, OneRowKept
LEMMA RerankKeeps ==
    ASSUME SearchesInv, RerankReturns
    PROVE  RowsKept
<1>1. PICK s \in Search : s = thread
  BY DEF SearchesInv, RerankReturns
<1>2. PICK r : r = search[s]
  OBVIOUS
<1>3. RowInv(s, r)
  BY <1>2 DEF SearchesInv
<1>4. CASE r.pc # "reranking"
  <2>1. search' = search
    BY <1>1, <1>2, <1>4 DEF RerankReturns
  <2>2. search' = [t \in Search |-> IF t = s THEN r ELSE search[t]]
    BY <1>2, <2>1 DEF SearchesInv
  <2>3. QED
    BY <1>2, <1>3, <2>2, OneRowKept
<1>5. CASE r.pc = "reranking"
  <2>1. r # [pc |-> "unsent"]
    BY <1>5
  <2>2. r = [pc |-> r.pc, mode |-> r.mode, asked |-> r.asked, found |-> r.found,
             ranked |-> r.ranked, answer |-> r.answer, cause |-> r.cause]
        /\ r.answer = <<>>
    BY <1>3, <1>5, <2>1 DEF RowInv
  <2>3. CASE Raises(s, "other")
    BY <1>2, <2>1, <2>3, RaisesKeeps
  <2>4. CASE \E list \in Lists(Elements(search[s].ranked), TopN) :
                search' = [search EXCEPT ![s].ranked = list,
                                   ![s].answer = Pieces(s, list), ![s].pc = "caching"]
    <3>1. PICK list \in Lists(Elements(r.ranked), TopN) :
                search' = [search EXCEPT ![s].ranked = list,
                                   ![s].answer = Pieces(s, list), ![s].pc = "caching"]
      BY <1>2, <2>4
    <3>2. PICK q : q = [pc |-> "caching", mode |-> r.mode, asked |-> r.asked, found |-> r.found,
                        ranked |-> list, answer |-> Pieces(s, list), cause |-> r.cause]
      OBVIOUS
    <3>3. search' = [t \in Search |-> IF t = s THEN q ELSE search[t]]
      <4>1. search' = [t \in Search |->
                         IF t = s THEN [r EXCEPT !.ranked = list, !.answer = Pieces(s, list), !.pc = "caching"]
                         ELSE search[t]]
        BY <1>2, <3>1 DEF SearchesInv
      <4>2. PICK pieces : pieces = Pieces(s, list)
        OBVIOUS
      <4>3. [r EXCEPT !.ranked = list, !.answer = pieces, !.pc = "caching"] =
              [pc |-> "caching", mode |-> r.mode, asked |-> r.asked, found |-> r.found,
               ranked |-> list, answer |-> pieces, cause |-> r.cause]
        <5>1. PICK w : w = [r EXCEPT !.ranked = list, !.answer = pieces, !.pc = "caching"]
          OBVIOUS
        <5>2. DOMAIN w = DOMAIN r /\ w = [f \in DOMAIN r |-> w[f]]
          BY <5>1
        <5>3. DOMAIN r = {"pc", "mode", "asked", "found", "ranked", "answer", "cause"}
          BY <2>2
        <5>4. w.pc = "caching" /\ w.mode = r.mode /\ w.asked = r.asked /\ w.found = r.found
              /\ w.ranked = list /\ w.answer = pieces /\ w.cause = r.cause
          BY <5>1, <5>3
        <5>5. QED
          BY <5>1, <5>2, <5>3, <5>4
      <4>4. QED
        BY <3>2, <4>1, <4>2, <4>3
    <3>4. RowInv(s, q)
      BY <1>2, <1>3, <1>5, <2>1, <3>2, RowReranks
    <3>5. q # [pc |-> "unsent"]
      <4>1. q.pc = "caching"
        BY <3>2
      <4>2. QED
        BY <4>1
    <3>6. QED
      BY <1>2, <2>2, <3>3, <3>4, <3>5, OneRowKept
  <2>5. QED
    BY <1>1, <1>2, <1>5, <2>3, <2>4 DEF RerankReturns
<1>6. QED
  BY <1>4, <1>5

(* Caching, auditing and answering, and what fails of these.               *)
LEMMA MovesKeep ==
    ASSUME SearchesInv, NEW s \in Search, NEW p, NEW z,
           \/ search' = [search EXCEPT ![s].pc = p]
           \/ search' = [search EXCEPT ![s].pc = p, ![s].cause = z],
           search[s].pc \in Shown \cup Ended,
           p \in Ended \/ (p \in {"auditing", "answered"} /\ search[s].pc \in Shown)
    PROVE  RowsKept
<1>1. PICK r : r = search[s]
  OBVIOUS
<1>2. RowInv(s, r)
  BY <1>1 DEF SearchesInv
<1>3. r # [pc |-> "unsent"] /\ r.pc \notin {"retrieving", "reranking"}
  BY <1>1 DEF Shown, Ended
<1>4. r = [pc |-> r.pc, mode |-> r.mode, asked |-> r.asked, found |-> r.found,
           ranked |-> r.ranked, answer |-> r.answer, cause |-> r.cause]
  BY <1>2, <1>3 DEF RowInv
<1>5. PICK x : \/ search' = [search EXCEPT ![s].pc = p] /\ x = r.cause
               \/ search' = [search EXCEPT ![s].pc = p, ![s].cause = z] /\ x = z
  OBVIOUS
<1>6. PICK q : q = [pc |-> p, mode |-> r.mode, asked |-> r.asked, found |-> r.found,
                    ranked |-> r.ranked, answer |-> r.answer, cause |-> x]
  OBVIOUS
<1>7. search' = [t \in Search |-> IF t = s THEN q ELSE search[t]]
  <2>1. CASE search' = [search EXCEPT ![s].pc = p] /\ x = r.cause
    <3>1. search' = [t \in Search |-> IF t = s THEN [r EXCEPT !.pc = p] ELSE search[t]]
      BY <1>1, <2>1 DEF SearchesInv
    <3>2. [r EXCEPT !.pc = p] =
            [pc |-> p, mode |-> r.mode, asked |-> r.asked, found |-> r.found,
             ranked |-> r.ranked, answer |-> r.answer, cause |-> r.cause]
      BY <1>4, RowsWritten
    <3>3. QED
      BY <1>6, <2>1, <3>1, <3>2
  <2>2. CASE search' = [search EXCEPT ![s].pc = p, ![s].cause = z] /\ x = z
    <3>1. search' = [t \in Search |-> IF t = s THEN [r EXCEPT !.pc = p, !.cause = z] ELSE search[t]]
      BY <1>1, <2>2 DEF SearchesInv
    <3>2. [r EXCEPT !.pc = p, !.cause = z] =
            [pc |-> p, mode |-> r.mode, asked |-> r.asked, found |-> r.found,
             ranked |-> r.ranked, answer |-> r.answer, cause |-> z]
      BY <1>4, RowsWritten
    <3>3. QED
      BY <1>6, <2>2, <3>1, <3>2
  <2>3. QED
    BY <1>5, <2>1, <2>2
<1>8. RowInv(s, q)
  BY <1>1, <1>2, <1>3, <1>6, RowMoves
<1>9. q.answer = r.answer /\ q # [pc |-> "unsent"]
  <2>1. q.answer = r.answer /\ q.pc = p
    BY <1>6
  <2>2. p # "unsent"
    BY DEF Ended
  <2>3. QED
    BY <2>1, <2>2
<1>10. QED
  BY <1>1, <1>7, <1>8, <1>9, OneRowKept

(* Every step keeps what the searches show.                                *)
LEMMA StepKeepsRows ==
    ASSUME SearchesInv, [Next]_vars
    PROVE  RowsKept
<1>0. ASSUME search' = search PROVE RowsKept
  BY <1>0 DEF SearchesInv, RowsKept
<1>1. ASSUME NEW s \in Search, Begin(s) PROVE RowsKept
  BY <1>1, BeginKeeps
<1>2. ASSUME NEW s \in Search, TimesOut(s) PROVE RowsKept
  <2>1. search[s].pc \in {"retrieving", "reranking"} /\ \E z : Raises(s, z)
    BY <1>2 DEF TimesOut, BackendFails, RerankTimesOut
  <2>2. search[s] # [pc |-> "unsent"]
    BY <2>1
  <2>3. QED
    BY <2>1, <2>2, RaisesKeeps
<1>3. ASSUME NEW s \in Search, Proceeds(s) PROVE RowsKept
  <2>1. CASE CacheEvidence(s)
    <3>1. search[s].pc \in Shown /\ search' = [search EXCEPT ![s].pc = "auditing"]
      BY <2>1 DEF CacheEvidence, Shown
    <3>2. QED
      BY <3>1, MovesKeep
  <2>2. CASE Complete(s)
    <3>1. search[s].pc \in Shown /\ search' = [search EXCEPT ![s].pc = "answered"]
      BY <2>2 DEF Complete, Shown
    <3>2. QED
      BY <3>1, MovesKeep
  <2>3. CASE Fail(s)
    <3>1. search[s].pc \in Ended /\ search' = [search EXCEPT ![s].pc = "unavailable"]
          /\ "unavailable" \in Ended
      BY <2>3 DEF Fail, Ended
    <3>2. QED
      BY <3>1, MovesKeep
  <2>4. QED
    BY <1>3, <2>1, <2>2, <2>3 DEF Proceeds
<1>4. ASSUME NEW s \in Search, StoreFails(s) PROVE RowsKept
  <2>1. search[s].pc \in Shown \cup Ended /\ "raised" \in Ended
    BY <1>4 DEF StoreFails, Shown, Ended
  <2>2. PICK z : search' = [search EXCEPT ![s].pc = "raised", ![s].cause = z]
    BY <1>4 DEF StoreFails
  <2>3. QED
    BY <2>1, <2>2, MovesKeep
<1>5. ASSUME NEW s \in Search, NEW b \in Backend, BackendAnswers(s, b) PROVE RowsKept
  BY <1>5, BackendAnswersKeeps
<1>6. ASSUME RerankStarts PROVE RowsKept
  BY <1>0, <1>6 DEF RerankStarts
<1>7. ASSUME RerankReturns PROVE RowsKept
  BY <1>7, RerankKeeps
<1>8. ASSUME NEW d \in Document, NEW b \in Backend, ChangeIndex(d, b) PROVE RowsKept
  BY <1>0, <1>8 DEF ChangeIndex
<1>9. ASSUME NEW k \in DOMAIN cache, Expire(k) PROVE RowsKept
  BY <1>0, <1>9 DEF Expire
<1>10. ASSUME UNCHANGED vars PROVE RowsKept
  BY <1>0, <1>10 DEF vars
<1>11. QED
  BY <1>1, <1>2, <1>3, <1>4, <1>5, <1>6, <1>7, <1>8, <1>9, <1>10 DEF Next
(* The invariant of the searches.                                          *)
LEMMA StepKeepsSearches ==
    ASSUME SearchesInv, [Next]_vars
    PROVE  SearchesInv'
<1>1. search' = [s \in Search |-> search'[s]] /\ \A s \in Search : RowInv(s, search'[s])
  BY StepKeepsRows DEF RowsKept
<1>2. held' \in [Backend -> SUBSET Chunk] /\ thread' \in Search \cup {None} /\ queue' \in Seq(Search)
  <2>0. held \in [Backend -> SUBSET Chunk] /\ thread \in Search \cup {None} /\ queue \in Seq(Search)
    BY DEF SearchesInv
  <2>1. ASSUME NEW s \in Search, NEW b \in Backend, BackendAnswers(s, b)
        PROVE  held' = held /\ thread' = thread /\ queue' \in Seq(Search)
    <3>1. queue' = queue \/ queue' = Append(queue, s)
      BY <2>1, Zenon DEF BackendAnswers
    <3>2. held' = held /\ thread' = thread
      BY <2>1, Zenon DEF BackendAnswers
    <3>3. QED
      BY <2>0, <3>1, <3>2
  <2>2. ASSUME NEW s \in Search, RerankTimesOut(s)
        PROVE  held' = held /\ thread' = thread /\ queue' \in Seq(Search)
    <3> DEFINE S == {i \in DOMAIN queue : queue[i] \in Search \ {s}}
    <3>1. queue' = AtPositions(queue, S) /\ S \in SUBSET Nat /\ IsFiniteSet(S)
      <4>1. queue' = AtPositions(queue, S)
        BY <2>2 DEF RerankTimesOut, Only
      <4>2. S \in SUBSET (1..Len(queue)) /\ Len(queue) \in Nat
        BY <2>0
      <4>3. IsFiniteSet(1..Len(queue))
        BY <4>2, FS_Interval
      <4>4. IsFiniteSet(S)
        BY <4>2, <4>3, FS_Subset
      <4>5. QED
        BY <4>1, <4>2, <4>4
    <3>2. PICK n \in Nat : DOMAIN queue' = 1..n
      BY <3>1, PositionsTaken
    <3>3. \A i \in DOMAIN queue' : queue'[i] \in Search
      <4>1. \A i \in DOMAIN queue' : \E j \in S : queue'[i] = queue[j]
        BY <3>1, PositionsTaken
      <4>2. QED
        BY <4>1
    <3>4. queue' = [i \in DOMAIN queue' |-> queue'[i]]
      BY <3>1 DEF AtPositions
    <3>5. queue' \in [1..n -> Search]
      BY <3>2, <3>3, <3>4
    <3>6. queue' \in Seq(Search)
      BY <3>5
    <3>7. held' = held /\ thread' = thread
      BY <2>2 DEF RerankTimesOut
    <3>8. QED
      BY <3>6, <3>7
  <2>3. ASSUME RerankStarts
        PROVE  held' = held /\ thread' \in Search /\ queue' \in Seq(Search)
    BY <2>0, <2>3 DEF RerankStarts
  <2>4. ASSUME NEW d \in Document, NEW b \in Backend, ChangeIndex(d, b)
        PROVE  held' \in [Backend -> SUBSET Chunk] /\ thread' = thread /\ queue' = queue
    BY <2>0, <2>4 DEF ChangeIndex
  <2>5. QED
    BY <2>0, <2>1, <2>2, <2>3, <2>4
       DEF Next, vars, Begin, TimesOut, BackendFails, Proceeds, CacheEvidence, Complete, Fail,
           StoreFails, RerankReturns, Expire
<1>3. QED
  BY <1>1, <1>2 DEF SearchesInv

LEMMA InitSearches ==
    ASSUME Init
    PROVE  SearchesInv
<1>1. held \in [Backend -> SUBSET Chunk]
  BY DEF Init
<1>2. QED
  BY <1>1 DEF Init, SearchesInv, RowInv

(* Whatever happens to indexes, backends, thread and queue, what the       *)
(* searches hold stays their reader's.                                     *)
LEMMA SearchesKept == Spec => []SearchesInv
<1>1. Init => SearchesInv
  BY InitSearches
<1>2. SearchesInv /\ [Next]_vars => SearchesInv'
  BY StepKeepsSearches
<1>3. QED
  BY <1>1, <1>2, PTL DEF Spec

\* What is cached under a key is a piece some search of the key's user found.
CacheInv ==
    \A k \in DOMAIN cache : \E s \in Search :
        /\ search[s] # [pc |-> "unsent"]
        /\ cache[k] \in Elements(search[s].answer)
        /\ k = Key(Reader[s], cache[k].id)

(* The write of a search's pieces (cache_search_evidence).                 *)
LEMMA CacheWritten ==
    ASSUME SearchesInv, NEW s \in Search, CacheEvidence(s), NEW k \in DOMAIN cache',
           ~(k \in DOMAIN cache /\ cache'[k] = cache[k])
    PROVE  /\ search[s] # [pc |-> "unsent"]
           /\ cache'[k] \in Elements(search[s].answer)
           /\ k = Key(Reader[s], cache'[k].id)
<1>1. PICK pieces : pieces = search[s].answer
  OBVIOUS
<1>2. search[s] # [pc |-> "unsent"]
  <2>1. search[s].pc = "caching"
    BY DEF CacheEvidence
  <2>2. QED
    BY <2>1
<1>3. pieces \in Seq(Elements(pieces))
  BY <1>1, <1>2 DEF SearchesInv, RowInv
<1> DEFINE At(j) == {i \in DOMAIN pieces : Key(Reader[s], pieces[i].id) = j}
           keys == {Key(Reader[s], pieces[i].id) : i \in DOMAIN pieces}
<1>4. cache' = [j \in DOMAIN cache \cup keys |-> IF j \in keys THEN pieces[Max(At(j))] ELSE cache[j]]
  BY <1>1 DEF CacheEvidence
<1>5. k \in keys /\ cache'[k] = pieces[Max(At(k))]
  <2> HIDE DEF keys, At
  <2>1. QED
    BY <1>4
<1>6. Max(At(k)) \in At(k)
  <2>1. At(k) \in SUBSET (1..Len(pieces)) /\ Len(pieces) \in Nat /\ At(k) # {}
    BY <1>3, <1>5
  <2>2. \E i \in At(k) : \A j \in At(k) : j <= i
    BY <2>1, LastOfSome
  <2>3. \E i \in At(k) : \A j \in At(k) : i >= j
    <3>1. \A i, j \in At(k) : j <= i <=> i >= j
      BY <2>1
    <3>2. QED
      BY <2>2, <3>1
  <2> HIDE DEF At
  <2>4. QED
    BY <2>3 DEF Max
<1>7. QED
  BY <1>1, <1>2, <1>5, <1>6 DEF Elements

LEMMA StepKeepsCache ==
    ASSUME SearchesInv, CacheInv, [Next]_vars
    PROVE  CacheInv'
<1>1. RowsKept
  BY StepKeepsRows
<1>2. ASSUME NEW k, NEW piece, NEW s \in Search, search[s] # [pc |-> "unsent"],
             piece \in Elements(search[s].answer), k = Key(Reader[s], piece.id)
      PROVE  /\ search'[s] # [pc |-> "unsent"]
             /\ piece \in Elements(search'[s].answer) /\ k = Key(Reader[s], piece.id)
  BY <1>1, <1>2 DEF RowsKept
<1>3. ASSUME NEW k \in DOMAIN cache', k \in DOMAIN cache, cache'[k] = cache[k]
      PROVE  \E s \in Search :
                /\ search'[s] # [pc |-> "unsent"]
                /\ cache'[k] \in Elements(search'[s].answer) /\ k = Key(Reader[s], cache'[k].id)
  <2>1. PICK s \in Search :
          /\ search[s] # [pc |-> "unsent"]
          /\ cache[k] \in Elements(search[s].answer) /\ k = Key(Reader[s], cache[k].id)
    BY <1>3 DEF CacheInv
  <2>2. QED
    BY <1>2, <1>3, <2>1
<1>4. ASSUME NEW k \in DOMAIN cache', ~(k \in DOMAIN cache /\ cache'[k] = cache[k])
      PROVE  \E s \in Search :
                /\ search'[s] # [pc |-> "unsent"]
                /\ cache'[k] \in Elements(search'[s].answer) /\ k = Key(Reader[s], cache'[k].id)
  <2>1. \A j \in DOMAIN cache : (\E i : Expire(i)) /\ j \in DOMAIN cache' => cache'[j] = cache[j]
    BY DEF Expire
  <2>2. \A i : Expire(i) => DOMAIN cache' \subseteq DOMAIN cache
    BY DEF Expire
  <2>3. PICK s \in Search : CacheEvidence(s)
    BY <1>4, <2>1, <2>2
       DEF Next, vars, Begin, TimesOut, BackendFails, RerankTimesOut, Proceeds, Complete, Fail,
           StoreFails, RerankReturns, RerankStarts, BackendAnswers, ChangeIndex
  <2>4. /\ search[s] # [pc |-> "unsent"]
        /\ cache'[k] \in Elements(search[s].answer) /\ k = Key(Reader[s], cache'[k].id)
    BY <1>4, <2>3, CacheWritten
  <2>5. QED
    BY <1>2, <2>4
<1>5. QED
  BY <1>3, <1>4 DEF CacheInv

(* A link to a piece of evidence opens only what a search of that user     *)
(* found in a document of that user, whichever users searched texts with   *)
(* the same id meanwhile (get_cached_search_evidence).                     *)
THEOREM EvidenceBelongsToReader == Spec => []EvidenceIsOwn
<1>1. Init => CacheInv
  BY DEF Init, CacheInv
<1>2. SearchesInv /\ CacheInv /\ [Next]_vars => CacheInv'
  BY StepKeepsCache
<1>3. SearchesInv /\ CacheInv => EvidenceIsOwn
  <2> SUFFICES ASSUME SearchesInv, CacheInv PROVE EvidenceIsOwn
    OBVIOUS
  <2> DEFINE Found(u) == UNION {Elements(search[s].answer) :
                             s \in {t \in Search : Reader[t] = u /\ search[t].pc # "unsent"}}
  <2>1. ASSUME NEW u \in User, NEW v \in User, NEW piece \in Found(v), Opened(u, piece.id) # None
        PROVE  /\ Opened(u, piece.id) \in Found(u)
               /\ Owner[Opened(u, piece.id).chunk[1]] = u
               /\ Opened(u, piece.id).id = piece.id
    <3>1. PICK k : k = Key(u, piece.id)
      OBVIOUS
    <3>2. k \in DOMAIN cache /\ Opened(u, piece.id) = cache[k]
      BY <2>1, <3>1 DEF Opened
    <3>3. PICK s \in Search :
            /\ search[s] # [pc |-> "unsent"]
            /\ cache[k] \in Elements(search[s].answer) /\ k = Key(Reader[s], cache[k].id)
      BY <3>2 DEF CacheInv
    <3>4. Reader[s] = u /\ cache[k].id = piece.id
      BY <3>1, <3>3 DEF Key
    <3>5. /\ search[s].pc # "unsent"
          /\ \A i \in DOMAIN search[s].answer : Owner[search[s].answer[i].chunk[1]] = Reader[s]
      BY <3>3 DEF SearchesInv, RowInv, Shown, Ended
    <3>6. Owner[cache[k].chunk[1]] = u
      BY <3>3, <3>4, <3>5 DEF Elements
    <3>7. cache[k] \in Found(u)
      BY <3>3, <3>4, <3>5
    <3>8. QED
      BY <3>2, <3>4, <3>6, <3>7
  <2>2. QED
    BY <2>1 DEF EvidenceIsOwn
<1>4. QED
  BY <1>1, <1>2, <1>3, SearchesKept, PTL DEF Spec

(* Every answer is the reader's and within the limits of a context, and    *)
(* leaves nothing of the reranked list out that would have fitted          *)
(* (format_fused_context).                                                 *)
THEOREM AnswersAreSound == Spec => []AnswerIsSound
<1>1. SearchesInv => AnswerIsSound
  <2> SUFFICES ASSUME SearchesInv, NEW s \in Search, search[s].pc \in {"auditing", "answered"}
        PROVE  LET answer == search[s].answer
                   shown == {answer[i].chunk : i \in DOMAIN answer}
                   Chars(S) == Cardinality(Characters(S))
                   Of(d) == Cardinality({c \in shown : c[1] = d})
                   Fits(c) == Of(c[1]) < MaxPerDocument /\ Chars(shown \cup {c}) <= MaxChars
               IN /\ Cardinality(shown) = Len(answer)
                  /\ \A c \in shown : Owner[c[1]] = Reader[s] /\ Of(c[1]) <= MaxPerDocument
                  /\ Chars(shown) <= MaxChars
                  /\ \A c \in Elements(search[s].ranked) \ shown : ~Fits(c)
    BY DEF AnswerIsSound
  <2>1. search[s] # [pc |-> "unsent"] /\ search[s].pc \in Shown
    BY DEF Shown
  <2>2. Sound(Reader[s], search[s].ranked, search[s].answer) /\ Readable(s, search[s].ranked)
    BY <2>1 DEF SearchesInv, RowInv
  <2>3. Reader[s] \in User
    BY RetrievalAssumption
  <2>4. \A c \in Elements(search[s].ranked) : Owner[c[1]] = Reader[s] /\ Authorized(c[1], Reader[s])
    BY <2>2, <2>3, AuthorizedOwns DEF Readable
  <2>5. QED
    BY <2>2, <2>4 DEF Sound, Cut
<1>2. QED
  BY <1>1, SearchesKept, PTL

(* While lists are no longer than the smoothing constant, what goes to the *)
(* reranker is fair: a chunk that is better in every list that has the     *)
(* other stands before it, what both backends found before what one found, *)
(* and the limit cuts only from the end (fuse_backend_results).            *)
THEOREM FusionsAreFair ==
    ASSUME CandidateTopK <= RrfK
    PROVE  Spec => []FusionIsFair
<1>1. SearchesInv => FusionIsFair
  <2> SUFFICES ASSUME SearchesInv, NEW s \in Search, search[s].pc = "reranking"
        PROVE  Fair(search[s].found, search[s].ranked)
    BY DEF FusionIsFair, Fair, IsBetter
  <2>1. search[s] # [pc |-> "unsent"]
    OBVIOUS
  <2>2. PICK found : found = search[s].found
    OBVIOUS
  <2>3. /\ search[s].ranked = Fuse(found, FusionLimit) /\ DOMAIN found \subseteq Backend
        /\ \A b \in DOMAIN found :
             IsList(found[b]) /\ Readable(s, found[b]) /\ DOMAIN found[b] \subseteq 1..CandidateTopK
    BY <2>1, <2>2 DEF SearchesInv, RowInv
  <2>4. ResultLists(found)
    BY <2>3 DEF ResultLists, Readable
  <2>5. 1..CandidateTopK \subseteq 1..RrfK
    BY RetrievalAssumption, RrfAssumption
  <2>6. \A b \in DOMAIN found : DOMAIN found[b] \subseteq 1..RrfK
    BY <2>3, <2>5
  <2>7. QED
    BY <2>2, <2>3, <2>4, <2>6, FusedFairly
<1>2. QED
  BY <1>1, SearchesKept, PTL
=============================================================================
