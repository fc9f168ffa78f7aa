----------------------------- MODULE SublistProofs -----------------------------
(***************************************************************************)
(* What the lists of Sublists contain.  Putting numbers in order is a      *)
(* bijection: how many of a set are below one of it is an injection into   *)
(* as many numbers as the set has elements.                                *)
(***************************************************************************)
EXTENDS Sublists, FiniteSetTheorems, TLAPS

LEMMA FunctionIsSeq ==
  ASSUME NEW T, NEW n \in Nat, NEW f \in [1..n -> T]
  PROVE  f \in Seq(T) /\ Len(f) = n
OBVIOUS

LEMMA SeqDomain ==
  ASSUME NEW T, NEW seq \in Seq(T)
  PROVE  Len(seq) \in Nat /\ DOMAIN seq = 1..Len(seq)
OBVIOUS

LEMMA CountTo ==
  ASSUME NEW n \in Nat
  PROVE  IsFiniteSet(1..n) /\ Cardinality(1..n) = n
<1>1. IsFiniteSet(1..n) /\ Cardinality(1..n) = IF 1 > n THEN 0 ELSE n - 1 + 1
  BY FS_Interval
<1>2. (IF 1 > n THEN 0 ELSE n - 1 + 1) = n
  OBVIOUS
<1> QED
  BY <1>1, <1>2

\* How many numbers of a set are below one of them.
Rank(S, n) == Cardinality({m \in S : m < n})

LEMMA RankType ==
  ASSUME NEW S \in SUBSET Int, IsFiniteSet(S), NEW n \in S
  PROVE  Rank(S, n) \in 0..Cardinality(S) - 1
<1> DEFINE below == {m \in S : m < n}
<1>1. below \in SUBSET S /\ below # S
  <2>1. n \notin below
    OBVIOUS
  <2> QED
    BY <2>1
<1> HIDE DEF below
<1>2. Cardinality(below) \in Nat /\ Cardinality(S) \in Nat
  BY <1>1, FS_Subset, FS_CardinalityType
<1>3. Cardinality(below) <= Cardinality(S) /\ Cardinality(below) # Cardinality(S)
  BY <1>1, FS_Subset
<1>4. Cardinality(below) \in 0..Cardinality(S) - 1
  BY <1>2, <1>3
<1> QED
  BY <1>4 DEF Rank, below

LEMMA RankGrows ==
  ASSUME NEW S \in SUBSET Int, IsFiniteSet(S), NEW m \in S, NEW n \in S, m < n
  PROVE  Rank(S, m) < Rank(S, n)
<1> DEFINE under == {i \in S : i < m}
           below == {i \in S : i < n}
<1>1. under \in SUBSET below /\ under # below
  <2>1. m \in below /\ m \notin under
    OBVIOUS
  <2>2. \A i \in under : i \in below
    OBVIOUS
  <2> QED
    BY <2>1, <2>2
<1>2. IsFiniteSet(below)
  BY FS_Subset
<1> HIDE DEF under, below
<1>3. Cardinality(under) \in Nat /\ Cardinality(below) \in Nat
  BY <1>1, <1>2, FS_Subset, FS_CardinalityType
<1>4. Cardinality(under) <= Cardinality(below) /\ Cardinality(under) # Cardinality(below)
  BY <1>1, <1>2, FS_Subset
<1>5. Cardinality(under) < Cardinality(below)
  BY <1>3, <1>4
<1> QED
  BY <1>5 DEF Rank, under, below

\* Every place has its number.
LEMMA RankReached ==
  ASSUME NEW S \in SUBSET Int, IsFiniteSet(S), NEW k \in 0..Cardinality(S) - 1
  PROVE  \E n \in S : Rank(S, n) = k
<1> DEFINE places == 0..Cardinality(S) - 1
           rank == [n \in S |-> Rank(S, n)]
<1>1. Cardinality(S) \in Nat
  BY FS_CardinalityType
<1>2. IsFiniteSet(places) /\ Cardinality(places) = Cardinality(S)
  <2>1. Cardinality(S) - 1 \in Int /\ 0 \in Int
    BY <1>1
  <2>2. IsFiniteSet(places) /\ Cardinality(places) = IF 0 > Cardinality(S) - 1 THEN 0 ELSE Cardinality(S) - 1 - 0 + 1
    BY <2>1, FS_Interval
  <2> QED
    BY <1>1, <2>2
<1>3. \A m, n \in S : Rank(S, m) = Rank(S, n) => m = n
  <2> SUFFICES ASSUME NEW m \in S, NEW n \in S, m # n PROVE Rank(S, m) # Rank(S, n)
    OBVIOUS
  <2>1. m < n \/ n < m
    OBVIOUS
  <2>2. Rank(S, m) < Rank(S, n) \/ Rank(S, n) < Rank(S, m)
    BY <2>1, RankGrows
  <2>3. Rank(S, m) \in 0..Cardinality(S) - 1 /\ Rank(S, n) \in 0..Cardinality(S) - 1
    BY RankType
  <2> QED
    BY <1>1, <2>2, <2>3
<1>4. rank \in [S -> places]
  BY RankType
<1>5. rank \in Injection(S, places)
  BY <1>3, <1>4 DEF Injection, IsInjective
<1> HIDE DEF places, rank
<1>6. rank \in Surjection(S, places)
  BY <1>2, <1>5, FS_Injection
<1>7. \E n \in S : rank[n] = k
  BY <1>6 DEF Surjection, places
<1> QED
  BY <1>7 DEF rank

\* Putting a finite set of numbers in order: every place holds one of them, a later place a
\* larger one, and every number has a place.
LEMMA InOrderFacts ==
  ASSUME NEW S \in SUBSET Int, IsFiniteSet(S)
  PROVE  /\ Cardinality(S) \in Nat
         /\ DOMAIN InOrder(S) = 1..Cardinality(S)
         /\ \A k \in 1..Cardinality(S) : InOrder(S)[k] \in S
         /\ \A j, k \in 1..Cardinality(S) : j < k => InOrder(S)[j] < InOrder(S)[k]
         /\ \A n \in S : \E k \in 1..Cardinality(S) : InOrder(S)[k] = n
<1>1. Cardinality(S) \in Nat
  BY FS_CardinalityType
<1>2. \A k \in 1..Cardinality(S) : InOrder(S)[k] \in S /\ Rank(S, InOrder(S)[k]) = k - 1
  <2> SUFFICES ASSUME NEW k \in 1..Cardinality(S)
               PROVE  InOrder(S)[k] \in S /\ Rank(S, InOrder(S)[k]) = k - 1
    OBVIOUS
  <2>1. k - 1 \in 0..Cardinality(S) - 1
    BY <1>1
  <2>2. \E n \in S : Rank(S, n) = k - 1
    BY <2>1, RankReached
  <2>3. InOrder(S)[k] = CHOOSE n \in S : Rank(S, n) = k - 1
    BY DEF InOrder, Rank
  <2> QED
    BY <2>2, <2>3
<1>3. ASSUME NEW j \in 1..Cardinality(S), NEW k \in 1..Cardinality(S), j < k
      PROVE  InOrder(S)[j] < InOrder(S)[k]
  <2> DEFINE a == InOrder(S)[j]
             b == InOrder(S)[k]
  <2>1. a \in S /\ b \in S /\ Rank(S, a) < Rank(S, b)
    BY <1>1, <1>2, <1>3
  <2> HIDE DEF a, b
  <2>2. ~(b < a) /\ a # b
    <3>1. Rank(S, a) \in Int /\ Rank(S, b) \in Int
      BY <1>1, <2>1, RankType
    <3> QED
      BY <2>1, <3>1, RankGrows
  <2>3. a < b
    BY <2>1, <2>2
  <2> QED
    BY <2>3 DEF a, b
<1>4. ASSUME NEW n \in S
      PROVE  \E k \in 1..Cardinality(S) : InOrder(S)[k] = n
  <2> DEFINE k == Rank(S, n) + 1
             m == InOrder(S)[k]
  <2>1. k \in 1..Cardinality(S) /\ Rank(S, n) = k - 1
    BY <1>1, RankType
  <2>2. m \in S /\ Rank(S, m) = Rank(S, n)
    BY <1>2, <2>1
  <2> HIDE DEF m
  <2>3. ~(m < n) /\ ~(n < m)
    <3>1. Rank(S, m) \in Int /\ Rank(S, n) \in Int
      BY <1>1, <2>2, RankType
    <3> QED
      BY <2>2, <3>1, RankGrows
  <2>4. m = n
    BY <2>2, <2>3
  <2> QED
    BY <2>1, <2>4 DEF m
<1> QED
  BY <1>1, <1>2, <1>3, <1>4 DEF InOrder

\* Keeping some of a list: what is left is a list, no longer than before, whose elements are
\* those at the positions kept, each once and in their order.
LEMMA KeptFacts ==
  ASSUME NEW T, NEW seq \in Seq(T), NEW positions \in SUBSET DOMAIN seq
  PROVE  /\ Kept(seq, positions) \in Seq(T)
         /\ DOMAIN Kept(seq, positions) = 1..Cardinality(positions)
         /\ Cardinality(positions) \in Nat /\ Cardinality(positions) <= Len(seq)
         /\ \A k \in 1..Cardinality(positions) :
              /\ InOrder(positions)[k] \in positions
              /\ Kept(seq, positions)[k] = seq[InOrder(positions)[k]]
         /\ \A j, k \in 1..Cardinality(positions) : j < k => InOrder(positions)[j] < InOrder(positions)[k]
         /\ \A i \in positions : \E k \in 1..Cardinality(positions) : Kept(seq, positions)[k] = seq[i]
<1>1. Len(seq) \in Nat /\ DOMAIN seq = 1..Len(seq)
  BY SeqDomain
<1>2. IsFiniteSet(1..Len(seq)) /\ Cardinality(1..Len(seq)) = Len(seq)
  BY <1>1, CountTo
<1>3. IsFiniteSet(positions) /\ Cardinality(positions) <= Len(seq) /\ positions \in SUBSET Int
  BY <1>1, <1>2, FS_Subset
<1>4. /\ Cardinality(positions) \in Nat
      /\ \A k \in 1..Cardinality(positions) : InOrder(positions)[k] \in positions
      /\ \A j, k \in 1..Cardinality(positions) : j < k => InOrder(positions)[j] < InOrder(positions)[k]
      /\ \A n \in positions : \E k \in 1..Cardinality(positions) : InOrder(positions)[k] = n
  BY <1>3, InOrderFacts
<1>5. /\ DOMAIN Kept(seq, positions) = 1..Cardinality(positions)
      /\ \A k \in 1..Cardinality(positions) : Kept(seq, positions)[k] = seq[InOrder(positions)[k]]
  BY DEF Kept
<1>6. \A k \in 1..Cardinality(positions) : seq[InOrder(positions)[k]] \in T
  BY <1>1, <1>4
<1>7. Kept(seq, positions) \in Seq(T)
  <2>1. Kept(seq, positions) \in [1..Cardinality(positions) -> T]
    BY <1>6 DEF Kept
  <2> QED
    BY <1>4, <2>1
<1>8. \A i \in positions : \E k \in 1..Cardinality(positions) : Kept(seq, positions)[k] = seq[i]
  BY <1>4, <1>5
<1>9. \A k \in 1..Cardinality(positions) :
        /\ InOrder(positions)[k] \in positions
        /\ Kept(seq, positions)[k] = seq[InOrder(positions)[k]]
  BY <1>4, <1>5
<1>10. \A j, k \in 1..Cardinality(positions) : j < k => InOrder(positions)[j] < InOrder(positions)[k]
  BY <1>4
<1>11. Cardinality(positions) \in Nat /\ Cardinality(positions) <= Len(seq)
  BY <1>3, <1>4
<1> HIDE DEF Kept, InOrder
<1> QED
  BY ONLY <1>5, <1>7, <1>8, <1>9, <1>10, <1>11
-----------------------------------------------------------------------------
(***************************************************************************)
(* The same for any order of a finite set.                                 *)
(***************************************************************************)

\* A set of pairs orders all elements of a set.
StrictlyOrders(order, S) ==
  /\ \A x \in S : <<x, x>> \notin order
  /\ \A x, y, z \in S : <<x, y>> \in order /\ <<y, z>> \in order => <<x, z>> \in order
  /\ \A x, y \in S : x # y => <<x, y>> \in order \/ <<y, x>> \in order

\* How many elements come before one of them.
Place(S, order, x) == Cardinality({y \in S : <<y, x>> \in order})

LEMMA PlaceType ==
  ASSUME NEW S, IsFiniteSet(S), NEW order, StrictlyOrders(order, S), NEW x \in S
  PROVE  Place(S, order, x) \in 0..Cardinality(S) - 1
<1> DEFINE below == {y \in S : <<y, x>> \in order}
<1>1. below \in SUBSET S /\ x \notin below
  BY DEF StrictlyOrders
<1> HIDE DEF below
<1>2. Cardinality(below) \in Nat /\ Cardinality(S) \in Nat
  BY <1>1, FS_Subset, FS_CardinalityType
<1>3. below # S
  BY <1>1
<1>4. Cardinality(below) <= Cardinality(S) /\ Cardinality(below) # Cardinality(S)
  BY <1>1, <1>3, FS_Subset
<1>5. Cardinality(below) \in 0..Cardinality(S) - 1
  BY <1>2, <1>4
<1> QED
  BY <1>5 DEF Place, below

LEMMA PlaceGrows ==
  ASSUME NEW S, IsFiniteSet(S), NEW order, StrictlyOrders(order, S),
         NEW x \in S, NEW y \in S, <<x, y>> \in order
  PROVE  Place(S, order, x) < Place(S, order, y)
<1> DEFINE under == {z \in S : <<z, x>> \in order}
           below == {z \in S : <<z, y>> \in order}
<1>1. under \in SUBSET below
  BY DEF StrictlyOrders
<1>2. x \in below /\ x \notin under
  BY DEF StrictlyOrders
<1>3. IsFiniteSet(below)
  BY FS_Subset
<1> HIDE DEF under, below
<1>4. Cardinality(under) \in Nat /\ Cardinality(below) \in Nat
  BY <1>1, <1>3, FS_Subset, FS_CardinalityType
<1>5. under # below
  BY <1>2
<1>6. Cardinality(under) <= Cardinality(below) /\ Cardinality(under) # Cardinality(below)
  BY <1>1, <1>3, <1>5, FS_Subset
<1>7. Cardinality(under) < Cardinality(below)
  BY <1>4, <1>6
<1> QED
  BY <1>7 DEF Place, under, below

LEMMA PlaceReached ==
  ASSUME NEW S, IsFiniteSet(S), NEW order, StrictlyOrders(order, S), NEW k \in 0..Cardinality(S) - 1
  PROVE  \E x \in S : Place(S, order, x) = k
<1> DEFINE places == 0..Cardinality(S) - 1
           place == [x \in S |-> Place(S, order, x)]
<1>1. Cardinality(S) \in Nat
  BY FS_CardinalityType
<1>2. IsFiniteSet(places) /\ Cardinality(places) = Cardinality(S)
  <2>1. Cardinality(S) - 1 \in Int /\ 0 \in Int
    BY <1>1
  <2>2. IsFiniteSet(places) /\ Cardinality(places) = IF 0 > Cardinality(S) - 1 THEN 0 ELSE Cardinality(S) - 1 - 0 + 1
    BY <2>1, FS_Interval
  <2> QED
    BY <1>1, <2>2
<1>3. \A x, y \in S : Place(S, order, x) = Place(S, order, y) => x = y
  <2> SUFFICES ASSUME NEW x \in S, NEW y \in S, x # y PROVE Place(S, order, x) # Place(S, order, y)
    OBVIOUS
  <2>1. <<x, y>> \in order \/ <<y, x>> \in order
    BY DEF StrictlyOrders
  <2>2. Place(S, order, x) < Place(S, order, y) \/ Place(S, order, y) < Place(S, order, x)
    BY <2>1, PlaceGrows
  <2>3. Place(S, order, x) \in 0..Cardinality(S) - 1 /\ Place(S, order, y) \in 0..Cardinality(S) - 1
    BY PlaceType
  <2> QED
    BY <1>1, <2>2, <2>3
<1>4. place \in [S -> places]
  BY PlaceType
<1>5. place \in Injection(S, places)
  BY <1>3, <1>4 DEF Injection, IsInjective
<1> HIDE DEF places, place
<1>6. place \in Surjection(S, places)
  BY <1>2, <1>5, FS_Injection
<1>7. \E x \in S : place[x] = k
  BY <1>6 DEF Surjection, places
<1> QED
  BY <1>7 DEF place

\* Arranging a finite set: every place holds one of its elements, an earlier place an earlier
\* one, and every element has a place.
LEMMA ArrangedFacts ==
  ASSUME NEW S, IsFiniteSet(S), NEW order, StrictlyOrders(order, S)
  PROVE  /\ Cardinality(S) \in Nat
         /\ DOMAIN Arranged(S, order) = 1..Cardinality(S)
         /\ \A k \in 1..Cardinality(S) : Arranged(S, order)[k] \in S
         /\ \A j, k \in 1..Cardinality(S) : j < k => <<Arranged(S, order)[j], Arranged(S, order)[k]>> \in order
         /\ \A x \in S : \E k \in 1..Cardinality(S) : Arranged(S, order)[k] = x
         /\ Arranged(S, order) \in Seq(S) /\ Len(Arranged(S, order)) = Cardinality(S)
<1> DEFINE A == Arranged(S, order)
<1>1. Cardinality(S) \in Nat
  BY FS_CardinalityType
<1>2. \A k \in 1..Cardinality(S) : A[k] \in S /\ Place(S, order, A[k]) = k - 1
  <2> SUFFICES ASSUME NEW k \in 1..Cardinality(S)
               PROVE  A[k] \in S /\ Place(S, order, A[k]) = k - 1
    OBVIOUS
  <2>1. k - 1 \in 0..Cardinality(S) - 1
    BY <1>1
  <2>2. \E x \in S : Place(S, order, x) = k - 1
    BY <2>1, PlaceReached
  <2>3. A[k] = CHOOSE x \in S : Place(S, order, x) = k - 1
    BY DEF Arranged, Place
  <2> QED
    BY <2>2, <2>3
<1>3. DOMAIN A = 1..Cardinality(S)
  BY DEF Arranged
<1>6. A \in Seq(S) /\ Len(A) = Cardinality(S)
  <2>1. \A k \in 1..Cardinality(S) : (CHOOSE x \in S : Cardinality({y \in S : <<y, x>> \in order}) = k - 1) \in S
    BY <1>2 DEF Arranged
  <2>2. A \in [1..Cardinality(S) -> S]
    BY <2>1 DEF Arranged
  <2> HIDE DEF A
  <2> QED
    BY <1>1, <2>2
<1> HIDE DEF A
<1>4. ASSUME NEW j \in 1..Cardinality(S), NEW k \in 1..Cardinality(S), j < k
      PROVE  <<A[j], A[k]>> \in order
  <2>1. A[j] \in S /\ A[k] \in S /\ Place(S, order, A[j]) = j - 1 /\ Place(S, order, A[k]) = k - 1
    BY <1>2
  <2>2. A[j] # A[k]
    BY <1>1, <1>4, <2>1
  <2>3. ASSUME <<A[k], A[j]>> \in order PROVE FALSE
    <3>1. Place(S, order, A[k]) < Place(S, order, A[j])
      BY <2>1, <2>3, PlaceGrows
    <3> QED
      BY <1>1, <1>4, <2>1, <3>1
  <2> QED
    BY <2>1, <2>2, <2>3 DEF StrictlyOrders
<1>5. ASSUME NEW x \in S
      PROVE  \E k \in 1..Cardinality(S) : A[k] = x
  <2> DEFINE k == Place(S, order, x) + 1
  <2>1. k \in 1..Cardinality(S) /\ Place(S, order, x) = k - 1
    BY <1>1, PlaceType
  <2> HIDE DEF k
  <2>2. A[k] \in S /\ Place(S, order, A[k]) = Place(S, order, x)
    BY <1>2, <2>1
  <2>3. ~(<<A[k], x>> \in order) /\ ~(<<x, A[k]>> \in order)
    <3>1. Place(S, order, A[k]) \in Int /\ Place(S, order, x) \in Int
      BY <1>1, <2>2, PlaceType
    <3> QED
      BY <2>2, <3>1, PlaceGrows
  <2>4. A[k] = x
    BY <2>2, <2>3 DEF StrictlyOrders
  <2> QED
    BY <2>1, <2>4
<1> QED
  BY <1>1, <1>2, <1>3, <1>4, <1>5, <1>6 DEF A

\* A sequence in the order of its positions: as long, with the same elements, each of them
\* before those of later positions.
LEMMA SortedFacts ==
  ASSUME NEW T, NEW seq \in Seq(T), NEW order, StrictlyOrders(order, DOMAIN seq)
  PROVE  /\ Sorted(seq, order) \in Seq(T) /\ Len(Sorted(seq, order)) = Len(seq)
         /\ \A k \in DOMAIN seq : /\ Arranged(DOMAIN seq, order)[k] \in DOMAIN seq
                                  /\ Sorted(seq, order)[k] = seq[Arranged(DOMAIN seq, order)[k]]
         /\ \A j, k \in DOMAIN seq :
              j < k => <<Arranged(DOMAIN seq, order)[j], Arranged(DOMAIN seq, order)[k]>> \in order
         /\ \A i \in DOMAIN seq : \E k \in DOMAIN seq : Sorted(seq, order)[k] = seq[i]
<1> DEFINE A == Arranged(DOMAIN seq, order)
<1>1. Len(seq) \in Nat /\ DOMAIN seq = 1..Len(seq)
  BY SeqDomain
<1>2. IsFiniteSet(DOMAIN seq) /\ Cardinality(DOMAIN seq) = Len(seq)
  BY <1>1, CountTo
<1>3. /\ \A k \in DOMAIN seq : A[k] \in DOMAIN seq
      /\ \A j, k \in DOMAIN seq : j < k => <<A[j], A[k]>> \in order
      /\ \A x \in DOMAIN seq : \E k \in DOMAIN seq : A[k] = x
  <2>1. /\ \A k \in 1..Cardinality(DOMAIN seq) : A[k] \in DOMAIN seq
        /\ \A j, k \in 1..Cardinality(DOMAIN seq) : j < k => <<A[j], A[k]>> \in order
        /\ \A x \in DOMAIN seq : \E k \in 1..Cardinality(DOMAIN seq) : A[k] = x
    <3>1. PICK D : D = DOMAIN seq
      OBVIOUS
    <3>2. IsFiniteSet(D) /\ StrictlyOrders(order, D)
      BY <1>2, <3>1
    <3>3. \A k \in 1..Cardinality(D) : Arranged(D, order)[k] \in D
      BY <3>2, ArrangedFacts
    <3>4. \A j, k \in 1..Cardinality(D) : j < k => <<Arranged(D, order)[j], Arranged(D, order)[k]>> \in order
      BY <3>2, ArrangedFacts
    <3>5. \A x \in D : \E k \in 1..Cardinality(D) : Arranged(D, order)[k] = x
      BY <3>2, ArrangedFacts
    <3> QED
      BY <3>1, <3>3, <3>4, <3>5
  <2>2. 1..Cardinality(DOMAIN seq) = DOMAIN seq
    BY <1>1, <1>2
  <2> HIDE DEF A
  <2> QED
    BY <2>1, <2>2
<1> HIDE DEF A
<1>4. Sorted(seq, order) = [k \in DOMAIN seq |-> seq[A[k]]]
  BY DEF Sorted, A
<1>5. \A k \in 1..Len(seq) : seq[A[k]] \in T
  BY <1>1, <1>3
<1>6. Sorted(seq, order) \in Seq(T) /\ Len(Sorted(seq, order)) = Len(seq)
  <2>1. Sorted(seq, order) \in [1..Len(seq) -> T]
    BY <1>1, <1>4, <1>5
  <2> QED
    BY <1>1, <2>1, FunctionIsSeq
<1>7. \A k \in DOMAIN seq : Sorted(seq, order)[k] = seq[A[k]]
  BY <1>4
<1>8. \A i \in DOMAIN seq : \E k \in DOMAIN seq : Sorted(seq, order)[k] = seq[i]
  <2> SUFFICES ASSUME NEW i \in DOMAIN seq PROVE \E k \in DOMAIN seq : Sorted(seq, order)[k] = seq[i]
    OBVIOUS
  <2>1. PICK k \in DOMAIN seq : A[k] = i
    BY <1>3
  <2>2. Sorted(seq, order)[k] = seq[A[k]]
    BY <1>7
  <2> QED
    BY <2>1, <2>2
<1> QED
  BY <1>3, <1>6, <1>7, <1>8 DEF A

\* Where an element of a sequence comes first.
Firsts(seq) == {i \in DOMAIN seq : \A j \in 1..(i - 1) : seq[j] # seq[i]}

LEMMA FirstPlace ==
  ASSUME NEW T, NEW seq \in Seq(T)
  PROVE  \A i \in DOMAIN seq : \E f \in Firsts(seq) : seq[f] = seq[i]
<1> DEFINE firsts == {i \in DOMAIN seq : \A j \in 1..(i - 1) : seq[j] # seq[i]}
<1>1. Len(seq) \in Nat /\ DOMAIN seq = 1..Len(seq)
  BY SeqDomain
<1>2. \A i \in DOMAIN seq : \E f \in firsts : seq[f] = seq[i]
  <2> SUFFICES ASSUME NEW i \in DOMAIN seq PROVE \E f \in firsts : seq[f] = seq[i]
    OBVIOUS
  <2> DEFINE S == {j \in DOMAIN seq : seq[j] = seq[i]}
             f == InOrder(S)[1]
  <2>1. S \in SUBSET Int /\ IsFiniteSet(S) /\ i \in S
    <3>1. IsFiniteSet(1..Len(seq)) /\ S \in SUBSET (1..Len(seq))
      BY <1>1, FS_Interval
    <3> QED
      BY <3>1, FS_Subset
  <2>2. \A j \in S : j \in DOMAIN seq /\ seq[j] = seq[i]
    OBVIOUS
  <2>3. \A j \in DOMAIN seq : seq[j] = seq[i] => j \in S
    OBVIOUS
  <2> HIDE DEF S
  <2>4. /\ Cardinality(S) \in Nat
        /\ \A k \in 1..Cardinality(S) : InOrder(S)[k] \in S
        /\ \A j, k \in 1..Cardinality(S) : j < k => InOrder(S)[j] < InOrder(S)[k]
        /\ \A n \in S : \E k \in 1..Cardinality(S) : InOrder(S)[k] = n
    BY <2>1, InOrderFacts
  <2>5. 1 \in 1..Cardinality(S)
    BY <2>1, <2>4
  <2>6. f \in S
    BY <2>4, <2>5
  <2>7. \A n \in S : ~(n < f)
    <3> SUFFICES ASSUME NEW n \in S PROVE ~(n < f)
      OBVIOUS
    <3>1. PICK k \in 1..Cardinality(S) : InOrder(S)[k] = n
      BY <2>4
    <3>2. k = 1 \/ 1 < k
      BY <2>4
    <3>3. n = f \/ f < n
      BY <2>4, <2>5, <3>1, <3>2
    <3>4. f \in Int /\ n \in Int
      BY <2>1, <2>6
    <3> HIDE DEF f
    <3> QED
      BY <3>3, <3>4
  <2> HIDE DEF f
  <2>8. f \in DOMAIN seq /\ seq[f] = seq[i]
    BY <2>2, <2>6
  <2>9. \A j \in 1..(f - 1) : seq[j] # seq[f]
    <3> SUFFICES ASSUME NEW j \in 1..(f - 1) PROVE seq[j] # seq[f]
      OBVIOUS
    <3>1. j \in DOMAIN seq /\ j < f
      BY <1>1, <2>8
    <3> QED
      BY <2>3, <2>7, <2>8, <3>1
  <2>10. f \in firsts
    BY <2>8, <2>9
  <2> HIDE DEF firsts
  <2> QED
    BY <2>8, <2>10
<1> QED
  BY <1>2 DEF Firsts

\* Distinct loses nothing.
LEMMA DistinctHas ==
  ASSUME NEW T, NEW seq \in Seq(T), NEW i \in DOMAIN seq
  PROVE  \E k \in 1..Len(Distinct(seq)) : Distinct(seq)[k] = seq[i]
<1>1. PICK firsts : firsts = Firsts(seq)
  OBVIOUS
<1>2. firsts \in SUBSET DOMAIN seq
  BY <1>1 DEF Firsts
<1>3. PICK D : D = Kept(seq, firsts)
  OBVIOUS
<1>4. D = Distinct(seq)
  BY <1>1, <1>3 DEF Distinct, Firsts
<1>5. D \in Seq(T) /\ DOMAIN D = 1..Cardinality(firsts)
  BY <1>2, <1>3, KeptFacts
<1>6. DOMAIN D = 1..Len(D)
  BY <1>5, SeqDomain
<1>7. PICK f \in firsts : seq[f] = seq[i]
  BY <1>1, FirstPlace
<1>8. \E k \in 1..Cardinality(firsts) : D[k] = seq[f]
  BY <1>2, <1>3, KeptFacts
<1> QED
  BY <1>4, <1>5, <1>6, <1>7, <1>8

\* An element comes before the first place of another.
ComesBefore(seq, x, y) ==
  \E h, i \in DOMAIN seq : h < i /\ x = seq[h] /\ y = seq[i] /\ \A g \in 1..(i - 1) : seq[g] # seq[i]

\* The elements of a sequence once, where they come first.
LEMMA DistinctFacts ==
  ASSUME NEW T, NEW seq \in Seq(T)
  PROVE  /\ Distinct(seq) \in Seq(T)
         /\ \A j, k \in 1..Len(Distinct(seq)) : Distinct(seq)[j] = Distinct(seq)[k] => j = k
         /\ \A i \in DOMAIN seq : \E k \in 1..Len(Distinct(seq)) : Distinct(seq)[k] = seq[i]
         /\ \A k \in 1..Len(Distinct(seq)) : \E i \in DOMAIN seq :
              Distinct(seq)[k] = seq[i] /\ \A h \in 1..(i - 1) : seq[h] # seq[i]
         /\ \A j, k \in 1..Len(Distinct(seq)) :
              j < k => ComesBefore(seq, Distinct(seq)[j], Distinct(seq)[k])
<1> DEFINE firsts == {i \in DOMAIN seq : \A j \in 1..(i - 1) : seq[j] # seq[i]}
           D == Kept(seq, firsts)
           P == InOrder(firsts)
<1>1. firsts \in SUBSET DOMAIN seq /\ Len(seq) \in Nat /\ DOMAIN seq = 1..Len(seq)
  OBVIOUS
<1>2. \A i \in firsts : i \in DOMAIN seq /\ \A j \in 1..(i - 1) : seq[j] # seq[i]
  OBVIOUS
<1>3. \A i \in DOMAIN seq : \E f \in firsts : seq[f] = seq[i]
  BY FirstPlace DEF Firsts
<1> HIDE DEF firsts
<1>4. /\ D \in Seq(T) /\ DOMAIN D = 1..Cardinality(firsts) /\ Cardinality(firsts) \in Nat
      /\ \A k \in 1..Cardinality(firsts) : P[k] \in firsts /\ D[k] = seq[P[k]]
      /\ \A j, k \in 1..Cardinality(firsts) : j < k => P[j] < P[k]
      /\ \A i \in firsts : \E k \in 1..Cardinality(firsts) : D[k] = seq[i]
  BY <1>1, KeptFacts
<1> HIDE DEF D, P
<1>5. D = Distinct(seq)
  BY DEF D, Distinct, firsts
<1>6. Len(D) = Cardinality(firsts)
  BY <1>4
<1>7. \A k \in 1..Len(D) : \E i \in DOMAIN seq : D[k] = seq[i] /\ \A h \in 1..(i - 1) : seq[h] # seq[i]
  BY <1>2, <1>4, <1>6
<1>8. \A i \in DOMAIN seq : \E k \in 1..Len(D) : D[k] = seq[i]
  BY <1>3, <1>4, <1>6
<1>9. \A j, k \in 1..Len(D) : j < k =>
        \E h, i \in DOMAIN seq : /\ h < i /\ D[j] = seq[h] /\ D[k] = seq[i]
                                 /\ \A g \in 1..(i - 1) : seq[g] # seq[i]
  <2> SUFFICES ASSUME NEW j \in 1..Len(D), NEW k \in 1..Len(D), j < k
               PROVE  \E h, i \in DOMAIN seq : /\ h < i /\ D[j] = seq[h] /\ D[k] = seq[i]
                                               /\ \A g \in 1..(i - 1) : seq[g] # seq[i]
    OBVIOUS
  <2>1. P[j] \in firsts /\ P[k] \in firsts /\ P[j] < P[k] /\ D[j] = seq[P[j]] /\ D[k] = seq[P[k]]
    BY <1>4, <1>6
  <2> QED
    BY <1>2, <2>1
<1>10. \A j, k \in 1..Len(D) : D[j] = D[k] => j = k
  <2> SUFFICES ASSUME NEW j \in 1..Len(D), NEW k \in 1..Len(D), j < k
               PROVE  D[j] # D[k]
    BY <1>4, <1>6
  <2>1. PICK h \in DOMAIN seq, i \in DOMAIN seq : /\ h < i /\ D[j] = seq[h] /\ D[k] = seq[i]
                                                  /\ \A g \in 1..(i - 1) : seq[g] # seq[i]
    BY <1>9
  <2>2. h \in 1..(i - 1)
    BY <1>1, <2>1
  <2> QED
    BY <2>1, <2>2
<1>11. \A j, k \in 1..Len(D) : j < k => ComesBefore(seq, D[j], D[k])
  BY <1>9 DEF ComesBefore
<1> QED
  BY <1>4, <1>5, <1>7, <1>8, <1>10, <1>11
================================================================================
